---- MODULE MeasurementProofs ----
(***************************************************************************)
(* Proof that a stop is obeyed, for every script, any conditionals and     *)
(* failures, and any number of the operator's acts.                        *)
(*                                                                         *)
(* StopObeyed counts the data after a stop.  What makes it inductive is    *)
(* that the stop met the collector the script measures with, that both of  *)
(* the things it set stay as they are until the loop looks at them, and    *)
(* that a run that is not alive begins no measurement again.               *)
(***************************************************************************)
EXTENDS Measurement, TLAPS

(* From its set up to its end a measurement is the run's current one: the  *)
(* operator's cancel, stop and truncate reach its collector.               *)
Current == AtCommand \ {"called", "setup"}

Shape ==
    /\ {"told", "late"} \subseteq DOMAIN seen
    /\ {"alive", "hopping"} \subseteq DOMAIN run
    /\ DOMAIN col = Collectors
    /\ \A k \in Collectors : {"evt", "alive"} \subseteq DOMAIN col[k]
    /\ at \in Nat \ {0}
    /\ pc \in AtCommand => Mine \in Collectors
    /\ pc \in Current => Collector = Mine
    /\ InLoop => col[Mine].evt # "none"

(* After a stop in the loop the run is not alive and the thread is past    *)
(* the places from which a measurement begins; while it is in the loop the *)
(* collector is told; the one count that may come has not come yet, or the *)
(* thread is where it will see that it was told.                           *)
StopInv ==
    seen.told = "loop" =>
        /\ run.alive = FALSE
        /\ pc \notin {"step", "boot", "setup", "measure", "arm"}
        /\ InLoop => col[Mine].evt = "set" /\ col[Mine].alive = FALSE
        /\ seen.late = 0 \/ (seen.late = 1 /\ pc \notin {"check", "hop", "acquire"})

IInv == Shape /\ StopInv

(* A command of the script measures with one of the two collectors.        *)
LEMMA CommandCollector ==
    ASSUME NEW n \in Nat \ {0}, n <= Len(Commands)
    PROVE  Commands[n].by \in Collectors
<1>1. \A S : \A q \in Seq(S) : \A m \in 1..Len(q) : q[m] \in S
  OBVIOUS
<1>2. Commands \in Seq([by : Collectors, counts : Nat])
  BY MeasurementAssumption
<1>3. n \in 1..Len(Commands)
  BY <1>2
<1>4. Commands[n] \in [by : Collectors, counts : Nat]
  BY <1>1, <1>2, <1>3
<1> QED BY <1>4

LEMMA InitInv == Init => IInv
<1> SUFFICES ASSUME Init PROVE IInv
  OBVIOUS
<1>1. pc = "step" /\ at = 1
  BY DEF Init
<1>2. {"told", "late"} \subseteq DOMAIN seen /\ seen.told = "no"
  BY DEF Init
<1>3. {"alive", "hopping"} \subseteq DOMAIN run
  BY DEF Init
<1>4. DOMAIN col = Collectors /\ \A k \in Collectors : {"evt", "alive"} \subseteq DOMAIN col[k]
  BY DEF Init, NewCollector
<1> QED
  BY <1>1, <1>2, <1>3, <1>4 DEF IInv, Shape, StopInv, AtCommand, Current, InLoop

USE DEF Goto, InLoop, AtCommand, Current, Mine, Collector, Collectors

(* The steps of the run's thread keep the shape, ...                       *)
LEMMA ThreadShape == Shape /\ Thread => Shape'
<1> SUFFICES ASSUME Shape, Thread PROVE Shape'
  OBVIOUS
<1>1. CASE StartMeasurement BY <1>1 DEF Shape, StartMeasurement
<1>2. CASE Boot BY <1>2 DEF Shape, Boot
<1>3. CASE Call BY <1>3, CommandCollector DEF Shape, Call
<1>4. CASE Skip BY <1>4 DEF Shape, Skip
<1>5. CASE Enter BY <1>5 DEF Shape, Enter
<1>6. CASE Setup BY <1>6 DEF Shape, Setup
<1>7. CASE Measure BY <1>7 DEF Shape, Measure
<1>8. CASE Arm BY <1>8 DEF Shape, Arm
<1>9. CASE Loop BY <1>9 DEF Shape, Loop
<1>10. CASE CheckCounts BY <1>10 DEF Shape, CheckCounts, Break, LeaveLoop, Truncated
<1>11. ASSUME NEW kind \in AllTrips, Trip(kind) PROVE Shape'
  <2>1. pc = "check" /\ pc' \in {"after", "hop"} /\ at' = at
    BY <1>11 DEF Trip, Break, LeaveLoop
  <2>2. DOMAIN seen' = DOMAIN seen /\ DOMAIN run' = DOMAIN run /\ run'.hopping = run.hopping
    BY <1>11 DEF Shape, Trip, Break, LeaveLoop, Truncated
  <2>3. \/ col' = col
        \/ \E c : col' = [col EXCEPT ![Mine] = [c EXCEPT !.evt = "set"]] /\ DOMAIN c = DOMAIN col[Mine]
    BY <1>11 DEF Trip, Break, LeaveLoop
  <2>4. DOMAIN col' = Collectors /\ \A k \in Collectors : {"evt", "alive"} \subseteq DOMAIN col'[k]
    BY <2>3 DEF Shape
  <2>5. InLoop' => col' = col
    BY <1>11 DEF Trip, Break, LeaveLoop
  <2> QED BY <2>1, <2>2, <2>4, <2>5 DEF Shape
<1>12. CASE Trigger BY <1>12 DEF Shape, Trigger, Break, LeaveLoop
<1>13. CASE Acquire BY <1>13 DEF Shape, Acquire, Count
<1>26. CASE Missing BY <1>26 DEF Shape, Missing, Count
<1>27. CASE Garbled BY <1>27 DEF Shape, Garbled, Break, LeaveLoop
<1>14. CASE Retry BY <1>14 DEF Shape, Retry
<1>15. CASE GiveUp BY <1>15 DEF Shape, GiveUp, BeginCancel, Save
<1>16. CASE EndGiveUp BY <1>16 DEF Shape, EndGiveUp, EndCancel, Stop, Told, Finished
<1>17. CASE Terminate BY <1>17 DEF Shape, Terminate, BeginCancel
<1>18. CASE EndTerminate BY <1>18 DEF Shape, EndTerminate, EndCancel, Stop, Told, Finished
<1>19. CASE Cancel BY <1>19 DEF Shape, Cancel, BeginCancel
<1>20. CASE EndCancelQueue BY <1>20 DEF Shape, EndCancelQueue, Stop, Told, Finished
<1>21. CASE Return BY <1>21 DEF Shape, Return
<1>22. CASE EndScript
  <2>1. pc' \in {"measured", "failed"} /\ at' = at /\ seen' = seen
    BY <1>22 DEF EndScript
  <2>2. DOMAIN run' = DOMAIN run /\ run'.hopping = run.hopping
    BY <1>22 DEF Shape, EndScript, Finished
  <2>3. DOMAIN col' = DOMAIN col /\ \A k \in DOMAIN col : DOMAIN col'[k] = DOMAIN col[k]
    BY <1>22 DEF Shape, EndScript, Stop
  <2> QED BY <2>1, <2>2, <2>3 DEF Shape
<1>23. CASE Judge
  <2>1. pc' = "over" /\ at' = at /\ UNCHANGED <<col, seen>>
    BY <1>23 DEF Judge
  <2>2. DOMAIN run' = DOMAIN run /\ run'.hopping = run.hopping
    BY <1>23 DEF Shape, Judge, Save
  <2> QED BY <2>1, <2>2 DEF Shape
<1>24. CASE ValveFails BY <1>24 DEF Shape, ValveFails, BeginCancel
<1>25. CASE EndValveFails BY <1>25 DEF Shape, EndValveFails, Stop, Told, Finished
<1> QED
  BY <1>1, <1>2, <1>3, <1>4, <1>5, <1>6, <1>7, <1>8, <1>9, <1>10, <1>11, <1>12, <1>13,
     <1>14, <1>15, <1>16, <1>17, <1>18, <1>19, <1>20, <1>21, <1>22, <1>23,
     <1>24, <1>25, <1>26, <1>27 DEF Thread

(* ... and so does the operator.                                           *)
LEMMA OperatorShape == Shape /\ Operator => Shape'
<1> SUFFICES ASSUME Shape, Operator PROVE Shape'
  OBVIOUS
<1>1. CASE OperatorCancel
  BY <1>1 DEF Shape, OperatorCancel, BeginCancel, Act
<1>2. CASE OperatorAbort BY <1>2 DEF Shape, OperatorAbort, Act
<1>3. CASE OperatorEnds
  BY <1>3 DEF Shape, OperatorEnds, EndCancel, Stop, Told, Finished, threads
<1>4. ASSUME NEW style, TruncateRun(style) PROVE Shape'
  BY <1>4 DEF Shape, TruncateRun, Truncated, Act
<1>5. CASE ChangeCounts BY <1>5 DEF Shape, ChangeCounts, Act, threads
<1> QED BY <1>1, <1>2, <1>3, <1>4, <1>5 DEF Operator

(* The thread obeys a stop it was told of.                                 *)
LEMMA ThreadStops == IInv /\ Thread => StopInv'
<1> SUFFICES ASSUME Shape, StopInv, Thread PROVE StopInv'
  BY DEF IInv
<1>1. CASE StartMeasurement BY <1>1 DEF Shape, StopInv, StartMeasurement
<1>2. CASE Boot BY <1>2 DEF Shape, StopInv, Boot
<1>3. CASE Call BY <1>3 DEF Shape, StopInv, Call
<1>4. CASE Skip BY <1>4 DEF Shape, StopInv, Skip
<1>5. CASE Enter BY <1>5 DEF Shape, StopInv, Enter
<1>6. CASE Setup BY <1>6 DEF Shape, StopInv, Setup
<1>7. CASE Measure BY <1>7 DEF Shape, StopInv, Measure
<1>8. CASE Arm BY <1>8 DEF Shape, StopInv, Arm
<1>9. CASE Loop BY <1>9 DEF Shape, StopInv, Loop
<1>10. CASE CheckCounts
  BY <1>10 DEF Shape, StopInv, CheckCounts, Break, LeaveLoop, Truncated
<1>11. ASSUME NEW kind \in AllTrips, Trip(kind) PROVE StopInv'
  <2>1. pc = "check" /\ col[Mine].alive
    BY <1>11 DEF Trip
  <2>2. seen.told # "loop"
    BY <2>1 DEF StopInv
  <2>3. seen'.told = seen.told
    BY <1>11 DEF Shape, Trip
  <2> QED BY <2>2, <2>3 DEF StopInv
<1>12. CASE Trigger BY <1>12 DEF Shape, StopInv, Trigger, Break, LeaveLoop
<1>13. CASE Acquire BY <1>13 DEF Shape, StopInv, Acquire, Count, Later
<1>26. CASE Missing BY <1>26 DEF Shape, StopInv, Missing, Count, Later
<1>27. CASE Garbled BY <1>27 DEF Shape, StopInv, Garbled, Break, LeaveLoop
<1>14. CASE Retry BY <1>14 DEF Shape, StopInv, Retry
<1>15. CASE GiveUp BY <1>15 DEF Shape, StopInv, GiveUp, BeginCancel, Save
<1>16. CASE EndGiveUp
  BY <1>16 DEF Shape, StopInv, EndGiveUp, EndCancel, Stop, Told, Finished
<1>17. CASE Terminate BY <1>17 DEF Shape, StopInv, Terminate, BeginCancel
<1>18. CASE EndTerminate
  BY <1>18 DEF Shape, StopInv, EndTerminate, EndCancel, Stop, Told, Finished
<1>19. CASE Cancel BY <1>19 DEF Shape, StopInv, Cancel, BeginCancel
<1>20. CASE EndCancelQueue
  BY <1>20 DEF Shape, StopInv, EndCancelQueue, Stop, Told, Finished
<1>21. CASE Return BY <1>21 DEF Shape, StopInv, Return
<1>22. CASE EndScript BY <1>22 DEF Shape, StopInv, EndScript, Stop, Finished
<1>23. CASE Judge BY <1>23 DEF Shape, StopInv, Judge, Save
<1>24. CASE ValveFails BY <1>24 DEF Shape, StopInv, ValveFails, BeginCancel
<1>25. CASE EndValveFails
  BY <1>25 DEF Shape, StopInv, EndValveFails, Stop, Told, Finished, InLoop
<1> QED
  BY <1>1, <1>2, <1>3, <1>4, <1>5, <1>6, <1>7, <1>8, <1>9, <1>10, <1>11, <1>12, <1>13,
     <1>14, <1>15, <1>16, <1>17, <1>18, <1>19, <1>20, <1>21, <1>22, <1>23,
     <1>24, <1>25, <1>26, <1>27 DEF Thread

(* What stop leaves of a collector that measures                           *)
LEMMA StopTells ==
    ASSUME Shape, NEW k \in Collectors, Stop(k), col[k].evt # "none"
    PROVE  col'[k].evt = "set" /\ col'[k].alive = FALSE
<1>1. {"evt", "alive"} \subseteq DOMAIN col[k] /\ k \in DOMAIN col
  BY DEF Shape
<1> HIDE DEF Collectors
<1> QED BY <1>1 DEF Stop

(* The operator's stop tells the collector of the loop it meets.           *)
LEMMA OperatorStops == IInv /\ Operator => StopInv'
<1> SUFFICES ASSUME Shape, StopInv, Operator PROVE StopInv'
  BY DEF IInv
<1>1. CASE OperatorCancel
  BY <1>1 DEF Shape, StopInv, OperatorCancel, BeginCancel, Act
<1>2. CASE OperatorAbort BY <1>2 DEF Shape, StopInv, OperatorAbort, Act
<1>3. CASE OperatorEnds
  <2>1. UNCHANGED <<pc, at>> /\ Stop(Collector) /\ seen' = Told
    BY <1>3 DEF OperatorEnds, EndCancel, threads
  <2>2. run'.alive = FALSE
    BY <1>3 DEF Shape, OperatorEnds, EndCancel, Finished
  <2>3. CASE InLoop
    <3>1. Collector = Mine
      BY <2>3 DEF Shape
    <3>2. Mine \in Collectors /\ col[Mine].evt # "none"
      BY <2>3 DEF Shape
    <3>3. Stop(Mine)
      BY <2>1, <3>1
    <3>4. col'[Mine].evt = "set" /\ col'[Mine].alive = FALSE
      BY <3>2, <3>3, StopTells
    <3> QED BY <2>1, <2>2, <2>3, <3>4 DEF Shape, StopInv, Told
  <2>4. CASE ~InLoop
    <3>1. seen'.told = "loop" => seen.told = "loop" /\ seen'.late = seen.late
      BY <2>1, <2>4 DEF Shape, Told
    <3> QED BY <2>1, <2>2, <2>4, <3>1 DEF StopInv
  <2> QED BY <2>3, <2>4
<1>4. ASSUME NEW style, TruncateRun(style) PROVE StopInv'
  BY <1>4 DEF Shape, StopInv, TruncateRun, Truncated, Act
<1>5. CASE ChangeCounts BY <1>5 DEF Shape, StopInv, ChangeCounts, Act, threads
<1> QED BY <1>1, <1>2, <1>3, <1>4, <1>5 DEF Operator

LEMMA NextInv == IInv /\ [Next]_vars => IInv'
<1> SUFFICES ASSUME IInv, [Next]_vars PROVE IInv'
  OBVIOUS
<1>1. CASE Thread BY <1>1, ThreadShape, ThreadStops DEF IInv
<1>2. CASE Operator BY <1>2, OperatorShape, OperatorStops DEF IInv
<1>3. CASE UNCHANGED vars
  BY <1>3 DEF IInv, Shape, StopInv, vars, threads, measured
<1> QED BY <1>1, <1>2, <1>3 DEF Next

(* A run that is stopped while it takes counts, by the operator's cancel   *)
(* or abort or by its own failure, takes one more at most, in whatever     *)
(* measurement of whatever script it was.                                  *)
THEOREM StopsObeyed == Spec => []StopObeyed
<1>1. IInv => StopObeyed BY DEF IInv, StopInv, StopObeyed
<1> QED BY <1>1, InitInv, NextInv, PTL DEF Spec

----------------------------------------------------------------------------
(***************************************************************************)
(* Proof that a run is saved if and only if nothing stopped it, for every  *)
(* script, any conditionals and failures, and any number of the operator's *)
(* acts; and type correctness, on which it rests.                          *)
(*                                                                         *)
(* Between the moment a run is stopped and the end of its script the stop  *)
(* is kept in one of several places, and each step that takes it from one  *)
(* puts it into another: the script's cancel, the canceled flag of the     *)
(* multicollector while a measurement with it is still to come, the flags  *)
(* of the collector that has just left its loop.                           *)
(***************************************************************************)

Scripts == [cancel : BOOLEAN, abort : BOOLEAN, counts : Nat, short : BOOLEAN]
Runs == [alive : BOOLEAN, aborted : BOOLEAN, measuring : BOOLEAN, measured : BOOLEAN,
         hopping : BOOLEAN, state : States, saved : BOOLEAN]
Cols == [canceled : BOOLEAN, terminated : BOOLEAN, alive : BOOLEAN,
         evt : {"none", "clear", "set"}, truncate : BOOLEAN]
History == [stopped : BOOLEAN, told : {"no", "gap", "loop"}, late : 0..2,
            cut : BOOLEAN, short : BOOLEAN]

(* The records are typed; Shape has the rest of TypeOK.                    *)
Records ==
    /\ script \in Scripts /\ run \in Runs /\ col \in [Collectors -> Cols]
    /\ queue \in [alive : BOOLEAN, aborted : BOOLEAN] /\ seen \in History

Numbers ==
    /\ at \in 1..(Len(Commands) + 1)
    /\ pc \in AtCommand => at <= Len(Commands)
    /\ user \in Nat /\ counts \in Nat /\ i \in Nat /\ hop \in Nat /\ misses \in 0..Threshold
    /\ acts \in 0..MaxActs

Labels ==
    /\ pc \in {"step", "boot", "command", "valve"} \cup AtCommand
                 \cup {"measured", "failed", "over"}
    /\ calls \in {"none", "queue", "abort"}

TInv == Shape /\ Records /\ Numbers /\ Labels

USE DEF Goto, InLoop, AtCommand, Current, Mine, Collector

(* The ways the steps rewrite a collector's record, ...                    *)
LEMMA ColRewritten ==
    ASSUME NEW c \in Cols, NEW b \in BOOLEAN, NEW e \in {"none", "clear", "set"}
    PROVE  /\ [c EXCEPT !.canceled = TRUE] \in Cols
           /\ [c EXCEPT !.alive = FALSE, !.evt = e] \in Cols
           /\ [c EXCEPT !.alive = TRUE, !.evt = "clear"] \in Cols
           /\ [c EXCEPT !.terminated = FALSE, !.truncate = FALSE] \in Cols
           /\ [c EXCEPT !.truncate = b] \in Cols
           /\ [c EXCEPT !.terminated = TRUE] \in Cols
           /\ [c EXCEPT !.evt = "set"] \in Cols
           /\ [c EXCEPT !.canceled = TRUE, !.alive = FALSE, !.evt = "set"] \in Cols
  BY DEF Cols

LEMMA StopTyped ==
    ASSUME Records, NEW k \in Collectors, Stop(k)
    PROVE  /\ col' \in [Collectors -> Cols]
           /\ \A j \in Collectors : /\ col'[j].canceled = col[j].canceled
                                    /\ col'[j].terminated = col[j].terminated
<1> DEFINE e == IF col[k].evt = "none" THEN "none" ELSE "set"
<1>1. col' = [col EXCEPT ![k] = [col[k] EXCEPT !.alive = FALSE, !.evt = e]]
  BY DEF Stop, Records, Cols
<1>2. [col[k] EXCEPT !.alive = FALSE, !.evt = e] \in Cols
  BY ColRewritten DEF Records
<1>3. /\ [col[k] EXCEPT !.alive = FALSE, !.evt = e].canceled = col[k].canceled
      /\ [col[k] EXCEPT !.alive = FALSE, !.evt = e].terminated = col[k].terminated
  BY DEF Records, Cols
<1> HIDE DEF e, Cols
<1> QED BY <1>1, <1>2, <1>3 DEF Records

LEMMA BeginCancelTyped ==
    ASSUME Records, BeginCancel
    PROVE  /\ col' \in [Collectors -> Cols] /\ script' \in Scripts
           /\ script'.cancel = TRUE /\ script'.abort = script.abort
           /\ col'[Collector].canceled = TRUE
           /\ \A j \in Collectors : col[j].canceled = TRUE => col'[j].canceled = TRUE
<1>1. Collector \in Collectors
  BY DEF Collectors
<1> DEFINE k == Collector
<1>2. col' = [col EXCEPT ![k] = [col[k] EXCEPT !.canceled = TRUE]]
  BY DEF BeginCancel
<1>3. [col[k] EXCEPT !.canceled = TRUE] \in Cols
  BY <1>1, ColRewritten DEF Records
<1>4. [col[k] EXCEPT !.canceled = TRUE].canceled = TRUE
  BY <1>1 DEF Records, Cols
<1>5. script' \in Scripts /\ script'.cancel = TRUE /\ script'.abort = script.abort
  BY DEF Records, BeginCancel, Scripts
<1> HIDE DEF k, Cols, Collector
<1> QED BY <1>1, <1>2, <1>3, <1>4, <1>5 DEF Records, k

LEMMA FinishedTyped ==
    ASSUME NEW r \in Runs
    PROVE  /\ Finished(r) \in Runs /\ Finished(r).aborted = r.aborted
           /\ Finished(r).measured = r.measured /\ Finished(r).saved = r.saved
           /\ Finished(r).hopping = r.hopping
<1>1. PICK st \in States : Finished(r) = [r EXCEPT !.alive = FALSE, !.state = st]
  <2>1. r.state \in States /\ "failed" \in States
    BY DEF Runs, States
  <2> QED BY <2>1 DEF Finished
<1> QED BY <1>1, Zenon DEF Runs

LEMMA ToldTyped ==
    ASSUME Records
    PROVE  Told \in History /\ Told.stopped = seen.stopped
<1>1. seen \in History
  BY DEF Records
<1>2. ASSUME NEW t \in {"no", "gap", "loop"}, NEW n \in 0..2
      PROVE  /\ [seen EXCEPT !.told = t, !.late = n] \in History
             /\ [seen EXCEPT !.told = t, !.late = n].stopped = seen.stopped
             /\ [seen EXCEPT !.told = t] \in History
             /\ [seen EXCEPT !.told = t].stopped = seen.stopped
  BY <1>1, Zenon DEF History
<1>4. seen.told \in {"no", "gap", "loop"} /\ 0 \in 0..2
  BY <1>1 DEF History
<1>3. \/ Told = [seen EXCEPT !.told = "loop", !.late = 0]
      \/ Told = [seen EXCEPT !.told = "gap"] \/ Told = [seen EXCEPT !.told = seen.told]
  <2>1. seen.told = "no" \/ seen.told # "no"
    OBVIOUS
  <2> QED BY <2>1, Zenon DEF Told
<1> HIDE DEF History, Told
<1> QED BY <1>2, <1>3, <1>4

LEMMA SaveTyped ==
    ASSUME NEW r \in Runs
    PROVE  /\ Save(r) \in Runs /\ Save(r).aborted = r.aborted /\ Save(r).measured = r.measured
           /\ Save(r).hopping = r.hopping /\ Save(r).state = r.state
           /\ Save(r).saved = (r.saved \/ (r.measured /\ ~r.aborted))
  BY DEF Runs, Save

(* What a collector becomes when the loop is left with it                  *)
LEMMA LeaveTyped ==
    ASSUME Records, Mine \in Collectors, NEW r \in Runs, NEW c \in Cols, LeaveLoop(r, c)
    PROVE  run' \in Runs /\ col' \in [Collectors -> Cols]
<1>1. [c EXCEPT !.evt = "set"] \in Cols
  BY ColRewritten
<1> HIDE DEF Cols, Mine
<1> QED BY <1>1 DEF Records, LeaveLoop

(* The ways the steps rewrite the other records                            *)
LEMMA RunRewritten ==
    ASSUME NEW r \in Runs, NEW st \in States
    PROVE  /\ [r EXCEPT !.state = st] \in Runs
           /\ [r EXCEPT !.state = st, !.measuring = TRUE] \in Runs
           /\ [r EXCEPT !.state = st, !.hopping = FALSE] \in Runs
  BY Zenon DEF Runs

LEMMA RunFlagged ==
    ASSUME NEW r \in Runs
    PROVE  /\ r.state \in States
           /\ [r EXCEPT !.hopping = TRUE] \in Runs /\ [r EXCEPT !.hopping = FALSE] \in Runs
           /\ [r EXCEPT !.measuring = FALSE] \in Runs
           /\ [r EXCEPT !.measuring = FALSE, !.measured = TRUE] \in Runs
           /\ [r EXCEPT !.aborted = TRUE] \in Runs
  BY Zenon DEF Runs

LEMMA SeenRewritten ==
    ASSUME NEW h \in History
    PROVE  /\ [h EXCEPT !.stopped = TRUE] \in History
           /\ \A b, c \in BOOLEAN : [h EXCEPT !.stopped = b, !.cut = c] \in History
           /\ \A b \in BOOLEAN : [h EXCEPT !.short = b, !.cut = FALSE] \in History
           /\ [h EXCEPT !.cut = TRUE] \in History
           /\ \A n \in 0..2 : /\ [h EXCEPT !.late = n] \in History
                              /\ [h EXCEPT !.late = n, !.stopped = TRUE] \in History
  BY Zenon DEF History

LEMMA ScriptRewritten ==
    ASSUME NEW x \in Scripts, NEW b \in BOOLEAN, NEW n \in Nat
    PROVE  /\ [x EXCEPT !.cancel = b] \in Scripts
           /\ [x EXCEPT !.abort = TRUE] \in Scripts
           /\ [x EXCEPT !.short = b] \in Scripts
           /\ [x EXCEPT !.counts = n] \in Scripts
  BY Zenon DEF Scripts

LEMMA StateNames ==
    {"measurement", "truncated", "canceled", "terminated", "aborted", "failed",
     "success"} \subseteq States
  BY DEF States

(* A command of the script has a number of counts.                         *)
LEMMA CommandTyped ==
    ASSUME NEW n \in 1..Len(Commands)
    PROVE  Commands[n] \in [by : Collectors, counts : Nat]
<1>1. \A S : \A q \in Seq(S) : \A m \in 1..Len(q) : q[m] \in S
  OBVIOUS
<1>2. Commands \in Seq([by : Collectors, counts : Nat])
  BY MeasurementAssumption
<1> QED BY <1>1, <1>2

LEMMA CountsTyped ==
    ASSUME Records, NEW n \in 1..Len(Commands)
    PROVE  CountsOf(Commands[n]) \in Nat
<1>1. Commands[n].counts \in Nat
  BY CommandTyped
<1>2. Commands[n].counts \div 4 \in Nat /\ Commands[n].counts + 1 \in Nat
  BY <1>1
<1> QED BY <1>1, <1>2 DEF CountsOf

LEMMA LengthNat == Len(Commands) \in Nat
  BY MeasurementAssumption

(* The thread keeps the records, ...                                       *)
LEMMA ThreadRecords == TInv /\ Thread => Records'
<1> SUFFICES ASSUME TInv, Thread PROVE Records'
  OBVIOUS
<1> USE DEF TInv
<1>r. /\ script \in Scripts /\ run \in Runs /\ col \in [Collectors -> Cols]
      /\ queue \in [alive : BOOLEAN, aborted : BOOLEAN] /\ seen \in History
  BY DEF Records
<1>m. pc \in AtCommand => Mine \in Collectors /\ at \in 1..Len(Commands)
  BY LengthNat DEF Shape, Numbers
<1>t. Truncated \in Runs
  BY <1>r, RunRewritten, StateNames DEF Truncated
<1> HIDE DEF Mine, Collector, Current
<1>1. CASE StartMeasurement
  BY <1>1, <1>r, RunRewritten, StateNames DEF StartMeasurement, Records
<1>2. CASE Boot BY <1>2, <1>r, ScriptRewritten DEF Boot, Records
<1>3. CASE Call
  <2>1. CountsOf(Commands[at]) \in Nat
    BY <1>3, CountsTyped, LengthNat DEF Call, Numbers
  <2> QED BY <2>1, <1>3, <1>r, ScriptRewritten DEF Call, Records
<1>4. CASE Skip BY <1>4, <1>r DEF Skip, Records
<1>5. CASE ValveFails
  <2>1. seen' \in History
    BY <1>5, <1>r, SeenRewritten DEF ValveFails
  <2>2. script' \in Scripts /\ col' \in [Collectors -> Cols]
    BY <1>5, BeginCancelTyped DEF ValveFails
  <2>3. UNCHANGED <<run, queue>>
    BY <1>5 DEF ValveFails
  <2> QED BY <2>1, <2>2, <2>3, <1>r DEF Records
<1>6. CASE EndValveFails
  <2>1. Collector \in Collectors
    BY DEF Collector, Collectors
  <2>2. [Finished(run) EXCEPT !.state = "canceled"] \in Runs
    BY <1>r, FinishedTyped, RunRewritten, StateNames
  <2> QED BY <1>6, <2>1, <2>2, <1>r, StopTyped, ToldTyped, ScriptRewritten DEF EndValveFails, Records
<1>7. CASE Enter BY <1>7, <1>r, ScriptRewritten DEF Enter, Records
<1>8. CASE Setup
  <2>1. run' = [run EXCEPT !.hopping = TRUE] \/ run' = [run EXCEPT !.hopping = FALSE]
    BY <1>8, Zenon DEF Setup
  <2>2. UNCHANGED <<script, col, queue, seen>>
    BY <1>8 DEF Setup
  <2> QED BY <2>1, <2>2, <1>r, RunFlagged DEF Records
<1>9. CASE Measure
  <2>1. [col[Mine] EXCEPT !.terminated = FALSE, !.truncate = FALSE] \in Cols
    BY <1>9, <1>r, <1>m, ColRewritten DEF Measure
  <2> HIDE DEF Cols
  <2> QED BY <1>9, <2>1, <1>r, <1>m DEF Measure, Records
<1>10. CASE Arm
  <2>1. [col[Mine] EXCEPT !.alive = TRUE, !.evt = "clear"] \in Cols
    BY <1>10, <1>r, <1>m, ColRewritten DEF Arm
  <2> HIDE DEF Cols
  <2> QED BY <1>10, <2>1, <1>r, <1>m DEF Arm, Records
<1>11. CASE Loop BY <1>11, <1>r DEF Loop, Records
<1>12. CASE CheckCounts
  <2>1. Mine \in Collectors /\ col[Mine] \in Cols
    BY <1>12, <1>m, <1>r DEF CheckCounts
  <2>2. /\ [col[Mine] EXCEPT !.canceled = TRUE] \in Cols
        /\ [col[Mine] EXCEPT !.truncate = FALSE] \in Cols
    BY <2>1, ColRewritten
  <2>3. \/ UNCHANGED <<run, col>>
        \/ \E r \in Runs, c \in Cols : LeaveLoop(r, c)
    BY <1>12, <2>1, <2>2, <1>t, <1>r, Zenon DEF CheckCounts, Break
  <2>4. run' \in Runs /\ col' \in [Collectors -> Cols]
    BY <2>1, <2>3, <1>r, LeaveTyped
  <2>5. UNCHANGED <<script, queue, seen>>
    BY <1>12 DEF CheckCounts, Break
  <2> QED BY <2>4, <2>5, <1>r DEF Records
<1>13. ASSUME NEW kind \in AllTrips, Trip(kind) PROVE Records'
  <2>1. Mine \in Collectors /\ col[Mine] \in Cols
    BY <1>13, <1>m, <1>r DEF Trip
  <2>2. /\ [col[Mine] EXCEPT !.canceled = TRUE] \in Cols
        /\ [col[Mine] EXCEPT !.terminated = TRUE] \in Cols
    BY <2>1, ColRewritten
  <2>3. \/ UNCHANGED <<run, col>>
        \/ \E r \in Runs, c \in Cols : LeaveLoop(r, c)
    BY <1>13, <2>1, <2>2, <1>t, <1>r, Zenon DEF Trip, Break
  <2>4. run' \in Runs /\ col' \in [Collectors -> Cols]
    BY <2>1, <2>3, <1>r, LeaveTyped
  <2>5. script' = script \/ \E b \in BOOLEAN : script' = [script EXCEPT !.short = b]
    BY <1>13 DEF Trip, Break
  <2>6. /\ (seen.stopped \/ kind \in {"termination", "cancelation"}) \in BOOLEAN
        /\ (seen.cut \/ kind = "action") \in BOOLEAN
    OBVIOUS
  <2>7. seen' \in History
    <3>1. PICK b \in BOOLEAN, c \in BOOLEAN : seen' = [seen EXCEPT !.stopped = b, !.cut = c]
      BY <1>13, <2>6, Zenon DEF Trip
    <3>2. [seen EXCEPT !.stopped = b, !.cut = c] \in History
      BY <1>r, SeenRewritten, Zenon
    <3> QED BY <3>1, <3>2
  <2>8. queue' = queue
    BY <1>13 DEF Trip
  <2> QED BY <2>4, <2>5, <2>7, <2>8, <1>r, ScriptRewritten DEF Records
<1>14. CASE Trigger
  <2>1. Mine \in Collectors /\ col[Mine] \in Cols
    BY <1>14, <1>m, <1>r DEF Trigger
  <2>2. UNCHANGED <<run, col>> \/ LeaveLoop(run, col[Mine])
    BY <1>14 DEF Trigger, Break
  <2>3. UNCHANGED <<script, queue, seen>>
    BY <1>14 DEF Trigger, Break
  <2> QED BY <2>1, <2>2, <2>3, <1>r, LeaveTyped DEF Records
<1>l. Later \in 0..2
  BY <1>r DEF History, Later
<1>15. CASE Acquire
  BY <1>15, <1>l, <1>r, SeenRewritten DEF Acquire, Count, Records
<1>27. CASE Missing
  <2>1. [col[Mine] EXCEPT !.canceled = TRUE, !.alive = FALSE, !.evt = "set"] \in Cols
    BY <1>27, <1>r, <1>m, ColRewritten DEF Missing, Count
  <2> HIDE DEF Cols
  <2> QED BY <1>27, <2>1, <1>l, <1>r, <1>m, SeenRewritten DEF Missing, Count, Records
<1>28. CASE Garbled
  <2>1. Mine \in Collectors /\ col[Mine] \in Cols
    BY <1>28, <1>m, <1>r DEF Garbled
  <2>2. LeaveLoop(run, col[Mine]) /\ UNCHANGED <<script, queue>>
    BY <1>28 DEF Garbled, Break
  <2>3. seen' \in History
    BY <1>28, <1>r, SeenRewritten DEF Garbled
  <2> QED BY <2>1, <2>2, <2>3, <1>r, LeaveTyped DEF Records
<1>16. CASE Retry BY <1>16, <1>r DEF Retry, Records
<1>17. CASE GiveUp
  <2>1. seen' \in History /\ run' \in Runs
    BY <1>17, <1>r, SeenRewritten, SaveTyped DEF GiveUp
  <2>2. script' \in Scripts /\ col' \in [Collectors -> Cols]
    BY <1>17, BeginCancelTyped DEF GiveUp
  <2>3. UNCHANGED queue
    BY <1>17 DEF GiveUp
  <2> QED BY <2>1, <2>2, <2>3, <1>r DEF Records
<1>18. ASSUME NEW st \in States, EndCancel(st), UNCHANGED <<script, queue>> PROVE Records'
  <2>1. Collector \in Collectors
    BY DEF Collector, Collectors
  <2>2. run' \in Runs
    <3>1. [Finished(run) EXCEPT !.state = st] \in Runs
      BY <1>r, FinishedTyped, RunRewritten
    <3>2. [Finished(run) EXCEPT !.state = Finished(run).state] \in Runs
      BY <1>r, FinishedTyped, RunRewritten, RunFlagged
    <3> QED BY <1>18, <3>1, <3>2 DEF EndCancel
  <2> QED BY <1>18, <2>1, <2>2, <1>r, StopTyped, ToldTyped DEF EndCancel, Records
<1>19. CASE EndGiveUp BY <1>19, <1>18, StateNames DEF EndGiveUp
<1>20. CASE Terminate BY <1>20, <1>r, BeginCancelTyped DEF Terminate, Records
<1>21. CASE EndTerminate BY <1>21, <1>18, StateNames DEF EndTerminate
<1>22. CASE Cancel BY <1>22, <1>r, BeginCancelTyped DEF Cancel, Records
<1>23. CASE EndCancelQueue
  <2>1. Collector \in Collectors
    BY DEF Collector, Collectors
  <2>2. [Finished(run) EXCEPT !.state = "canceled", !.hopping = FALSE] \in Runs
    BY <1>r, FinishedTyped, RunRewritten, StateNames
  <2>3. [queue EXCEPT !.alive = FALSE] \in [alive : BOOLEAN, aborted : BOOLEAN]
    BY <1>r
  <2> QED BY <1>23, <2>1, <2>2, <2>3, <1>r, StopTyped, ToldTyped, ScriptRewritten
          DEF EndCancelQueue, Records
<1>24. CASE Return
  <2>1. (seen.short \/ (Mine = "multi" /\ i <= counts /\ ~seen.cut)) \in BOOLEAN
    OBVIOUS
  <2>2. PICK b \in BOOLEAN : seen' = [seen EXCEPT !.short = b, !.cut = FALSE]
    BY <1>24, <2>1, Zenon DEF Return
  <2>3. seen' \in History
    BY <2>2, <1>r, SeenRewritten
  <2> QED BY <1>24, <2>3, <1>r, RunFlagged DEF Return, Records
<1>25. CASE EndScript
  <2>1. Collector \in Collectors
    BY DEF Collector, Collectors
  <2>2. /\ [Finished(run) EXCEPT !.measuring = FALSE] \in Runs
        /\ [run EXCEPT !.measuring = FALSE, !.measured = TRUE] \in Runs
    BY <1>r, FinishedTyped, RunFlagged
  <2> QED BY <1>25, <2>1, <2>2, <1>r, StopTyped DEF EndScript, Records
<1>26. CASE Judge
  <2>1. PICK st \in States : \/ run' = Save([run EXCEPT !.state = st])
                            \/ run' = [run EXCEPT !.state = st]
    BY <1>26, <1>r, RunFlagged, StateNames DEF Judge
  <2>2. run' \in Runs
    <3>1. [run EXCEPT !.state = st] \in Runs
      BY <1>r, RunRewritten
    <3> QED BY <2>1, <3>1, SaveTyped
  <2>3. UNCHANGED <<script, col, seen>> /\ queue' = [queue EXCEPT !.alive = @ /\ pc = "measured"]
    BY <1>26 DEF Judge
  <2>4. queue' \in [alive : BOOLEAN, aborted : BOOLEAN]
    BY <2>3, <1>r
  <2> QED BY <2>2, <2>3, <2>4, <1>r DEF Records
<1> QED
  BY <1>1, <1>2, <1>3, <1>4, <1>5, <1>6, <1>7, <1>8, <1>9, <1>10, <1>11, <1>12, <1>13,
     <1>14, <1>15, <1>16, <1>17, <1>19, <1>20, <1>21, <1>22, <1>23, <1>24, <1>25, <1>26,
     <1>27, <1>28
  DEF Thread

(* ... the numbers ...                                                     *)
LEMMA ThreadNumbers == TInv /\ Thread => Numbers'
<1> SUFFICES ASSUME Numbers, Records, Thread PROVE Numbers'
  BY DEF TInv
<1> USE MeasurementAssumption, LengthNat DEF Numbers
<1>1. CASE StartMeasurement BY <1>1 DEF StartMeasurement, measured
<1>2. CASE Boot BY <1>2 DEF Boot, measured
<1>3. CASE Skip BY <1>3 DEF Skip, measured
<1>4. CASE ValveFails BY <1>4 DEF ValveFails, measured
<1>5. CASE EndValveFails BY <1>5 DEF EndValveFails, measured
<1>6. CASE Enter BY <1>6 DEF Enter, measured
<1>7. CASE Setup BY <1>7 DEF Setup, measured
<1>8. CASE Measure BY <1>8 DEF Measure, measured
<1>9. CASE Arm BY <1>9 DEF Arm, measured
<1>10. CASE Loop BY <1>10 DEF Loop, measured
<1>11. CASE CheckCounts BY <1>11 DEF CheckCounts, measured, Break, LeaveLoop
<1>12. CASE Trigger BY <1>12 DEF Trigger, measured, Break, LeaveLoop
<1>13. CASE Acquire BY <1>13 DEF Acquire, Count, measured
<1>26. CASE Missing BY <1>26 DEF Missing, Count, measured
<1>27. CASE Garbled BY <1>27 DEF Garbled, measured, Break, LeaveLoop
<1>14. CASE Retry BY <1>14 DEF Retry, measured
<1>15. CASE GiveUp BY <1>15 DEF GiveUp, measured
<1>16. CASE EndGiveUp BY <1>16 DEF EndGiveUp, measured
<1>17. CASE Terminate BY <1>17 DEF Terminate, measured
<1>18. CASE EndTerminate BY <1>18 DEF EndTerminate, measured
<1>19. CASE Cancel BY <1>19 DEF Cancel, measured
<1>20. CASE EndCancelQueue BY <1>20 DEF EndCancelQueue, measured
<1>21. CASE Return
  <2>1. at' = at + 1 /\ at <= Len(Commands) /\ at \in Nat
    BY <1>21 DEF Return
  <2>2. pc' = "command" /\ UNCHANGED <<user, counts, i, hop, misses, acts>>
    BY <1>21 DEF Return, measured
  <2> QED BY <2>1, <2>2
<1>22. CASE EndScript BY <1>22 DEF EndScript, measured
<1>23. CASE Judge BY <1>23 DEF Judge, measured
<1>24. CASE Call
  BY <1>24, CountsTyped DEF Call
<1>25. ASSUME NEW kind \in AllTrips, Trip(kind) PROVE Numbers'
  BY <1>25 DEF Trip, Break, LeaveLoop, measured
<1> QED
  BY <1>1, <1>2, <1>3, <1>4, <1>5, <1>6, <1>7, <1>8, <1>9, <1>10, <1>11, <1>12, <1>13, <1>14, <1>15, <1>16, <1>17, <1>18, <1>19, <1>20, <1>21, <1>22, <1>23, <1>24, <1>25, <1>26, <1>27
  DEF Thread

(* ... and the labels; ...                                                 *)
LEMMA ThreadLabels == TInv /\ Thread => Labels'
<1> SUFFICES ASSUME Labels, Thread PROVE Labels'
  BY DEF TInv
<1>1. pc' \in {"step", "boot", "command", "valve"} \cup AtCommand
                \cup {"measured", "failed", "over"}
  BY DEF Labels, Thread, StartMeasurement, Boot, Call, Skip, ValveFails, EndValveFails, Enter,
     Setup, Measure, Arm, Loop, CheckCounts, Trip, Trigger, Break, LeaveLoop, Acquire, Count,
     Missing, Garbled, Retry,
     GiveUp, EndGiveUp, Terminate, EndTerminate, Cancel, EndCancelQueue, Return, EndScript,
     Judge
<1>2. calls' = calls
  BY DEF Thread, StartMeasurement, Boot, Call, Skip, ValveFails, EndValveFails, Enter,
     Setup, Measure, Arm, Loop, CheckCounts, Trip, Trigger, Break, LeaveLoop, Acquire, Count,
     Missing, Garbled, Retry,
     GiveUp, EndGiveUp, Terminate, EndTerminate, Cancel, EndCancelQueue, Return, EndScript,
     Judge
<1> QED BY <1>1, <1>2 DEF Labels

(* ... and so does the operator.                                           *)
LEMMA OperatorTyped == TInv /\ Operator => Records' /\ Numbers' /\ Labels'
<1> SUFFICES ASSUME TInv, Operator PROVE Records' /\ Numbers' /\ Labels'
  OBVIOUS
<1> USE DEF TInv
<1>r. /\ script \in Scripts /\ run \in Runs /\ col \in [Collectors -> Cols]
      /\ queue \in [alive : BOOLEAN, aborted : BOOLEAN] /\ seen \in History
      /\ acts \in 0..MaxActs /\ MaxActs \in Nat
  BY MeasurementAssumption DEF Records, Numbers
<1>q. /\ [queue EXCEPT !.alive = FALSE] \in [alive : BOOLEAN, aborted : BOOLEAN]
      /\ [queue EXCEPT !.aborted = TRUE] \in [alive : BOOLEAN, aborted : BOOLEAN]
  BY <1>r
<1>c. Collector \in Collectors
  BY DEF Collector, Collectors
<1> HIDE DEF Mine, Collector, Current
<1>1. CASE OperatorCancel
  <2>1. Records'
    <3>1. script' \in Scripts /\ col' \in [Collectors -> Cols]
      BY <1>1, BeginCancelTyped DEF OperatorCancel
    <3>2. seen' \in History
      BY <1>1, <1>r, SeenRewritten DEF OperatorCancel
    <3> QED BY <1>1, <1>r, <1>q, <3>1, <3>2 DEF OperatorCancel, Records
  <2>2. Numbers' /\ Labels'
    BY <1>1, <1>r DEF OperatorCancel, Act, Numbers, Labels, measured
  <2> QED BY <2>1, <2>2
<1>2. CASE OperatorAbort
  <2>1. Records'
    <3>1. script' \in Scripts /\ run' \in Runs /\ seen' \in History
      BY <1>2, <1>r, ScriptRewritten, RunFlagged, SeenRewritten DEF OperatorAbort
    <3> QED BY <1>2, <1>r, <1>q, <3>1 DEF OperatorAbort, Records
  <2>2. Numbers' /\ Labels'
    BY <1>2, <1>r DEF OperatorAbort, Act, Numbers, Labels, measured
  <2> QED BY <2>1, <2>2
<1>3. CASE OperatorEnds
  <2>1. PICK st : EndCancel(st) /\ st \in {"none", "aborted"}
    BY <1>3 DEF OperatorEnds, Labels
  <2>2. run' \in Runs
    <3>1. [Finished(run) EXCEPT !.state = "aborted"] \in Runs
      BY <1>r, FinishedTyped, RunRewritten, StateNames
    <3>2. [Finished(run) EXCEPT !.state = Finished(run).state] \in Runs
      BY <1>r, FinishedTyped, RunRewritten, RunFlagged
    <3> QED BY <2>1, <3>1, <3>2 DEF EndCancel
  <2>3. col' \in [Collectors -> Cols] /\ seen' \in History
    BY <2>1, <1>c, StopTyped, ToldTyped DEF EndCancel
  <2> QED BY <1>3, <2>2, <2>3 DEF OperatorEnds, Records, Numbers, Labels, threads, measured
<1>4. ASSUME NEW style, TruncateRun(style) PROVE Records' /\ Numbers' /\ Labels'
  <2>1. run' \in Runs
    BY <1>4, <1>r, RunRewritten, StateNames DEF TruncateRun, Truncated
  <2>2. script' \in Scripts
    <3>1. (script.short \/ style = "quick") \in BOOLEAN
      OBVIOUS
    <3>2. PICK b \in BOOLEAN : script' = [script EXCEPT !.short = b]
      BY <1>4, <3>1, Zenon DEF TruncateRun
    <3> QED BY <3>2, <1>r, ScriptRewritten
  <2>3. col' \in [Collectors -> Cols]
    <3>1. [col[Collector] EXCEPT !.truncate = TRUE] \in Cols
      BY <1>c, <1>r, ColRewritten
    <3> HIDE DEF Cols
    <3> QED BY <1>4, <3>1, <1>c, <1>r DEF TruncateRun
  <2> QED BY <1>4, <1>r, <2>1, <2>2, <2>3
          DEF TruncateRun, Act, Records, Numbers, Labels, measured
<1>5. CASE ChangeCounts
  BY <1>5, <1>r DEF ChangeCounts, Act, Records, Numbers, Labels, threads
<1> QED BY <1>1, <1>2, <1>3, <1>4, <1>5 DEF Operator

LEMMA InitTyped == Init => TInv
<1> SUFFICES ASSUME Init PROVE Records /\ Numbers /\ Labels
  BY InitInv DEF TInv, IInv
<1>1. col \in [Collectors -> Cols]
  BY DEF Init, NewCollector, Cols
<1>2. Records
  BY <1>1 DEF Init, Records, Scripts, Runs, History, States
<1>3. Numbers /\ Labels
  BY LengthNat, MeasurementAssumption DEF Init, Numbers, Labels
<1> QED BY <1>2, <1>3

LEMMA NextTyped == TInv /\ [Next]_vars => TInv'
<1> SUFFICES ASSUME TInv, [Next]_vars PROVE TInv'
  OBVIOUS
<1>1. CASE Thread
  BY <1>1, ThreadShape, ThreadRecords, ThreadNumbers, ThreadLabels DEF TInv
<1>2. CASE Operator
  BY <1>2, OperatorShape, OperatorTyped DEF TInv
<1>3. CASE UNCHANGED vars
  BY <1>3 DEF TInv, Shape, Records, Numbers, Labels, vars, threads, measured
<1> QED BY <1>1, <1>2, <1>3 DEF Next

(* The types hold for every script, any failures and any acts of the       *)
(* operator: the counts, the hops and the retries stay in their bounds,    *)
(* and in its loop the script's collector is the run's current one.        *)
THEOREM TypeCorrect == Spec => []TypeOK
<1>1. TInv => TypeOK
  <2> SUFFICES ASSUME TInv PROVE TypeOK
    OBVIOUS
  <2>1. InLoop => Collector = Mine
    BY DEF TInv, Shape
  <2> QED BY <2>1 DEF TInv, Records, Numbers, Labels, TypeOK, Scripts, Runs, Cols, History
<1> QED BY <1>1, InitTyped, NextTyped, PTL DEF Spec

------------------------------------------------------------------------------
(* Saved if and only if complete *)

(* As long as nothing has stopped the run, nothing says so.                *)
Untouched ==
    seen.stopped = FALSE =>
        /\ calls = "none" /\ queue.alive = TRUE /\ queue.aborted = FALSE
        /\ script.cancel = FALSE /\ script.abort = FALSE
        /\ run.alive = TRUE /\ run.aborted = FALSE
        /\ run.state \in {"extraction", "measurement", "truncated", "success"}
        /\ pc \notin {"valve", "giveup", "terminating", "aftercancel", "canceling", "failed"}
        /\ \A k \in Collectors : col[k].canceled = FALSE /\ col[k].terminated = FALSE
        /\ InLoop => col[Mine].alive = TRUE
        /\ pc \in {"measured", "over"} => run.measured = TRUE
        /\ pc = "over" => run.saved = TRUE

(* A measurement with the multicollector is under way or to come.          *)
MultiLeft == \E n \in 1..Len(Commands) : n >= at /\ Commands[n].by = "multi"

(* Where a stop is kept until the script is over                           *)
Pending ==
    \/ pc \notin {"step", "boot"} /\ script.cancel = TRUE
    \/ col["multi"].canceled = TRUE /\ MultiLeft
    \/ pc = "after" /\ (col[Mine].terminated = TRUE \/ col[Mine].canceled = TRUE)

(* A stopped run is aborted, or is not measured and, until its script is   *)
(* over, its stop is kept.                                                 *)
Kept ==
    seen.stopped = TRUE /\ run.aborted = FALSE =>
        /\ run.measured = FALSE
        /\ pc \in {"measured", "failed", "over"} \/ Pending

(* Before the script starts no collector but that of the multicollection   *)
(* is the run's; only the end of the script says that the run is measured, *)
(* and only the end of the run saves it.                                   *)
Late ==
    /\ pc \in {"step", "boot"} => run.hopping = FALSE /\ at = 1
    /\ run.aborted = FALSE => script.abort = FALSE
    /\ run.measured = TRUE => pc \in {"measured", "over"}
    /\ run.saved = TRUE => pc = "over" /\ seen.stopped = FALSE

SInv == TInv /\ Untouched /\ Kept /\ Late

LEMMA InitSaves == Init => SInv
<1> SUFFICES ASSUME Init PROVE Untouched /\ Kept /\ Late
  BY InitTyped DEF SInv
<1> QED BY DEF Init, NewCollector, Untouched, Kept, Late

LEMMA ThreadSaves == SInv /\ Thread => Untouched' /\ Kept' /\ Late'
<1> SUFFICES ASSUME SInv, Thread PROVE Untouched' /\ Kept' /\ Late'
  OBVIOUS
<1>r. /\ script \in Scripts /\ run \in Runs /\ col \in [Collectors -> Cols]
      /\ queue \in [alive : BOOLEAN, aborted : BOOLEAN] /\ seen \in History
  BY DEF SInv, TInv, Records
<1>m. /\ pc \in AtCommand => Mine \in Collectors /\ at <= Len(Commands)
      /\ at \in Nat /\ Len(Commands) \in Nat
  BY LengthNat DEF SInv, TInv, Shape, Numbers
<1>l. pc \in {"step", "boot", "command", "valve"} \cup AtCommand
                 \cup {"measured", "failed", "over"}
  BY DEF SInv, TInv, Labels
<1>c. "multi" \in Collectors /\ "hop" \in Collectors
  BY DEF Collectors
<1>1. CASE StartMeasurement
  BY <1>1, <1>r, <1>m, <1>l, <1>c
  DEF StartMeasurement, SInv, Untouched, Kept, Late, Pending, MultiLeft, Scripts, Runs, Cols, History, threads, measured
<1>2. CASE Boot
  BY <1>2, <1>r, <1>m, <1>l, <1>c
  DEF Boot, SInv, Untouched, Kept, Late, Pending, MultiLeft, Scripts, Runs, Cols, History, threads, measured
<1>3. CASE Call
  BY <1>3, <1>r, <1>m, <1>l, <1>c
  DEF Call, SInv, Untouched, Kept, Late, Pending, MultiLeft, Scripts, Runs, Cols, History, threads, measured
<1>4. CASE Skip
  BY <1>4, <1>r, <1>m, <1>l, <1>c
  DEF Skip, SInv, Untouched, Kept, Late, Pending, MultiLeft, Scripts, Runs, Cols, History, threads, measured
<1>5. CASE Enter
  BY <1>5, <1>r, <1>m, <1>l, <1>c
  DEF Enter, SInv, Untouched, Kept, Late, Pending, MultiLeft, Scripts, Runs, Cols, History, threads, measured
<1>6. CASE Setup
  BY <1>6, <1>r, <1>m, <1>l, <1>c
  DEF Setup, SInv, Untouched, Kept, Late, Pending, MultiLeft, Scripts, Runs, Cols, History, threads, measured
<1>7. CASE Measure
  BY <1>7, <1>r, <1>m, <1>l, <1>c
  DEF Measure, SInv, Untouched, Kept, Late, Pending, MultiLeft, Scripts, Runs, Cols, History, threads, measured
<1>8. CASE Arm
  BY <1>8, <1>r, <1>m, <1>l, <1>c
  DEF Arm, SInv, Untouched, Kept, Late, Pending, MultiLeft, Scripts, Runs, Cols, History, threads, measured
<1>9. CASE Loop
  BY <1>9, <1>r, <1>m, <1>l, <1>c
  DEF Loop, SInv, Untouched, Kept, Late, Pending, MultiLeft, Scripts, Runs, Cols, History, threads, measured
<1>10. CASE CheckCounts
  <2>1. /\ pc = "check" /\ pc' \in {"after", "hop"}
        /\ UNCHANGED <<at, script, queue, calls, seen>>
        /\ pc' = "hop" => UNCHANGED <<run, col>>
    BY <1>10 DEF CheckCounts, Break, LeaveLoop
  <2>0. Mine \in Collectors /\ DOMAIN col = Collectors
    BY <2>1, <1>r, <1>m
  <2>2. /\ run' = run \/ run' = [run EXCEPT !.state = "truncated"]
        /\ \/ col' = col
           \/ \E c \in Cols : /\ col' = [col EXCEPT ![Mine] = c]
                             /\ c.terminated = col[Mine].terminated
                             /\ \/ c.canceled = col[Mine].canceled
                                \/ c.canceled = TRUE /\ col[Mine].alive = FALSE
    <3>1. Mine \in Collectors /\ col[Mine] \in Cols
      BY <2>1, <1>r, <1>m
    <3>2. \A c \in Cols : /\ [c EXCEPT !.evt = "set"] \in Cols
                         /\ [c EXCEPT !.evt = "set"].terminated = c.terminated
                         /\ [c EXCEPT !.evt = "set"].canceled = c.canceled
      BY DEF Cols
    <3>3. /\ [col[Mine] EXCEPT !.canceled = TRUE] \in Cols
          /\ [col[Mine] EXCEPT !.canceled = TRUE].terminated = col[Mine].terminated
          /\ [col[Mine] EXCEPT !.canceled = TRUE].canceled = TRUE
          /\ [col[Mine] EXCEPT !.truncate = FALSE] \in Cols
          /\ [col[Mine] EXCEPT !.truncate = FALSE].terminated = col[Mine].terminated
          /\ [col[Mine] EXCEPT !.truncate = FALSE].canceled = col[Mine].canceled
          /\ col[Mine].alive \in BOOLEAN
      BY <3>1 DEF Cols
    <3> HIDE DEF Cols, Mine
    <3>4. \/ UNCHANGED <<run, col>>
          \/ ~col[Mine].alive /\ LeaveLoop(run, [col[Mine] EXCEPT !.canceled = TRUE])
          \/ LeaveLoop(run, col[Mine]) \/ LeaveLoop(Truncated, col[Mine])
          \/ LeaveLoop(Truncated, [col[Mine] EXCEPT !.truncate = FALSE])
      BY <1>10, Zenon DEF CheckCounts, Break
    <3>5. CASE UNCHANGED <<run, col>>
      BY <3>5
    <3>9. ASSUME NEW r, NEW c \in Cols, LeaveLoop(r, c)
          PROVE  /\ run' = r
                 /\ \E d \in Cols : /\ col' = [col EXCEPT ![Mine] = d]
                                   /\ d.terminated = c.terminated /\ d.canceled = c.canceled
      BY <3>9, <3>2 DEF LeaveLoop
    <3>6. CASE ~col[Mine].alive /\ LeaveLoop(run, [col[Mine] EXCEPT !.canceled = TRUE])
      <4> DEFINE c == [col[Mine] EXCEPT !.canceled = TRUE]
      <4>1. /\ c \in Cols /\ c.terminated = col[Mine].terminated /\ c.canceled = TRUE
            /\ LeaveLoop(run, c) /\ col[Mine].alive = FALSE
        BY <3>6, <3>3
      <4> HIDE DEF c
      <4> QED BY <4>1, <3>9
    <3>7. CASE LeaveLoop(run, col[Mine]) \/ LeaveLoop(Truncated, col[Mine])
      BY <3>7, <3>1, <3>9 DEF Truncated
    <3>8. CASE LeaveLoop(Truncated, [col[Mine] EXCEPT !.truncate = FALSE])
      <4> DEFINE c == [col[Mine] EXCEPT !.truncate = FALSE]
      <4>1. /\ c \in Cols /\ c.terminated = col[Mine].terminated
            /\ c.canceled = col[Mine].canceled /\ LeaveLoop(Truncated, c)
        BY <3>8, <3>3
      <4> HIDE DEF c
      <4> QED BY <4>1, <3>9 DEF Truncated
    <3> QED BY <3>4, <3>5, <3>6, <3>7, <3>8
  <2>6. \A k \in Collectors :
           /\ col'[k].terminated = col[k].terminated
           /\ \/ col'[k].canceled = col[k].canceled
              \/ k = Mine /\ col'[k].canceled = TRUE /\ col[k].alive = FALSE
    <3> HIDE DEF Mine, Cols
    <3>1. CASE col' = col
      BY <3>1
    <3>2. ASSUME NEW c \in Cols, col' = [col EXCEPT ![Mine] = c],
                 c.terminated = col[Mine].terminated,
                 \/ c.canceled = col[Mine].canceled
                 \/ c.canceled = TRUE /\ col[Mine].alive = FALSE
          PROVE  \A k \in Collectors :
                     /\ col'[k].terminated = col[k].terminated
                     /\ \/ col'[k].canceled = col[k].canceled
                        \/ k = Mine /\ col'[k].canceled = TRUE /\ col[k].alive = FALSE
      <4>1. \A k \in Collectors : col'[k] = IF k = Mine THEN c ELSE col[k]
        BY <3>2, <2>0
      <4> QED BY <3>2, <4>1
    <3> QED BY <2>2, <3>1, <3>2
  <2>3. run'.measured = run.measured /\ run'.aborted = run.aborted /\ run'.saved = run.saved
        /\ run'.alive = run.alive /\ run'.state \in {run.state, "truncated"}
    BY <2>2, <1>r DEF Runs
  <2>4. Untouched'
    <3> SUFFICES ASSUME seen.stopped = FALSE PROVE Untouched'
      BY <2>1 DEF Untouched
    <3>1. col[Mine].alive = TRUE
      BY <2>1 DEF SInv, Untouched
    <3>2. \A k \in Collectors : col[k].canceled = FALSE /\ col[k].terminated = FALSE
      BY DEF SInv, Untouched
    <3>3. \A k \in Collectors : col'[k].canceled = FALSE /\ col'[k].terminated = FALSE
      <4> HIDE DEF Mine, Cols
      <4> QED BY <2>6, <3>1, <3>2
    <3> QED BY <2>1, <2>3, <3>1, <3>3 DEF SInv, Untouched
  <2>5. \A k \in Collectors : col[k].canceled = TRUE => col'[k].canceled = TRUE
    BY <2>6
  <2> QED BY <2>1, <2>3, <2>4, <2>5, <1>c DEF SInv, Kept, Late, Pending, MultiLeft
<1>11. CASE Trigger
  BY <1>11, <1>r, <1>m, <1>l, <1>c
  DEF Trigger, Break, LeaveLoop, SInv, Untouched, Kept, Late, Pending, MultiLeft, Scripts, Runs, Cols, History, threads, measured
<1>26. CASE Garbled
  BY <1>26, <1>r, <1>m, <1>l, <1>c
  DEF Garbled, Break, LeaveLoop, SInv, Untouched, Kept, Late, Pending, MultiLeft, Scripts, Runs, Cols, History, threads, measured
<1>27. CASE Missing
  BY <1>27, <1>r, <1>m, <1>l, <1>c
  DEF Missing, Count, SInv, Untouched, Kept, Late, Pending, MultiLeft, Scripts, Runs, Cols, History, threads, measured
<1>12. CASE Acquire
  BY <1>12, <1>r, <1>m, <1>l, <1>c
  DEF Acquire, Count, SInv, Untouched, Kept, Late, Pending, MultiLeft, Scripts, Runs, Cols, History, threads, measured
<1>13. CASE Retry
  BY <1>13, <1>r, <1>m, <1>l, <1>c
  DEF Retry, SInv, Untouched, Kept, Late, Pending, MultiLeft, Scripts, Runs, Cols, History, threads, measured
<1>14. CASE Terminate
  BY <1>14, <1>r, <1>m, <1>l, <1>c
  DEF Terminate, BeginCancel, SInv, Untouched, Kept, Late, Pending, MultiLeft, Scripts, Runs, Cols, History, threads, measured
<1>15. CASE Cancel
  BY <1>15, <1>r, <1>m, <1>l, <1>c
  DEF Cancel, BeginCancel, SInv, Untouched, Kept, Late, Pending, MultiLeft, Scripts, Runs, Cols, History, threads, measured
<1>16. CASE Return
  BY <1>16, <1>r, <1>m, <1>l, <1>c
  DEF Return, SInv, Untouched, Kept, Late, Pending, MultiLeft, Scripts, Runs, Cols, History, threads, measured
<1>17. CASE EndScript
  <2>1. /\ pc = "command" /\ at > Len(Commands) /\ UNCHANGED <<queue, calls, seen, script>>
        /\ run.measured = FALSE /\ run.saved = FALSE
    BY <1>17, <1>r DEF EndScript, SInv, Late, Runs
  <2>2. ~MultiLeft
    BY <2>1, <1>m DEF MultiLeft
  <2>3. CASE script.cancel = TRUE
    <3>1. /\ pc' \in {"measured", "failed"}
          /\ run' = [Finished(run) EXCEPT !.measuring = FALSE]
      BY <1>17, <2>3 DEF EndScript
    <3>2. run'.measured = FALSE /\ run'.saved = FALSE /\ run'.aborted = run.aborted
      BY <3>1, <2>1, <1>r, FinishedTyped DEF Runs
    <3> QED BY <2>1, <2>3, <3>1, <3>2 DEF SInv, Untouched, Kept, Late
  <2>4. CASE script.cancel # TRUE
    <3>1. /\ pc' = "measured" /\ UNCHANGED col
          /\ run' = [run EXCEPT !.measuring = FALSE, !.measured = TRUE]
      BY <1>17, <1>r, <2>4 DEF EndScript, Scripts
    <3>2. seen.stopped = FALSE \/ run.aborted = TRUE
      BY <2>1, <2>2, <2>4, <1>r DEF SInv, Kept, Pending, History, Runs
    <3> QED BY <2>1, <3>1, <3>2, <1>r DEF SInv, Untouched, Kept, Late, Runs
  <2> QED BY <2>3, <2>4
<1>18. CASE Judge
  BY <1>18, <1>r, <1>m, <1>l, <1>c
  DEF Judge, Save, SInv, Untouched, Kept, Late, Pending, MultiLeft, Scripts, Runs, Cols, History, threads, measured
<1>19. CASE GiveUp
  BY <1>19, <1>r, <1>m, <1>l, <1>c
  DEF GiveUp, Save, BeginCancel, SInv, Untouched, Kept, Late, Pending, MultiLeft, Scripts, Runs, Cols, History, threads, measured
<1>20. CASE ValveFails
  BY <1>20, <1>r, <1>m, <1>l, <1>c
  DEF ValveFails, BeginCancel, SInv, Untouched, Kept, Late, Pending, MultiLeft, Scripts, Runs, Cols, History, threads, measured
<1>21. Collector \in Collectors
  BY <1>c DEF Collector
<1>22. /\ Finished(run) \in Runs /\ Finished(run).aborted = run.aborted
       /\ Finished(run).measured = run.measured /\ Finished(run).saved = run.saved
  BY <1>r, FinishedTyped
<1>23. Told.stopped = seen.stopped
  BY ToldTyped DEF SInv, TInv
<1>24. CASE EndValveFails \/ EndGiveUp \/ EndTerminate \/ EndCancelQueue
  <2>1. /\ pc \in {"valve", "giveup", "terminating", "canceling"}
        /\ pc' \in {"command", "after", "aftercancel"}
        /\ script' = script \/ script' = [script EXCEPT !.cancel = TRUE]
        /\ at' = at \/ script' = [script EXCEPT !.cancel = TRUE]
        /\ Stop(Collector) /\ seen' = Told
    BY <1>24 DEF EndValveFails, EndGiveUp, EndTerminate, EndCancelQueue, EndCancel
  <2>2. /\ run'.aborted = run.aborted /\ run'.measured = run.measured
        /\ run'.saved = run.saved
    BY <1>24, <1>22 DEF EndValveFails, EndGiveUp, EndTerminate, EndCancelQueue, EndCancel, Runs
  <2>3. seen.stopped = TRUE
    BY <2>1, <1>r DEF SInv, Untouched, History
  <2>4. \A k \in Collectors : /\ col'[k].canceled = col[k].canceled
                             /\ col'[k].terminated = col[k].terminated
    BY <2>1, <1>21, StopTyped DEF SInv, TInv
  <2>5. script'.abort = script.abort /\ (script'.cancel = TRUE \/ (script' = script /\ at' = at))
    <3>1. /\ [script EXCEPT !.cancel = TRUE].cancel = TRUE
          /\ [script EXCEPT !.cancel = TRUE].abort = script.abort
      BY <1>r DEF Scripts
    <3> QED BY <2>1, <3>1
  <2> HIDE DEF Collectors, Collector
  <2> QED BY <2>1, <2>2, <2>3, <2>4, <2>5, <1>23, <1>c
          DEF SInv, Untouched, Kept, Late, Pending, MultiLeft
<1>25. ASSUME NEW kind \in AllTrips, Trip(kind) PROVE Untouched' /\ Kept' /\ Late'
  <2>1. /\ pc = "check" /\ pc' \in {"after", "hop"} /\ UNCHANGED <<at, queue, calls>>
        /\ pc' = "hop" => UNCHANGED <<run, col>> /\ kind = "resume"
        /\ col[Mine].alive
    BY <1>25 DEF Trip, Break, LeaveLoop
  <2>2. Mine \in Collectors /\ DOMAIN col = Collectors /\ col[Mine] \in Cols
    BY <2>1, <1>r, <1>m
  <2>3. /\ run'.measured = run.measured /\ run'.aborted = run.aborted /\ run'.saved = run.saved
        /\ run'.alive = run.alive /\ run'.state \in {run.state, "truncated"}
    BY <1>25, <1>r DEF Trip, Break, LeaveLoop, Truncated, Runs
  <2>4. script'.cancel = script.cancel /\ script'.abort = script.abort
    BY <1>25, <1>r DEF Trip, Break, Scripts
  <2>5. seen'.stopped = (seen.stopped \/ kind \in {"termination", "cancelation"})
    BY <1>25, <1>r DEF Trip, History
  <2>6. \A k \in Collectors :
           /\ \/ col'[k].terminated = col[k].terminated
              \/ kind = "termination" /\ col'[k].terminated = TRUE
           /\ \/ col'[k].canceled = col[k].canceled
              \/ kind = "cancelation" /\ col'[k].canceled = TRUE
    <3>1. \A c \in Cols : [c EXCEPT !.evt = "set"].terminated = c.terminated
                         /\ [c EXCEPT !.evt = "set"].canceled = c.canceled
      BY DEF Cols
    <3>2. /\ [col[Mine] EXCEPT !.terminated = TRUE] \in Cols
          /\ [col[Mine] EXCEPT !.terminated = TRUE].terminated = TRUE
          /\ [col[Mine] EXCEPT !.terminated = TRUE].canceled = col[Mine].canceled
          /\ [col[Mine] EXCEPT !.canceled = TRUE] \in Cols
          /\ [col[Mine] EXCEPT !.canceled = TRUE].canceled = TRUE
          /\ [col[Mine] EXCEPT !.canceled = TRUE].terminated = col[Mine].terminated
      BY <2>2 DEF Cols
    <3> HIDE DEF Mine, Cols
    <3>3. \A c : col' = [col EXCEPT ![Mine] = c] =>
             \A k \in Collectors : col'[k] = IF k = Mine THEN c ELSE col[k]
      BY <2>2
    <3>4. CASE kind = "resume"
      BY <1>25, <3>4 DEF Trip
    <3>5. CASE kind \in {"truncation", "action"}
      <4>1. col' = [col EXCEPT ![Mine] = [col[Mine] EXCEPT !.evt = "set"]]
        BY <1>25, <3>5 DEF Trip, Break, LeaveLoop
      <4> QED BY <4>1, <2>2, <3>1, <3>3
    <3>6. CASE kind = "termination"
      <4> DEFINE c == [col[Mine] EXCEPT !.terminated = TRUE]
      <4>1. col' = [col EXCEPT ![Mine] = [c EXCEPT !.evt = "set"]]
        BY <1>25, <3>6 DEF Trip, Break, LeaveLoop
      <4>2. c \in Cols /\ c.terminated = TRUE /\ c.canceled = col[Mine].canceled
        BY <3>2
      <4> HIDE DEF c
      <4> QED BY <4>1, <4>2, <3>6, <3>1, <3>3
    <3>7. CASE kind = "cancelation"
      <4> DEFINE c == [col[Mine] EXCEPT !.canceled = TRUE]
      <4>1. col' = [col EXCEPT ![Mine] = [c EXCEPT !.evt = "set"]]
        BY <1>25, <3>7 DEF Trip, Break, LeaveLoop
      <4>2. c \in Cols /\ c.canceled = TRUE /\ c.terminated = col[Mine].terminated
        BY <3>2
      <4> HIDE DEF c
      <4> QED BY <4>1, <4>2, <3>7, <3>1, <3>3
    <3> QED BY <3>4, <3>5, <3>6, <3>7 DEF AllTrips
  <2>7. kind = "termination" => pc' = "after" /\ col'[Mine].terminated = TRUE
    <3>1. [[col[Mine] EXCEPT !.terminated = TRUE] EXCEPT !.evt = "set"].terminated = TRUE
      BY <2>2 DEF Cols
    <3> HIDE DEF Mine, Cols
    <3> QED BY <1>25, <2>2, <3>1 DEF Trip, Break, LeaveLoop
  <2>8. kind = "cancelation" => pc' = "after" /\ col'[Mine].canceled = TRUE
    <3>1. [[col[Mine] EXCEPT !.canceled = TRUE] EXCEPT !.evt = "set"].canceled = TRUE
      BY <2>2 DEF Cols
    <3> HIDE DEF Mine, Cols
    <3> QED BY <1>25, <2>2, <3>1 DEF Trip, Break, LeaveLoop
  <2>9. Untouched'
    <3> SUFFICES ASSUME seen'.stopped = FALSE PROVE Untouched'
      BY DEF Untouched
    <3>1. seen.stopped = FALSE /\ kind \notin {"termination", "cancelation"}
      BY <2>5, <1>r DEF History
    <3>2. \A k \in Collectors : col'[k].canceled = FALSE /\ col'[k].terminated = FALSE
      BY <2>6, <3>1 DEF SInv, Untouched
    <3> QED BY <2>1, <2>3, <2>4, <3>1, <3>2 DEF SInv, Untouched
  <2>10. seen.stopped = TRUE => seen'.stopped = TRUE
    BY <2>5
  <2>11. seen'.stopped = TRUE => seen.stopped = TRUE \/ kind \in {"termination", "cancelation"}
    BY <2>5, <1>r DEF History
  <2>12. Kept'
    BY <2>1, <2>3, <2>4, <2>6, <2>7, <2>8, <2>11, <1>c, <1>r
       DEF SInv, Kept, Late, Pending, MultiLeft, Runs
  <2> QED BY <2>1, <2>3, <2>4, <2>9, <2>12 DEF SInv, Late
<1> QED
  BY <1>1, <1>2, <1>3, <1>4, <1>5, <1>6, <1>7, <1>8, <1>9, <1>10, <1>11, <1>12, <1>13,
     <1>14, <1>15, <1>16, <1>17, <1>18, <1>19, <1>20, <1>24, <1>25, <1>26, <1>27
  DEF Thread

LEMMA OperatorSaves ==
    ASSUME Multicollects, SInv, Operator
    PROVE  Untouched' /\ Kept' /\ Late'
<1>r. /\ script \in Scripts /\ run \in Runs /\ col \in [Collectors -> Cols]
      /\ queue \in [alive : BOOLEAN, aborted : BOOLEAN] /\ seen \in History
  BY DEF SInv, TInv, Records
<1>c. "multi" \in Collectors /\ "hop" \in Collectors
  BY DEF Collectors
<1>1. CASE OperatorCancel
  <2>1. /\ UNCHANGED <<pc, at, run>> /\ pc \notin {"measured", "failed", "over"}
        /\ seen' = [seen EXCEPT !.stopped = TRUE]
    BY <1>1 DEF OperatorCancel, Act
  <2>2. /\ script'.cancel = TRUE /\ script'.abort = script.abort
        /\ col'[Collector].canceled = TRUE
    BY <1>1, BeginCancelTyped DEF OperatorCancel, SInv, TInv
  <2>3. pc \in {"step", "boot"} => MultiLeft
    BY DEF SInv, Late, MultiLeft, Multicollects
  <2>4. Pending'
    BY <2>1, <2>2, <2>3 DEF SInv, Late, Pending, MultiLeft
  <2>5. run.measured = FALSE /\ run.saved = FALSE
    BY <2>1, <1>r DEF SInv, Late, Runs
  <2>6. seen'.stopped = TRUE
    BY <2>1, <1>r DEF History
  <2> HIDE DEF Collector
  <2> QED BY <2>1, <2>2, <2>4, <2>5, <2>6 DEF SInv, Untouched, Kept, Late
<1>2. CASE OperatorAbort
  BY <1>2, <1>r DEF OperatorAbort, Act, SInv, Untouched, Kept, Late, Runs, History
<1>3. CASE OperatorEnds
  <2>1. /\ UNCHANGED <<pc, at, script, queue>> /\ calls # "none"
        /\ Stop(Collector) /\ seen' = Told
    BY <1>3 DEF OperatorEnds, EndCancel, threads
  <2>2. /\ run'.aborted = run.aborted /\ run'.measured = run.measured
        /\ run'.saved = run.saved /\ run'.hopping = run.hopping
    BY <1>3, <1>r, FinishedTyped DEF OperatorEnds, EndCancel, Runs
  <2>3. seen.stopped = TRUE /\ seen'.stopped = TRUE
    BY <2>1, <1>r, ToldTyped DEF SInv, TInv, Untouched, History
  <2>4. \A k \in Collectors : /\ col'[k].canceled = col[k].canceled
                             /\ col'[k].terminated = col[k].terminated
    BY <2>1, <1>c, StopTyped DEF SInv, TInv
  <2>5. pc \in AtCommand => Mine \in Collectors
    BY DEF SInv, TInv, Shape
  <2> HIDE DEF Collectors, Collector
  <2> QED BY <2>1, <2>2, <2>3, <2>4, <2>5, <1>c
          DEF SInv, Untouched, Kept, Late, Pending, MultiLeft
<1>4. ASSUME NEW style, TruncateRun(style) PROVE Untouched' /\ Kept' /\ Late'
  <2>1. /\ UNCHANGED <<pc, at, queue, calls, seen>> /\ pc \notin {"measured", "failed", "over"}
        /\ run' = [run EXCEPT !.state = "truncated"]
    BY <1>4 DEF TruncateRun, Truncated, Act
  <2>2. script'.cancel = script.cancel /\ script'.abort = script.abort
    BY <1>4, <1>r DEF TruncateRun, Scripts
  <2>3. \A k \in Collectors : /\ col'[k].canceled = col[k].canceled
                             /\ col'[k].terminated = col[k].terminated
                             /\ col'[k].alive = col[k].alive
    BY <1>4, <1>r DEF TruncateRun, Cols
  <2>4. pc \in AtCommand => Mine \in Collectors
    BY DEF SInv, TInv, Shape
  <2>5. /\ run'.aborted = run.aborted /\ run'.measured = run.measured /\ run'.alive = run.alive
        /\ run'.saved = run.saved /\ run'.hopping = run.hopping /\ run'.state = "truncated"
    BY <2>1, <1>r DEF Runs
  <2> HIDE DEF Collectors, Collector
  <2> QED BY <2>1, <2>2, <2>3, <2>4, <2>5, <1>c
          DEF SInv, Untouched, Kept, Late, Pending, MultiLeft
<1>5. CASE ChangeCounts
  BY <1>5 DEF ChangeCounts, Act, threads, SInv, Untouched, Kept, Late, Pending, MultiLeft
<1> QED BY <1>1, <1>2, <1>3, <1>4, <1>5 DEF Operator

LEMMA NextSaves == Multicollects /\ SInv /\ [Next]_vars => SInv'
<1> SUFFICES ASSUME Multicollects, SInv, [Next]_vars PROVE Untouched' /\ Kept' /\ Late'
  BY NextTyped DEF SInv
<1>1. CASE UNCHANGED vars
  BY <1>1 DEF vars, threads, measured, SInv, Untouched, Kept, Late, Pending, MultiLeft
<1> QED BY <1>1, ThreadSaves, OperatorSaves DEF Next

(* For every script that measures with the multicollector at least once,   *)
(* any counts, hops, conditionals and failures: the run is saved if and    *)
(* only if neither the operator nor a conditional nor the hardware stopped *)
(* it; one answer that makes no sense does not.                            *)
THEOREM SavesUnlessStopped == Spec => []SavedUnlessStopped
<1>1. CASE Multicollects
  <2>1. SInv => SavedUnlessStopped
    <3> SUFFICES ASSUME SInv, pc = "over" PROVE run.saved <=> ~seen.stopped
      BY DEF SavedUnlessStopped
    <3>1. run.saved \in BOOLEAN /\ seen.stopped \in BOOLEAN
      BY DEF SInv, TInv, Records, Runs, History
    <3> QED BY <3>1 DEF SInv, Untouched, Late
  <2> QED BY <1>1, <2>1, InitSaves, NextSaves, PTL DEF Spec
<1>2. CASE ~Multicollects
  <2>1. SavedUnlessStopped
    BY <1>2 DEF SavedUnlessStopped
  <2> QED BY <2>1, PTL
<1> QED BY <1>1, <1>2

----------------------------------------------------------------------------
(***************************************************************************)
(* Proof that a success has all its counts, for every script, any          *)
(* conditionals and failures, and any number of the operator's acts.       *)
(*                                                                         *)
(* A multicollection that is left early says so: the run is stopped or is  *)
(* truncated, unless an action or an answer that made no sense ended it.   *)
(* And only a run that nothing stopped is called a success.                *)
(***************************************************************************)

(* Only the end of the run calls it a success, and only if it was measured *)
(* and the queue goes on.                                                  *)
Labelled ==
    /\ run.state = "success" => pc = "over" /\ seen.stopped = FALSE
    /\ pc = "measured" => run.measured = TRUE \/ run.aborted = TRUE
    /\ run.aborted = TRUE => queue.aborted = TRUE

(* What takes counts from a measurement and says so                        *)
WhyKnown == seen.stopped = TRUE \/ run.state = "truncated"

(* A loop that nothing stopped was not told to; what leaves it early gives *)
(* its reason, and the reason is still there when the command returns.     *)
LeftEarly ==
    /\ InLoop => seen.stopped = TRUE \/ col[Mine].evt # "set"
    /\ pc = "after" /\ Mine = "multi" /\ i <= counts => seen.cut = TRUE \/ WhyKnown
    /\ seen.short = TRUE => pc # "step" /\ WhyKnown

FInv == SInv /\ Labelled /\ LeftEarly

LEMMA InitFull == Init => FInv
<1> SUFFICES ASSUME Init PROVE Labelled /\ LeftEarly
  BY InitSaves DEF FInv
<1> QED BY DEF Init, Labelled, LeftEarly, WhyKnown

(* The steps that leave the run's state, or settle it by stopping it       *)
LEMMA FinishedState ==
    ASSUME NEW r \in Runs, r.state # "success"
    PROVE  Finished(r).state # "success"
<1>1. r.state \in States /\ "failed" \in States
  BY DEF Runs, States
<1> QED BY <1>1 DEF Finished, Runs

(* The state a run is judged to have                                       *)
LEMMA Judged ==
    ASSUME Records, Judge
    PROVE  \E st \in States :
               /\ st = "success" /\ run.state # "success" =>
                      pc = "measured" /\ queue.aborted = FALSE
               /\ pc = "measured" /\ run.state = "truncated" => st = "truncated"
               /\ run' = Save([run EXCEPT !.state = st]) \/ run' = [run EXCEPT !.state = st]
<1> DEFINE through == pc = "measured" /\ queue.alive /\ ~queue.aborted
           st == IF pc = "failed" THEN "failed"
                 ELSE IF through /\ run.state \notin {"truncated", "canceled", "failed"}
                 THEN "success" ELSE run.state
<1>1. st \in States
  BY RunFlagged, StateNames DEF Records
<1>2. st = "success" /\ run.state # "success" => pc = "measured" /\ queue.aborted = FALSE
  BY DEF Records
<1>3. pc = "measured" /\ run.state = "truncated" => st = "truncated"
  OBVIOUS
<1>4. run' = Save([run EXCEPT !.state = st]) \/ run' = [run EXCEPT !.state = st]
  <2>1. run' = IF SaveAll \/ st \in {"success", "truncated"}
               THEN Save([run EXCEPT !.state = st]) ELSE [run EXCEPT !.state = st]
    BY DEF Judge
  <2> HIDE DEF st
  <2> QED BY <2>1, Zenon
<1> HIDE DEF st
<1> QED BY <1>1, <1>2, <1>3, <1>4

LEMMA ThreadLabelled == FInv /\ Thread => Labelled'
<1> SUFFICES ASSUME FInv, Thread PROVE Labelled'
  OBVIOUS
<1>r. /\ script \in Scripts /\ run \in Runs /\ col \in [Collectors -> Cols]
      /\ queue \in [alive : BOOLEAN, aborted : BOOLEAN] /\ seen \in History
  BY DEF FInv, SInv, TInv, Records
<1>i. /\ run.state = "success" => pc = "over" /\ seen.stopped = FALSE
      /\ pc = "measured" => run.measured = TRUE \/ run.aborted = TRUE
      /\ run.aborted = TRUE => queue.aborted = TRUE
  BY DEF FInv, Labelled
<1>1. CASE /\ pc # "over" /\ pc' # "measured" /\ UNCHANGED queue
           /\ run'.aborted = run.aborted /\ run'.state \in {run.state, "measurement", "truncated"}
  BY <1>1, <1>i DEF Labelled
<1>2. CASE StartMeasurement BY <1>1, <1>2, <1>r DEF StartMeasurement, Runs
<1>3. CASE \/ Boot \/ Call \/ Skip \/ ValveFails \/ Enter \/ Measure \/ Arm \/ Loop
           \/ Acquire \/ Missing \/ Retry \/ Terminate \/ Cancel
  BY <1>1, <1>3 DEF Boot, Call, Skip, ValveFails, Enter, Measure, Arm, Loop, Acquire, Missing,
     Count, Retry, Terminate, Cancel
<1>4. CASE Setup
  <2>1. run'.aborted = run.aborted /\ run'.state = run.state
    BY <1>4, <1>r DEF Setup, Runs
  <2> QED BY <1>1, <1>4, <2>1 DEF Setup
<1>5. ASSUME pc \in {"check", "hop", "acquire"}, pc' \in {"hop", "acquire", "after"},
             queue' = queue, run' = run \/ run' = Truncated
      PROVE  Labelled'
  <2>1. run'.aborted = run.aborted /\ run'.state \in {run.state, "truncated"}
    BY <1>5, <1>r DEF Truncated, Runs
  <2> QED BY <1>1, <1>5, <2>1
<1>11. CASE CheckCounts BY <1>5, <1>11 DEF CheckCounts, Break, LeaveLoop
<1>12. CASE Trigger BY <1>5, <1>12 DEF Trigger, Break, LeaveLoop
<1>13. CASE Garbled BY <1>5, <1>13 DEF Garbled, Break, LeaveLoop
<1>14. ASSUME NEW kind \in AllTrips, Trip(kind) PROVE Labelled'
  BY <1>5, <1>14 DEF Trip, Break, LeaveLoop
<1>6. CASE GiveUp
  <2>1. run'.aborted = run.aborted /\ run'.state = run.state
    BY <1>6, <1>r, SaveTyped DEF GiveUp
  <2> QED BY <1>1, <1>6, <2>1 DEF GiveUp
<1>7. CASE EndValveFails \/ EndGiveUp \/ EndTerminate \/ EndCancelQueue
  <2>1. /\ pc \in {"valve", "giveup", "terminating", "canceling"}
        /\ pc' \in {"command", "after", "aftercancel"}
        /\ queue'.aborted = queue.aborted
    BY <1>7, <1>r DEF EndValveFails, EndGiveUp, EndTerminate, EndCancelQueue, EndCancel
  <2>2. Finished(run) \in Runs /\ Finished(run).aborted = run.aborted
    BY <1>r, FinishedTyped
  <2>3. run'.aborted = run.aborted /\ run'.state \in {"canceled", "failed", "terminated"}
    BY <1>7, <2>2 DEF EndValveFails, EndGiveUp, EndTerminate, EndCancelQueue, EndCancel, Runs
  <2> QED BY <2>1, <2>3, <1>i DEF Labelled
<1>8. CASE Return
  <2>1. run'.aborted = run.aborted /\ run'.state = run.state
    BY <1>8, <1>r DEF Return, Runs
  <2> QED BY <1>1, <1>8, <2>1 DEF Return
<1>9. CASE EndScript
  <2>1. pc = "command" /\ run.state # "success" /\ UNCHANGED queue
    BY <1>9, <1>i DEF EndScript
  <2>2. CASE script.cancel = TRUE
    <3>1. run' = [Finished(run) EXCEPT !.measuring = FALSE]
      BY <1>9, <2>2 DEF EndScript
    <3>2. run'.state # "success" /\ run'.aborted = run.aborted
      BY <3>1, <2>1, <1>r, FinishedTyped, FinishedState DEF Runs
    <3>3. pc' = "measured" => run.aborted = TRUE
      BY <1>9, <2>2, <1>r DEF EndScript, Runs
    <3> QED BY <2>1, <3>2, <3>3, <1>i DEF Labelled
  <2>3. CASE script.cancel # TRUE
    <3>1. run' = [run EXCEPT !.measuring = FALSE, !.measured = TRUE]
      BY <1>9, <2>3, <1>r DEF EndScript, Scripts
    <3>2. run'.state = run.state /\ run'.aborted = run.aborted /\ run'.measured = TRUE
      BY <3>1, <1>r DEF Runs
    <3> QED BY <2>1, <3>2, <1>i DEF Labelled
  <2> QED BY <2>2, <2>3
<1>10. CASE Judge
  <2>1. /\ pc \in {"measured", "failed"} /\ pc' = "over" /\ seen' = seen
        /\ queue' = [queue EXCEPT !.alive = @ /\ pc = "measured"]
    BY <1>10 DEF Judge
  <2>7. run.state # "success" /\ Records
    BY <2>1, <1>i DEF FInv, SInv, TInv
  <2>2. PICK st \in States :
            /\ st = "success" => pc = "measured" /\ queue.aborted = FALSE
            /\ run' = Save([run EXCEPT !.state = st]) \/ run' = [run EXCEPT !.state = st]
    BY <2>7, <1>10, Judged, Zenon
  <2>3. [run EXCEPT !.state = st] \in Runs
    BY <1>r, RunRewritten
  <2>4. run'.state = st /\ run'.aborted = run.aborted
    BY <2>2, <2>3, <1>r, SaveTyped DEF Runs
  <2>5. st = "success" => seen.stopped = FALSE
    BY <2>2, <1>i, <1>r DEF FInv, SInv, Kept, Runs, History
  <2>6. queue'.aborted = queue.aborted
    BY <2>1, <1>r
  <2> QED BY <2>1, <2>4, <2>5, <2>6, <1>i DEF Labelled
<1> QED
  BY <1>2, <1>3, <1>4, <1>6, <1>7, <1>8, <1>9, <1>10, <1>11, <1>12, <1>13, <1>14 DEF Thread

LEMMA ThreadFull == FInv /\ Thread => LeftEarly'
<1> SUFFICES ASSUME FInv, Thread PROVE LeftEarly'
  OBVIOUS
<1>r. /\ script \in Scripts /\ run \in Runs /\ col \in [Collectors -> Cols]
      /\ queue \in [alive : BOOLEAN, aborted : BOOLEAN] /\ seen \in History
  BY DEF FInv, SInv, TInv, Records
<1>u. Untouched
  BY DEF FInv, SInv
<1>m. pc \in AtCommand => Mine \in Collectors
  BY DEF FInv, SInv, TInv, Shape
<1>n. i \in Nat /\ counts \in Nat
  BY DEF FInv, SInv, TInv, Numbers
<1>l. LeftEarly
  BY DEF FInv
<1>1. CASE StartMeasurement BY <1>1, <1>l, <1>r DEF StartMeasurement, LeftEarly, WhyKnown, Runs
<1>2. CASE Boot \/ Skip \/ Call
  BY <1>2, <1>l DEF Boot, Skip, Call, LeftEarly, WhyKnown, measured
<1>3. CASE ValveFails \/ Terminate \/ Cancel
  BY <1>3, <1>l, <1>r DEF ValveFails, Terminate, Cancel, LeftEarly, WhyKnown, History
<1>4. CASE Enter BY <1>4, <1>l DEF Enter, LeftEarly, WhyKnown
<1>5. CASE Setup BY <1>5, <1>l, <1>r DEF Setup, LeftEarly, WhyKnown, Runs
<1>6. CASE Measure
  BY <1>6, <1>l, <1>u, <1>m, <1>r DEF Measure, LeftEarly, WhyKnown, Untouched, History
<1>7. CASE Arm BY <1>7, <1>l, <1>m, <1>r DEF Arm, LeftEarly, WhyKnown, Cols
<1>8. CASE Loop BY <1>8, <1>l DEF Loop, LeftEarly, WhyKnown, measured
<1>9. CASE CheckCounts
  <2>1. UNCHANGED <<seen, at, i, counts>> /\ pc = "check" /\ pc' \in {"after", "hop"}
    BY <1>9 DEF CheckCounts, Break, LeaveLoop, measured
  <2>2. Truncated.state = "truncated"
    BY <1>r DEF Truncated, Runs
  <2>3. CASE pc' = "hop"
    BY <1>9, <2>1, <2>3, <1>l DEF CheckCounts, Break, LeaveLoop, LeftEarly, WhyKnown
  <2>4. CASE pc' = "after"
    <3>1. seen.stopped = FALSE => col[Mine].alive = TRUE
      BY <2>1, <1>u DEF Untouched
    <3>2. \/ seen.stopped = TRUE
          \/ run' = Truncated
          \/ run' = run /\ i > counts
      BY <1>9, <2>4, <3>1, <1>r DEF CheckCounts, Break, LeaveLoop, OutOfCounts, History
    <3>3. run' = run \/ run' = Truncated
      BY <1>9 DEF CheckCounts, Break, LeaveLoop
    <3> QED BY <2>1, <2>2, <2>4, <3>2, <3>3, <1>l, <1>n DEF LeftEarly, WhyKnown
  <2> QED BY <2>1, <2>3, <2>4
<1>10. ASSUME NEW kind \in AllTrips, Trip(kind) PROVE LeftEarly'
  <2>1. UNCHANGED <<at, i, counts>> /\ pc = "check" /\ pc' \in {"after", "hop"}
    BY <1>10 DEF Trip, Break, LeaveLoop, measured
  <2>2. Truncated.state = "truncated"
    BY <1>r DEF Truncated, Runs
  <2>3. /\ seen'.stopped = (seen.stopped \/ kind \in {"termination", "cancelation"})
        /\ seen'.cut = (seen.cut \/ kind = "action") /\ seen'.short = seen.short
    BY <1>10, <1>r DEF Trip, History
  <2>4. CASE kind = "resume"
    BY <1>10, <2>1, <2>3, <2>4, <1>l, <1>r DEF Trip, LeftEarly, WhyKnown, History
  <2>5. CASE kind = "truncation"
    <3>1. pc' = "after" /\ run'.state = "truncated"
      BY <1>10, <2>2, <2>5 DEF Trip, LeaveLoop
    <3> QED BY <2>1, <3>1 DEF LeftEarly, WhyKnown
  <2>6. CASE kind = "action"
    <3>1. pc' = "after" /\ run' = run
      BY <1>10, <2>6 DEF Trip, Break, LeaveLoop
    <3>2. seen'.cut = TRUE /\ seen'.stopped = seen.stopped
      BY <2>3, <2>6, <1>r DEF History
    <3> QED BY <2>1, <2>3, <3>1, <3>2, <1>l DEF LeftEarly, WhyKnown
  <2>7. CASE kind \in {"termination", "cancelation"}
    <3>1. pc' = "after" /\ seen'.stopped = TRUE
      BY <1>10, <2>3, <2>7 DEF Trip, Break, LeaveLoop
    <3> QED BY <3>1 DEF LeftEarly, WhyKnown
  <2> QED BY <2>4, <2>5, <2>6, <2>7 DEF AllTrips
<1>11. CASE Trigger
  <2>1. UNCHANGED <<seen, run, at, i, counts>> /\ pc = "hop" /\ pc' \in {"after", "acquire"}
    BY <1>11 DEF Trigger, Break, LeaveLoop
  <2>2. pc' = "after" => Mine = "hop"
    BY <1>11 DEF Trigger, Break, LeaveLoop
  <2>3. pc' = "acquire" => col' = col
    BY <1>11 DEF Trigger, Break, LeaveLoop
  <2> QED BY <2>1, <2>2, <2>3, <1>l DEF LeftEarly, WhyKnown
<1>12. CASE Acquire
  BY <1>12, <1>l, <1>r DEF Acquire, Count, LeftEarly, WhyKnown, History
<1>13. CASE Missing
  <2>1. seen'.stopped = TRUE /\ pc' = "loop"
    BY <1>13, <1>r DEF Missing, Count, History
  <2> QED BY <2>1 DEF LeftEarly, WhyKnown
<1>14. CASE Garbled
  <2>1. /\ run' = run /\ pc' = "after" /\ seen'.cut = TRUE
        /\ seen'.stopped = seen.stopped /\ seen'.short = seen.short /\ pc = "acquire"
    BY <1>14, <1>r DEF Garbled, Break, LeaveLoop, History
  <2> QED BY <2>1, <1>l DEF LeftEarly, WhyKnown
<1>15. CASE Retry BY <1>15, <1>l DEF Retry, LeftEarly, WhyKnown
<1>16. CASE GiveUp \/ EndValveFails \/ EndGiveUp \/ EndTerminate \/ EndCancelQueue
  <2>1. /\ pc \in {"acquire", "valve", "giveup", "terminating", "canceling"}
        /\ pc' \in {"giveup", "command", "after", "aftercancel"}
    BY <1>16 DEF GiveUp, EndValveFails, EndGiveUp, EndTerminate, EndCancelQueue, EndCancel
  <2>2. GiveUp => seen'.stopped = TRUE
    BY <1>r DEF GiveUp, History
  <2>3. ~GiveUp => seen.stopped = TRUE /\ seen' = Told
    BY <1>16, <1>u, <1>r DEF EndValveFails, EndGiveUp, EndTerminate, EndCancelQueue, EndCancel,
       Untouched, History
  <2>4. Told.stopped = seen.stopped
    BY ToldTyped DEF FInv, SInv, TInv
  <2> QED BY <2>1, <2>2, <2>3, <2>4 DEF LeftEarly, WhyKnown
<1>17. CASE Return
  <2>1. pc = "after" /\ pc' = "command" /\ run'.state = run.state
    BY <1>17, <1>r DEF Return, Runs
  <2>2. /\ seen'.stopped = seen.stopped
        /\ seen'.short = (seen.short \/ (Mine = "multi" /\ i <= counts /\ ~seen.cut))
    BY <1>17, <1>r DEF Return, History
  <2>3. seen'.short = TRUE => WhyKnown
    BY <2>1, <2>2, <1>l, <1>r DEF LeftEarly, History
  <2> QED BY <2>1, <2>2, <2>3 DEF LeftEarly, WhyKnown
<1>18. CASE EndScript
  <2>1. UNCHANGED seen /\ pc = "command" /\ pc' \in {"measured", "failed"}
    BY <1>18 DEF EndScript
  <2>2. seen.stopped = FALSE => run'.state = run.state
    BY <1>18, <1>u, <1>r DEF EndScript, Untouched, Runs
  <2> QED BY <2>1, <2>2, <1>l, <1>r DEF LeftEarly, WhyKnown, History
<1>19. CASE Judge
  <2>1. UNCHANGED seen /\ pc \in {"measured", "failed"} /\ pc' = "over"
    BY <1>19 DEF Judge
  <2>2. seen.stopped = FALSE => pc = "measured"
    BY <2>1, <1>u DEF Untouched
  <2>3. pc = "measured" /\ run.state = "truncated" => run'.state = "truncated"
    <3> SUFFICES ASSUME pc = "measured", run.state = "truncated"
                 PROVE  run'.state = "truncated"
      OBVIOUS
    <3>3. Records
      BY DEF FInv, SInv, TInv
    <3>1. run' = Save([run EXCEPT !.state = "truncated"]) \/ run' = [run EXCEPT !.state = "truncated"]
      BY <3>3, <1>19, Judged, Zenon
    <3>2. [run EXCEPT !.state = "truncated"] \in Runs
      BY <1>r, RunRewritten, StateNames
    <3> QED BY <3>1, <3>2, <1>r, SaveTyped DEF Runs
  <2> QED BY <2>1, <2>2, <2>3, <1>l, <1>r DEF LeftEarly, WhyKnown, History
<1> QED
  BY <1>1, <1>2, <1>3, <1>4, <1>5, <1>6, <1>7, <1>8, <1>9, <1>10, <1>11, <1>12, <1>13,
     <1>14, <1>15, <1>16, <1>17, <1>18, <1>19 DEF Thread

LEMMA OperatorFull == FInv /\ Operator => Labelled' /\ LeftEarly'
<1> SUFFICES ASSUME FInv, Operator PROVE Labelled' /\ LeftEarly'
  OBVIOUS
<1>r. /\ script \in Scripts /\ run \in Runs /\ col \in [Collectors -> Cols]
      /\ queue \in [alive : BOOLEAN, aborted : BOOLEAN] /\ seen \in History
  BY DEF FInv, SInv, TInv, Records
<1>c. Collector \in Collectors
  BY DEF Collectors
<1>i. Labelled /\ LeftEarly
  BY DEF FInv
<1>1. CASE OperatorCancel
  <2>1. /\ UNCHANGED <<pc, run>> /\ pc # "over" /\ seen'.stopped = TRUE
        /\ queue'.aborted = queue.aborted /\ seen'.short = seen.short
    BY <1>1, <1>r DEF OperatorCancel, Act, History
  <2> QED BY <2>1, <1>i DEF Labelled, LeftEarly, WhyKnown
<1>2. CASE OperatorAbort
  <2>1. /\ UNCHANGED pc /\ pc \notin {"over", "measured"} /\ seen'.stopped = TRUE
        /\ queue'.aborted = TRUE /\ seen'.short = seen.short /\ run'.state = run.state
    BY <1>2, <1>r DEF OperatorAbort, Act, History, Runs
  <2> QED BY <2>1, <1>i DEF Labelled, LeftEarly, WhyKnown
<1>3. CASE OperatorEnds
  <2>0. calls \in {"none", "queue", "abort"}
    BY DEF FInv, SInv, TInv, Labels
  <2>1. UNCHANGED <<pc, queue>> /\ calls # "none" /\ seen' = Told
    BY <1>3 DEF OperatorEnds, EndCancel, threads
  <2>7. PICK st : EndCancel(st) /\ st \in {"none", "aborted"}
    BY <1>3, <2>0 DEF OperatorEnds
  <2>2. seen.stopped = TRUE
    BY <2>1, <1>r DEF FInv, SInv, Untouched, History
  <2>3. seen'.stopped = TRUE /\ seen'.short = seen.short
    BY <2>1, <2>2, <1>r, ToldTyped DEF FInv, SInv, TInv, Told, History
  <2>4. run.state # "success"
    BY <2>2, <1>i DEF Labelled
  <2>5. /\ Finished(run).state # "success" /\ Finished(run) \in Runs
        /\ Finished(run).aborted = run.aborted /\ Finished(run).measured = run.measured
    BY <2>4, <1>r, FinishedTyped, FinishedState
  <2>6. /\ run'.state # "success" /\ run'.aborted = run.aborted
        /\ run'.measured = run.measured
    BY <2>7, <2>5 DEF EndCancel, Runs
  <2> QED BY <2>1, <2>3, <2>6, <1>i DEF Labelled, LeftEarly, WhyKnown
<1>4. ASSUME NEW style, TruncateRun(style) PROVE Labelled' /\ LeftEarly'
  <2>1. /\ UNCHANGED <<pc, at, queue, seen, i, counts>> /\ run'.state = "truncated"
        /\ run'.aborted = run.aborted /\ run'.measured = run.measured
    BY <1>4, <1>r DEF TruncateRun, Truncated, Act, measured, Runs
  <2>2. \A k \in Collectors : col'[k].evt = col[k].evt
    BY <1>4, <1>r DEF TruncateRun, Cols
  <2>3. InLoop => Mine \in Collectors
    BY DEF FInv, SInv, TInv, Shape
  <2> QED BY <2>1, <2>2, <2>3, <1>i DEF Labelled, LeftEarly, WhyKnown
<1>5. CASE ChangeCounts
  BY <1>5, <1>i DEF ChangeCounts, Act, threads, Labelled, LeftEarly, WhyKnown
<1> QED BY <1>1, <1>2, <1>3, <1>4, <1>5 DEF Operator

LEMMA NextFull == Multicollects /\ FInv /\ [Next]_vars => FInv'
<1> SUFFICES ASSUME Multicollects, FInv, [Next]_vars PROVE Labelled' /\ LeftEarly'
  BY NextSaves DEF FInv
<1>1. CASE UNCHANGED vars
  BY <1>1 DEF vars, threads, measured, FInv, Labelled, LeftEarly, WhyKnown
<1> QED BY <1>1, ThreadLabelled, ThreadFull, OperatorFull DEF Next

(* For every script that measures with the multicollector at least once: a *)
(* run that is called a success has every count of its multicollections,   *)
(* save of those that an action or an answer that made no sense ended.     *)
THEOREM SuccessesFull == Spec => []SuccessIsFull
<1>1. CASE Multicollects
  <2>1. FInv => SuccessIsFull
    <3>1. FInv => seen.short \in BOOLEAN
      BY DEF FInv, SInv, TInv, Records, History
    <3> QED BY <3>1 DEF FInv, Labelled, LeftEarly, WhyKnown, SuccessIsFull
  <2> QED BY <1>1, <2>1, InitFull, NextFull, PTL DEF Spec
<1>2. CASE ~Multicollects
  <2>1. SuccessIsFull
    BY <1>2 DEF SuccessIsFull
  <2> QED BY <2>1, PTL
<1> QED BY <1>1, <1>2
====
