---- MODULE QueueExecutorProofs ----
(***************************************************************************)
(* What holds of the executor for queues of any length, any faults and any *)
(* operator: the types, that the queue is done in order, for a queue       *)
(* without overlapping runs that no two saves are ever under way, and with *)
(* overlaps that no two extractions are.                                   *)
(***************************************************************************)
EXTENDS QueueExecutor, TLAPS

------------------------------------------------------------------------------
(* Type correctness *)

\* Taking exceptions off the queue leaves a queue of exceptions.
LEMMA TakeTyped ==
    ASSUME TypeOK, NEW k \in 1..2, TakeExceptions(k)
    PROVE  exc' \in Seq(Exceptions)
<1> DEFINE n == Least(k, Len(exc))
<1>1. n \in Nat /\ n <= Len(exc) /\ Len(exc) \in Nat /\ exc \in Seq(Exceptions)
  BY DEF TypeOK, Least
<1>2. exc' = SubSeq(exc, n + 1, Len(exc))
  BY DEF TakeExceptions, TypeOK
<1> HIDE DEF n
<1>3. \A i \in (n + 1)..Len(exc) : exc[i] \in Exceptions
  BY <1>1
<1> QED BY <1>1, <1>2, <1>3

\* The names used for the steps of a thread and for the states of a run.
LEMMA Names ==
    /\ "begin" \in Threads /\ "extracting" \in Threads /\ "pumpwait" \in Threads
    /\ "measuring" \in Threads /\ "posting" \in Threads /\ "judge" \in Threads
    /\ "closing" \in Threads /\ "saved" \in Threads /\ "finishing" \in Threads
    /\ "done" \in Threads /\ "dead" \in Threads
    /\ "check_start" \in Threads /\ "check_extraction" \in Threads
    /\ "check_measurement" \in Threads /\ "check_post" \in Threads
    /\ \A c \in DOMAIN CheckedStep : CheckedStep[c] \in Threads
    /\ "not run" \in States /\ "extraction" \in States /\ "measurement" \in States
    /\ "success" \in States /\ "failed" \in States /\ "aborted" \in States
  BY DEF Threads, States, CheckedStep

\* The ways the actions rewrite the record of a run keep it one.
LEMMA Rewritten ==
    ASSUME NEW x \in RunRecords, NEW s \in States, NEW p \in Threads
    PROVE  /\ [x EXCEPT !.pc = p] \in RunRecords
           /\ [x EXCEPT !.state = s] \in RunRecords
           /\ [x EXCEPT !.state = s, !.pc = p] \in RunRecords
           /\ [x EXCEPT !.alive = TRUE, !.aborted = FALSE, !.pc = p] \in RunRecords
           /\ [x EXCEPT !.aborted = FALSE, !.state = s, !.pc = p] \in RunRecords
           /\ [x EXCEPT !.state = s, !.canceled = FALSE, !.pc = p] \in RunRecords
           /\ [x EXCEPT !.canceled = FALSE, !.pc = p] \in RunRecords
           /\ [x EXCEPT !.measured = TRUE, !.pc = p] \in RunRecords
           /\ [x EXCEPT !.state = s, !.canceled = FALSE, !.eq = "running", !.pc = p]
                 \in RunRecords
  BY Zenon DEF RunRecords

\* Finishing, canceling and aborting a run rewrite its record, and leave its thread
\* and its saver alone.
LEMMA Terminated ==
    ASSUME NEW x \in RunRecords
    PROVE  /\ Finished(x) \in RunRecords /\ Finished(x).pc = x.pc
           /\ Finished(x).saver = x.saver
           /\ CanceledRun(x) \in RunRecords /\ CanceledRun(x).pc = x.pc
           /\ CanceledRun(x).saver = x.saver
           /\ AbortedRun(x) \in RunRecords /\ AbortedRun(x).pc = x.pc
           /\ AbortedRun(x).saver = x.saver
<1>1. ASSUME NEW y \in RunRecords
      PROVE  /\ Finished(y) \in RunRecords /\ Finished(y).pc = y.pc
             /\ Finished(y).saver = y.saver
  <2>1. \A s \in States : [y EXCEPT !.alive = FALSE, !.state = s] \in RunRecords
    BY Zenon DEF RunRecords
  <2>2. y.state \in States
    BY DEF RunRecords
  <2>3. Finished(y) \in RunRecords
    BY <2>1, <2>2, Names, Zenon DEF Finished
  <2>4. Finished(y).pc = y.pc /\ Finished(y).saver = y.saver
    BY DEF Finished, RunRecords
  <2> QED BY <2>3, <2>4
<1>2. /\ CanceledRun(x) \in RunRecords /\ CanceledRun(x).pc = x.pc
      /\ CanceledRun(x).saver = x.saver
  <2>1. \A b \in BOOLEAN : /\ [x EXCEPT !.canceled = b] \in RunRecords
                           /\ [x EXCEPT !.canceled = b].pc = x.pc
                           /\ [x EXCEPT !.canceled = b].saver = x.saver
    BY DEF RunRecords
  <2>2. (x.canceled \/ x.pc \in InScript) \in BOOLEAN
    OBVIOUS
  <2> QED BY <1>1, <2>1, <2>2, Zenon DEF CanceledRun
<1>3. /\ AbortedRun(x) \in RunRecords /\ AbortedRun(x).pc = x.pc
      /\ AbortedRun(x).saver = x.saver
  <2> DEFINE y == Finished(x)
             s == IF x.state = "not run" THEN y.state ELSE "aborted"
  <2>1. y \in RunRecords /\ y.pc = x.pc /\ y.saver = x.saver /\ s \in States
    BY <1>1, Names DEF RunRecords
  <2>2. AbortedRun(x) = [y EXCEPT !.aborted = TRUE, !.state = s]
    BY Zenon DEF AbortedRun
  <2> HIDE DEF y, s
  <2>3. [y EXCEPT !.aborted = TRUE, !.state = s] \in RunRecords
    BY <2>1, Zenon DEF RunRecords
  <2>4. /\ [y EXCEPT !.aborted = TRUE, !.state = s].pc = x.pc
        /\ [y EXCEPT !.aborted = TRUE, !.state = s].saver = x.saver
    BY <2>1 DEF RunRecords
  <2> QED BY <2>2, <2>3, <2>4, Zenon
<1> QED BY <1>1, <1>2, <1>3

\* A queue starts well-typed.
LEMMA InitTyped == Init => TypeOK
<1>1. NewRun \in RunRecords
  <2>1. "none" \in Threads /\ "not run" \in States
    BY DEF Threads, States
  <2> QED BY <2>1, Zenon DEF NewRun, RunRecords
<1> SUFFICES ASSUME Init PROVE TypeOK
  OBVIOUS
<1>2. run \in [Runs -> RunRecords]
  BY <1>1 DEF Init
<1>3. exc \in Seq(Exceptions)
  BY DEF Init
<1>4. /\ alive \in BOOLEAN /\ canceled \in BOOLEAN /\ aborted \in BOOLEAN
      /\ endAt \in BOOLEAN /\ firstFlag \in BOOLEAN /\ fresh \in BOOLEAN
      /\ pump \in BOOLEAN /\ saveEvt \in BOOLEAN /\ asking \in BOOLEAN
  BY Zenon DEF Init
<1>5. /\ xpc = "top" /\ xrun = NoRun /\ extracting = NoRun /\ measuring = NoRun
      /\ asked \subseteq Runs /\ gen \in 1..(N + 1) /\ acts \in 0..MaxActs
  BY QueueAssumption DEF Init
<1> QED BY <1>2, <1>3, <1>4, <1>5 DEF TypeOK, InHand

\* Canceling or aborting runs moves no thread and no saver.
LEMMA TerminatedRuns ==
    ASSUME TypeOK, NEW R,
           \/ run' = [q \in Runs |-> IF q \in R THEN CanceledRun(run[q]) ELSE run[q]]
           \/ run' = [q \in Runs |-> IF q \in R THEN AbortedRun(run[q]) ELSE run[q]]
    PROVE  /\ run' \in [Runs -> RunRecords]
           /\ \A q \in Runs : run'[q].pc = run[q].pc /\ run'[q].saver = run[q].saver
<1>1. \A q \in Runs : run[q] \in RunRecords
  BY DEF TypeOK
<1> QED BY <1>1, Terminated

\* A step of a run's thread is a step of a thread at work; it touches the thread and
\* the saver of no other run, and the only saver it starts is its own, at the close.
ThreadEffect(r) ==
    /\ run' \in [Runs -> RunRecords]
    /\ run[r].pc \notin Over /\ run'[r].pc # "none"
    /\ \A q \in Runs \ {r} : run'[q].pc = run[q].pc /\ run'[q].saver = run[q].saver
    /\ \/ run'[r].saver = run[r].saver
       \/ At(r, "closing") /\ UseOverlapSave /\ run'[r].pc = "saved"
    /\ At(r, "saved") => run'[r].pc = "finishing" /\ saveEvt'
    /\ At(r, "finishing") => run'[r].pc \in {"finishing", "done"}
    /\ ~At(r, "saved") => saveEvt' = saveEvt

\* A step that gives one run a new record.
LEMMA OneRewritten ==
    ASSUME TypeOK, NEW r \in Runs, NEW x \in RunRecords, run' = [run EXCEPT ![r] = x]
    PROVE  /\ run' \in [Runs -> RunRecords] /\ run'[r] = x
           /\ \A q \in Runs \ {r} : run'[q] = run[q]
  BY DEF TypeOK

\* Moved by one step and nothing else.
LEMMA MovedEffect ==
    ASSUME TypeOK, NEW r \in Runs, NEW p \in Threads, Move(r, p)
    PROVE  /\ run' \in [Runs -> RunRecords]
           /\ run'[r].pc = p /\ run'[r].saver = run[r].saver
           /\ \A q \in Runs \ {r} : run'[q] = run[q]
<1> DEFINE x == [run[r] EXCEPT !.pc = p]
<1>1. run[r] \in RunRecords
  BY DEF TypeOK
<1>2. x \in RunRecords
  BY <1>1, Names, Rewritten
<1>3. x.pc = p /\ x.saver = run[r].saver
  BY <1>1 DEF RunRecords
<1>4. run' = [run EXCEPT ![r] = x]
  BY DEF Move
<1> HIDE DEF x
<1> QED BY <1>2, <1>3, <1>4, OneRewritten

\* A step that rewrites its own record only, and is not about the save.
LEMMA RewrittenEffect ==
    ASSUME TypeOK, NEW r \in Runs, NEW x \in RunRecords, run' = [run EXCEPT ![r] = x],
           run[r].pc \notin Over, ~At(r, "saved"), ~At(r, "finishing"),
           x.pc # "none", x.saver = run[r].saver, UNCHANGED saveEvt
    PROVE  ThreadEffect(r)
  BY OneRewritten DEF ThreadEffect

\* Every step of a run's thread, action by action, has no other effect than that.
LEMMA ThreadSteps ==
    ASSUME TypeOK, NEW r \in Runs, RunThread(r)
    PROVE  ThreadEffect(r)
<1>0. run[r] \in RunRecords /\ run \in [Runs -> RunRecords]
  BY DEF TypeOK
<1>1. CASE CheckStep(r)
  <2>1. PICK p \in Threads : Move(r, p) /\ p # "none"
    BY <1>1, Names DEF CheckStep, CheckedStep
  <2> QED BY <1>1, <2>1, MovedEffect DEF CheckStep, CheckedStep, Over, At, ThreadEffect
<1>2. CASE ExtractionScriptDone(r) \/ PumpWaitOver(r) \/ PumpWaitRaises(r)
           \/ PostMeasured(r) \/ PostMeasurementFails(r) \/ MarkSaving(r)
  BY <1>2, MovedEffect, Names DEF ExtractionScriptDone, PumpWaitOver, PumpWaitRaises,
     PostMeasured, PostMeasurementFails, MarkSaving, Over, At, ThreadEffect
<1>3. CASE BeginRun(r)
  <2> DEFINE x == [run[r] EXCEPT !.state = "not run", !.pc = "check_start"]
  <2>1. x \in RunRecords
    BY <1>0, Rewritten, Names
  <2>2. x.pc = "check_start" /\ x.saver = run[r].saver
    BY <1>0 DEF RunRecords
  <2>3. run' = [run EXCEPT ![r] = x]
    BY <1>3 DEF BeginRun
  <2> HIDE DEF x
  <2> QED BY <1>3, <2>1, <2>2, <2>3, RewrittenEffect DEF BeginRun, At, Over
<1>4. CASE Start(r)
  <2> DEFINE x == [run[r] EXCEPT !.alive = TRUE, !.aborted = FALSE,
                              !.pc = "check_extraction"]
  <2>1. x \in RunRecords
    BY <1>0, Rewritten, Names
  <2>2. x.pc = "check_extraction" /\ x.saver = run[r].saver
    BY <1>0 DEF RunRecords
  <2>3. run' = [run EXCEPT ![r] = x]
    BY <1>4 DEF Start
  <2> HIDE DEF x
  <2> QED BY <1>4, <2>1, <2>2, <2>3, RewrittenEffect DEF Start, At, Over
<1>5. CASE StartFails(r)
  <2> DEFINE x == [run[r] EXCEPT !.aborted = FALSE, !.state = "failed", !.pc = "closing"]
  <2>1. x \in RunRecords
    BY <1>0, Rewritten, Names
  <2>2. x.pc = "closing" /\ x.saver = run[r].saver
    BY <1>0 DEF RunRecords
  <2>3. run' = [run EXCEPT ![r] = x]
    BY <1>5 DEF StartFails
  <2> HIDE DEF x
  <2> QED BY <1>5, <2>1, <2>2, <2>3, RewrittenEffect DEF StartFails, At, Over
<1>6. CASE Extract(r)
  <2> DEFINE x == [run[r] EXCEPT !.state = "extraction", !.canceled = FALSE,
                              !.pc = "extracting"]
  <2>1. x \in RunRecords
    BY <1>0, Rewritten, Names
  <2>2. x.pc = "extracting" /\ x.saver = run[r].saver
    BY <1>0 DEF RunRecords
  <2>3. run' = [run EXCEPT ![r] = x]
    BY <1>6 DEF Extract
  <2> HIDE DEF x
  <2> QED BY <1>6, <2>1, <2>2, <2>3, RewrittenEffect DEF Extract, At, Over
<1>7. CASE ExtractNotAlive(r)
  <2> DEFINE x == [run[r] EXCEPT !.state = "failed", !.pc = "closing"]
  <2>1. x \in RunRecords
    BY <1>0, Rewritten, Names
  <2>2. x.pc = "closing" /\ x.saver = run[r].saver
    BY <1>0 DEF RunRecords
  <2>3. run' = [run EXCEPT ![r] = x]
    BY <1>7 DEF ExtractNotAlive
  <2> HIDE DEF x
  <2> QED BY <1>7, <2>1, <2>2, <2>3, RewrittenEffect DEF ExtractNotAlive, At, Over
<1>8. CASE Measure(r)
  <2> DEFINE x == [run[r] EXCEPT !.state = "measurement", !.canceled = FALSE,
                              !.eq = "running", !.pc = "measuring"]
  <2>1. x \in RunRecords
    BY <1>0, Rewritten, Names
  <2>2. x.pc = "measuring" /\ x.saver = run[r].saver
    BY <1>0 DEF RunRecords
  <2>3. run' = [run EXCEPT ![r] = x]
    BY <1>8 DEF Measure
  <2> HIDE DEF x
  <2> QED BY <1>8, <2>1, <2>2, <2>3, RewrittenEffect DEF Measure, At, Over
<1>9. CASE Measured(r)
  <2> DEFINE x == [run[r] EXCEPT !.measured = TRUE, !.pc = "check_post"]
  <2>1. x \in RunRecords
    BY <1>0, Rewritten, Names
  <2>2. x.pc = "check_post" /\ x.saver = run[r].saver
    BY <1>0 DEF RunRecords
  <2>3. run' = [run EXCEPT ![r] = x]
    BY <1>9 DEF Measured
  <2> HIDE DEF x
  <2> QED BY <1>9, <2>1, <2>2, <2>3, RewrittenEffect DEF Measured, At, Over
<1>10. CASE PostMeasure(r)
  <2> DEFINE x == [run[r] EXCEPT !.canceled = FALSE, !.pc = "posting"]
  <2>1. x \in RunRecords
    BY <1>0, Rewritten, Names
  <2>2. x.pc = "posting" /\ x.saver = run[r].saver
    BY <1>0 DEF RunRecords
  <2>3. run' = [run EXCEPT ![r] = x]
    BY <1>10 DEF PostMeasure
  <2> HIDE DEF x
  <2> QED BY <1>10, <2>1, <2>2, <2>3, RewrittenEffect DEF PostMeasure, At, Over
<1>11. CASE MeasureNothing(r)
  <2>1. CASE Move(r, "check_post")
    BY <1>11, <2>1, MovedEffect, Names DEF MeasureNothing, Over, At, ThreadEffect
  <2>2. CASE run' = [run EXCEPT ![r].state = "failed", ![r].pc = "closing"]
    <3> DEFINE x == [run[r] EXCEPT !.state = "failed", !.pc = "closing"]
    <3>1. x \in RunRecords
      BY <1>0, Rewritten, Names
    <3>2. x.pc = "closing" /\ x.saver = run[r].saver
      BY <1>0 DEF RunRecords
    <3>3. run' = [run EXCEPT ![r] = x]
      BY <2>2
    <3> HIDE DEF x
    <3> QED BY <1>11, <3>1, <3>2, <3>3, RewrittenEffect DEF MeasureNothing, At, Over
  <2> QED BY <1>11, <2>1, <2>2 DEF MeasureNothing, Move
<1>12. CASE ExtractionFails(r) \/ MeasurementFails(r)
  <2> DEFINE y == Finished(run[r])
  <2>1. y \in RunRecords /\ y.saver = run[r].saver
    BY <1>0, Terminated
  <2>2. PICK x : /\ x \in {[y EXCEPT !.state = "failed", !.pc = "closing"],
                          [y EXCEPT !.pc = "check_post"]}
                 /\ run' = [run EXCEPT ![r] = x]
    BY <1>12, Zenon DEF ExtractionFails, MeasurementFails
  <2> HIDE DEF y
  <2>3. x \in RunRecords
    <3>1. /\ [y EXCEPT !.state = "failed", !.pc = "closing"] \in RunRecords
          /\ [y EXCEPT !.pc = "check_post"] \in RunRecords
      BY <2>1, Rewritten, Names
    <3> QED BY <3>1, <2>2, Zenon
  <2>4. x.pc # "none" /\ x.saver = run[r].saver
    BY <2>1, <2>2 DEF RunRecords
  <2>5. /\ run[r].pc \notin Over /\ ~At(r, "saved") /\ ~At(r, "finishing")
        /\ UNCHANGED saveEvt
    BY <1>12 DEF ExtractionFails, MeasurementFails, At, Over
  <2> QED BY <2>2, <2>3, <2>4, <2>5, RewrittenEffect
<1>13. CASE Judge(r)
  <2> DEFINE s == IF run[r].state = "failed" THEN run[r].state ELSE "success"
             x == [run[r] EXCEPT !.state = s, !.pc = "closing"]
  <2>1. s \in States
    BY <1>0, Names DEF RunRecords
  <2>2. run' = [run EXCEPT ![r] = x]
    BY <1>13, Zenon DEF Judge
  <2> HIDE DEF s
  <2>3. x \in RunRecords
    BY <1>0, <2>1, Rewritten, Names
  <2>4. x.pc = "closing" /\ x.saver = run[r].saver
    BY <1>0, <2>1 DEF RunRecords
  <2> HIDE DEF x
  <2> QED BY <1>13, <2>2, <2>3, <2>4, RewrittenEffect DEF Judge, At, Over
<1>14. CASE Save(r)
  <2> DEFINE s == IF Saves(r) /\ UseOverlapSave THEN "saving" ELSE run[r].saver
             x == [run[r] EXCEPT !.pc = "saved", !.saver = s]
  <2>1. s \in {"no", "saving", "reported"} /\ (s # run[r].saver => UseOverlapSave)
    BY <1>0 DEF RunRecords
  <2>2. run' = [run EXCEPT ![r] = x]
    BY <1>14, Zenon DEF Save
  <2> HIDE DEF s
  <2>3. x \in RunRecords
    <3>1. \A p \in Threads : [run[r] EXCEPT !.pc = p, !.saver = s] \in RunRecords
      BY <1>0, <2>1, Zenon DEF RunRecords
    <3> QED BY <3>1, Names
  <2>4. x.pc = "saved" /\ x.saver = s
    BY <1>0, <2>1 DEF RunRecords
  <2> HIDE DEF x
  <2> QED BY <1>14, <2>1, <2>2, <2>3, <2>4, OneRewritten DEF Save, At, Over, ThreadEffect
<1>15. CASE FinishRun(r)
  <2> DEFINE y == Finished(run[r])
             x == [y EXCEPT !.pc = "done"]
  <2>1. y \in RunRecords /\ y.saver = run[r].saver
    BY <1>0, Terminated
  <2>2. run' = [run EXCEPT ![r] = x]
    BY <1>15, Zenon DEF FinishRun
  <2> HIDE DEF y
  <2>3. x \in RunRecords
    BY <2>1, Rewritten, Names
  <2>4. x.pc = "done" /\ x.saver = run[r].saver
    BY <2>1 DEF RunRecords
  <2> HIDE DEF x
  <2> QED BY <1>15, <2>2, <2>3, <2>4, OneRewritten DEF FinishRun, At, Over, ThreadEffect
<1>16. CASE PostRunCheckCancels(r)
  <2>1. /\ run' \in [Runs -> RunRecords]
        /\ \A q \in Runs : run'[q].pc = run[q].pc /\ run'[q].saver = run[q].saver
    BY <1>0, <1>16, TerminatedRuns DEF PostRunCheckCancels, CancelQueue
  <2> QED BY <1>16, <2>1 DEF PostRunCheckCancels, At, Over, ThreadEffect
<1>17. CASE StepCheckTrips(r)
  <2> DEFINE y(q) == IF q \in Current THEN CanceledRun(run[q]) ELSE run[q]
  <2>1. \A q \in Runs : /\ y(q) \in RunRecords /\ y(q).pc = run[q].pc
                         /\ y(q).saver = run[q].saver
    BY <1>0, Terminated
  <2>2. run' = [q \in Runs |->
                   IF q = r THEN [y(q) EXCEPT !.state = "failed", !.pc = "closing"]
                   ELSE y(q)]
    BY <1>17 DEF StepCheckTrips
  <2> HIDE DEF y
  <2>3. /\ [y(r) EXCEPT !.state = "failed", !.pc = "closing"] \in RunRecords
    BY <2>1, Rewritten, Names
  <2>4. /\ [y(r) EXCEPT !.state = "failed", !.pc = "closing"].pc = "closing"
        /\ [y(r) EXCEPT !.state = "failed", !.pc = "closing"].saver = run[r].saver
    BY <2>1 DEF RunRecords
  <2> DEFINE z == [y(r) EXCEPT !.state = "failed", !.pc = "closing"]
  <2>5. run' = [q \in Runs |-> IF q = r THEN z ELSE y(q)]
    BY <2>2
  <2>6. z \in RunRecords /\ z.pc = "closing" /\ z.saver = run[r].saver
    BY <2>3, <2>4
  <2> HIDE DEF z
  <2>7. /\ run' \in [Runs -> RunRecords] /\ run'[r] = z
        /\ \A q \in Runs \ {r} : run'[q] = y(q)
    BY <2>1, <2>5, <2>6
  <2>8. run[r].pc \in {"extraction", "measurement"} /\ UNCHANGED saveEvt
    BY <1>17 DEF StepCheckTrips, At
  <2> QED BY <2>1, <2>6, <2>7, <2>8 DEF At, Over, ThreadEffect
<1> QED BY <1>1, <1>2, <1>3, <1>4, <1>5, <1>6, <1>7, <1>8, <1>9, <1>10,
          <1>11, <1>12, <1>13, <1>14, <1>15, <1>16, <1>17 DEF RunThread

\* The equilibration and the saver of a run move no thread; a saver starts none.
LEMMA HelperSteps ==
    ASSUME TypeOK, NEW r \in Runs, Equilibrated(r) \/ Saver(r)
    PROVE  /\ run' \in [Runs -> RunRecords]
           /\ \A q \in Runs : run'[q].pc = run[q].pc
           /\ \A q \in Runs \ {r} : run'[q].saver = run[q].saver
           /\ run[r].saver = "no" => run'[r].saver = "no"
           /\ run'[r].saver # "no" => saveEvt' = saveEvt
           /\ saveEvt' = saveEvt \/ run[r].saver # "no"
<1>0. run[r] \in RunRecords
  BY DEF TypeOK
<1>1. CASE Equilibrated(r)
  <2> DEFINE e == IF run[r].alive /\ run[r].evt # "none" THEN "set" ELSE run[r].evt
             x == [run[r] EXCEPT !.eq = "done", !.evt = e]
  <2>1. e \in {"none", "clear", "set"}
    BY <1>0 DEF RunRecords
  <2>2. run' = [run EXCEPT ![r] = x]
    BY <1>1, Zenon DEF Equilibrated
  <2> HIDE DEF e
  <2>3. x \in RunRecords
    BY <1>0, <2>1, Zenon DEF RunRecords
  <2>4. x.pc = run[r].pc /\ x.saver = run[r].saver
    BY <1>0, <2>1 DEF RunRecords
  <2> HIDE DEF x
  <2> QED BY <1>1, <2>2, <2>3, <2>4, OneRewritten DEF Equilibrated
<1>2. CASE Saver(r)
  <2>1. PICK s \in {"no", "reported"} : /\ run' = [run EXCEPT ![r].saver = s]
                                        /\ s # "no" => saveEvt' = saveEvt
    BY <1>2 DEF Saver, SaverReports, SaverDone, SaverDies
  <2> DEFINE x == [run[r] EXCEPT !.saver = s]
  <2>2. run' = [run EXCEPT ![r] = x]
    BY <2>1
  <2>3. x \in RunRecords
    BY <1>0, Zenon DEF RunRecords
  <2>4. x.pc = run[r].pc /\ x.saver = s
    BY <1>0 DEF RunRecords
  <2> HIDE DEF x
  <2>5. run[r].saver # "no"
    BY <1>2 DEF Saver, SaverReports, SaverDone, SaverDies
  <2> QED BY <2>1, <2>2, <2>3, <2>4, <2>5, OneRewritten
<1> QED BY <1>1, <1>2

\* The loop rewrites the record of the run in hand only, and moves its thread only to
\* begin it.
LEMMA LoopSteps ==
    ASSUME TypeOK, Executor
    PROVE  /\ run' \in [Runs -> RunRecords] /\ UNCHANGED saveEvt
           /\ \A q \in Runs : run'[q].saver = run[q].saver
           /\ \A q \in Runs \ {xrun} : run'[q].pc = run[q].pc
           /\ xrun \in Runs => \/ run'[xrun].pc = run[xrun].pc
                               \/ /\ StartThread \/ (MakeRun /\ ~OverlapsNext(xrun))
                                  /\ run'[xrun].pc = "begin"
           /\ StartThread \/ (MakeRun /\ ~OverlapsNext(xrun)) => run'[xrun].pc = "begin"
<1>0. xpc \in InHand => xrun \in Runs /\ run[xrun] \in RunRecords
  BY DEF TypeOK
<1>1. CASE LoopEnds \/ TakeRun \/ Pause \/ DelayOver \/ SaveCleared \/ MakeFails
           \/ OverlapOver \/ JoinRun \/ JoinCrashes \/ Drained
  BY <1>1 DEF LoopEnds, TakeRun, Pause, DelayOver, SaveCleared, MakeFails, OverlapOver,
     JoinRun, JoinCrashes, Drained, StartThread, MakeRun, flags, user, TypeOK
<1>2. CASE SaveTimesOut
  <2> DEFINE x == [run[xrun] EXCEPT !.state = "failed"]
  <2>1. xrun \in Runs /\ run[xrun] \in RunRecords
    BY <1>0, <1>2 DEF SaveTimesOut, InHand
  <2>2. run' = [run EXCEPT ![xrun] = x]
    BY <1>2 DEF SaveTimesOut
  <2>3. x \in RunRecords
    BY <2>1, Names, Rewritten
  <2>4. x.pc = run[xrun].pc /\ x.saver = run[xrun].saver
    BY <2>1 DEF RunRecords
  <2> HIDE DEF x
  <2> QED BY <1>2, <2>1, <2>2, <2>3, <2>4, OneRewritten DEF SaveTimesOut, StartThread, MakeRun
<1>3. CASE MakeRun
  <2> DEFINE made == [run[xrun] EXCEPT !.first = firstFlag, !.pump = pump]
             begun == [made EXCEPT !.pc = "begin"]
  <2>1. xrun \in Runs /\ run[xrun] \in RunRecords
    BY <1>0, <1>3 DEF MakeRun, InHand
  <2>2. run' = [run EXCEPT ![xrun] = IF OverlapsNext(xrun) THEN made ELSE begun]
    BY <1>3 DEF MakeRun
  <2>3. made \in RunRecords
    BY <2>1, Zenon DEF RunRecords, TypeOK
  <2>4. made.pc = run[xrun].pc /\ made.saver = run[xrun].saver
    BY <2>1 DEF RunRecords
  <2> HIDE DEF made
  <2>5. begun \in RunRecords
    BY <2>3, Names, Rewritten
  <2>6. begun.pc = "begin" /\ begun.saver = run[xrun].saver
    BY <2>3, <2>4 DEF RunRecords
  <2> HIDE DEF begun
  <2> QED BY <1>3, <2>1, <2>2, <2>3, <2>4, <2>5, <2>6, OneRewritten DEF StartThread, MakeRun
<1>4. CASE StartThread
  <2>1. xrun \in Runs
    BY <1>0, <1>4 DEF StartThread, InHand
  <2>2. Move(xrun, "begin")
    BY <1>4 DEF StartThread, Move
  <2>3. /\ run' \in [Runs -> RunRecords] /\ run'[xrun].pc = "begin"
        /\ run'[xrun].saver = run[xrun].saver
        /\ \A q \in Runs \ {xrun} : run'[q] = run[q]
    BY <2>1, <2>2, MovedEffect, Names
  <2>4. UNCHANGED saveEvt
    BY <1>4 DEF StartThread
  <2>5. \A q \in Runs : run'[q].saver = run[q].saver
    BY <2>3
  <2> QED BY <1>4, <2>1, <2>3, <2>4, <2>5
<1>5. CASE WaitForOverlap
  <2> DEFINE x == [run[xrun] EXCEPT !.alive = TRUE, !.evt = "clear"]
  <2>1. xrun \in Runs /\ run[xrun] \in RunRecords
    BY <1>0, <1>5 DEF WaitForOverlap, InHand
  <2>2. run' = [run EXCEPT ![xrun] = x]
    BY <1>5 DEF WaitForOverlap
  <2>3. x \in RunRecords
    BY <2>1, Zenon DEF RunRecords
  <2>4. x.pc = run[xrun].pc /\ x.saver = run[xrun].saver
    BY <2>1 DEF RunRecords
  <2> HIDE DEF x
  <2> QED BY <1>5, <2>1, <2>2, <2>3, <2>4, OneRewritten DEF WaitForOverlap, StartThread, MakeRun
<1> QED BY <1>1, <1>2, <1>3, <1>4, <1>5 DEF Executor

\* The operator moves no thread and no saver.
LEMMA OperatorSteps ==
    ASSUME TypeOK, Operator
    PROVE  /\ run' \in [Runs -> RunRecords] /\ UNCHANGED <<loop, saveEvt>>
           /\ \A q \in Runs : run'[q].pc = run[q].pc /\ run'[q].saver = run[q].saver
<1>1. CASE run' = run
  BY <1>1 DEF TypeOK, Operator, AskCancel, ConfirmCancel, DeclineCancel, AbortRun, SetEndAt
<1>2. CASE run' # run
  <2>1. ConfirmCancel \/ AbortRun
    BY <1>2 DEF Operator, AskCancel, DeclineCancel, SetEndAt
  <2> QED BY <1>2, <2>1, TerminatedRuns DEF ConfirmCancel, AbortRun, CancelQueue
<1> QED BY <1>1, <1>2

\* The records of the runs stay records, whoever makes the step.
LEMMA RunsTyped == TypeOK /\ [Next]_vars => run' \in [Runs -> RunRecords]
<1> SUFFICES ASSUME TypeOK, [Next]_vars PROVE run' \in [Runs -> RunRecords]
  OBVIOUS
<1>1. ASSUME NEW r \in Runs, RunThread(r) PROVE run' \in [Runs -> RunRecords]
  BY <1>1, ThreadSteps DEF ThreadEffect
<1>2. CASE UNCHANGED vars
  BY <1>2 DEF vars, TypeOK
<1> QED BY <1>1, <1>2, HelperSteps, LoopSteps, OperatorSteps DEF Next

\* The exceptions stay exceptions: they are appended by savers and taken by anybody.
LEMMA ExceptionsTyped ==
    TypeOK /\ [Next]_vars => exc' \in Seq(Exceptions)
<1> SUFFICES ASSUME TypeOK, [Next]_vars PROVE exc' \in Seq(Exceptions)
  OBVIOUS
<1>1. CASE UNCHANGED exc
  BY <1>1 DEF TypeOK
<1>2. CASE TakeExceptions(1) \/ TakeExceptions(2)
  BY <1>2, TakeTyped
<1>3. ASSUME NEW r \in Runs, SaverReports(r)
      PROVE  exc' \in Seq(Exceptions)
  <2>1. PICK e \in Exceptions : exc' = Append(exc, e)
    BY <1>3 DEF SaverReports, Exceptions
  <2>2. exc \in Seq(Exceptions)
    BY <1>3 DEF SaverReports, TypeOK
  <2> HIDE DEF Exceptions
  <2>3. Append(exc, e) \in Seq(Exceptions)
    BY <2>1, <2>2
  <2> QED BY <2>1, <2>2, <2>3
<1>4. CASE Executor
  BY <1>1, <1>2, <1>4 DEF Executor, LoopEnds, TakeRun, Pause, DelayOver, SaveCleared,
     SaveTimesOut, MakeFails, MakeRun, StartThread, WaitForOverlap, OverlapOver, JoinRun,
     JoinCrashes, Drained, AskAlive
<1>5. ASSUME NEW r \in Runs, RunThread(r)
      PROVE  exc' \in Seq(Exceptions)
  BY <1>1, <1>2, <1>5 DEF RunThread, BeginRun, CheckStep, Start, StartFails, StepCheckTrips,
     Extract, ExtractNotAlive, ExtractionScriptDone, ExtractionFails, PumpWaitOver,
     PumpWaitRaises, Measure, MeasureNothing, Measured, MeasurementFails, PostMeasure,
     PostMeasured, PostMeasurementFails, Judge, Save, MarkSaving, PostRunCheckCancels,
     FinishRun, AskAlive
<1>6. ASSUME NEW r \in Runs, Equilibrated(r) \/ Saver(r)
      PROVE  exc' \in Seq(Exceptions)
  BY <1>1, <1>3, <1>6 DEF Equilibrated, Saver, SaverDone, SaverDies
<1>7. CASE Operator
  BY <1>1, <1>2, <1>7 DEF Operator, AskCancel, ConfirmCancel, DeclineCancel, AbortRun, SetEndAt
<1>8. CASE UNCHANGED vars
  BY <1>1, <1>8 DEF vars
<1> QED BY <1>4, <1>5, <1>6, <1>7, <1>8 DEF Next

\* What the loop keeps: where it stands, the run in hand, the next run.
LoopTyped ==
    /\ xpc \in InHand \cup {"top", "drain", "done", "crashed"}
    /\ xrun \in Runs \cup {NoRun} /\ gen \in 1..(N + 1)
    /\ xpc \in InHand => xrun \in Runs
    /\ firstFlag \in BOOLEAN /\ fresh \in BOOLEAN

SharedTyped ==
    /\ alive \in BOOLEAN /\ canceled \in BOOLEAN /\ aborted \in BOOLEAN
    /\ endAt \in BOOLEAN
    /\ extracting \in Runs \cup {NoRun} /\ measuring \in Runs \cup {NoRun}
    /\ pump \in BOOLEAN /\ saveEvt \in BOOLEAN
    /\ asking \in BOOLEAN /\ asked \subseteq Runs /\ acts \in 0..MaxActs

\* Only the loop moves the loop.
LEMMA ThreadLoop ==
    ASSUME NEW r \in Runs, RunThread(r)
    PROVE  UNCHANGED loop
  BY DEF RunThread, BeginRun, CheckStep, Start, StartFails, StepCheckTrips,
     Extract, ExtractNotAlive, ExtractionScriptDone, ExtractionFails, PumpWaitOver,
     PumpWaitRaises, Measure, MeasureNothing, Measured, MeasurementFails, PostMeasure,
     PostMeasured, PostMeasurementFails, Judge, Save, MarkSaving, PostRunCheckCancels,
     FinishRun

LEMMA HelperLoop ==
    ASSUME NEW r \in Runs, Equilibrated(r) \/ Saver(r)
    PROVE  UNCHANGED loop
  BY DEF Equilibrated, Saver, SaverReports, SaverDone, SaverDies

LEMMA LoopTypedNext == TypeOK /\ [Next]_vars => LoopTyped'
<1> SUFFICES ASSUME TypeOK, [Next]_vars PROVE LoopTyped'
  OBVIOUS
<1>1. CASE UNCHANGED loop
  BY <1>1 DEF TypeOK, LoopTyped, InHand, loop
<1>2. CASE LoopEnds \/ Pause \/ DelayOver \/ SaveCleared \/ SaveTimesOut \/ MakeFails
           \/ StartThread \/ WaitForOverlap \/ OverlapOver \/ JoinRun \/ JoinCrashes
           \/ Drained
  BY <1>2 DEF LoopEnds, Pause, DelayOver, SaveCleared, SaveTimesOut, MakeFails, StartThread,
     WaitForOverlap, OverlapOver, JoinRun, JoinCrashes, Drained, TypeOK, LoopTyped, InHand,
     AfterRun
<1>3. CASE TakeRun
  BY <1>3, QueueAssumption DEF TakeRun, TypeOK, LoopTyped, InHand, Runs, NextSpec
<1>4. CASE MakeRun
  BY <1>4 DEF MakeRun, TypeOK, LoopTyped, InHand
<1> QED BY <1>1, <1>2, <1>3, <1>4, ThreadLoop, HelperLoop, OperatorSteps
          DEF Next, Executor, vars

LEMMA SharedTypedNext == TypeOK /\ [Next]_vars => SharedTyped'
<1> SUFFICES ASSUME TypeOK, [Next]_vars PROVE SharedTyped'
  OBVIOUS
<1>1. CASE Executor
  BY <1>1 DEF Executor, LoopEnds, TakeRun, Pause, DelayOver, SaveCleared,
     SaveTimesOut, MakeFails, MakeRun, StartThread, WaitForOverlap, OverlapOver, JoinRun,
     JoinCrashes, Drained, TypeOK, SharedTyped, flags, user, MeasuringRunCleared
<1>2. ASSUME NEW r \in Runs, RunThread(r) PROVE SharedTyped'
  <2>1. pump' \in BOOLEAN /\ alive' \in BOOLEAN /\ canceled' \in BOOLEAN
    BY <1>2 DEF RunThread, BeginRun, CheckStep, Start, StartFails, StepCheckTrips,
       Extract, ExtractNotAlive, ExtractionScriptDone, ExtractionFails, PumpWaitOver,
       PumpWaitRaises, Measure, MeasureNothing, Measured, MeasurementFails, PostMeasure,
       PostMeasured, PostMeasurementFails, Judge, Save, MarkSaving, PostRunCheckCancels,
       FinishRun, TypeOK, flags, PostTermination, CancelQueue, FailedStep
  <2>2. /\ aborted' = aborted /\ endAt' = endAt /\ UNCHANGED user /\ saveEvt' \in BOOLEAN
        /\ extracting' \in Runs \cup {NoRun} /\ measuring' \in Runs \cup {NoRun}
    BY <1>2 DEF RunThread, BeginRun, CheckStep, Start, StartFails, StepCheckTrips,
       Extract, ExtractNotAlive, ExtractionScriptDone, ExtractionFails, PumpWaitOver,
       PumpWaitRaises, Measure, MeasureNothing, Measured, MeasurementFails, PostMeasure,
       PostMeasured, PostMeasurementFails, Judge, Save, MarkSaving, PostRunCheckCancels,
       FinishRun, TypeOK, flags
  <2> QED BY <2>1, <2>2 DEF TypeOK, SharedTyped, user
<1>3. ASSUME NEW r \in Runs, Equilibrated(r) \/ Saver(r) PROVE SharedTyped'
  BY <1>3 DEF Equilibrated, Saver, SaverReports, SaverDone, SaverDies, TypeOK, SharedTyped,
     flags, user
<1>4. CASE Operator
  <2>1. acts' \in 0..MaxActs
    BY <1>4, QueueAssumption DEF Operator, AskCancel, ConfirmCancel, DeclineCancel, AbortRun,
       SetEndAt, Act, TypeOK
  <2>2. /\ extracting' = extracting /\ measuring' = measuring /\ saveEvt' = saveEvt
        /\ asked' \subseteq Runs
    BY <1>4 DEF Operator, AskCancel, ConfirmCancel, DeclineCancel, AbortRun, SetEndAt,
       TypeOK, flags, Current
  <2>3. /\ alive' \in BOOLEAN /\ canceled' \in BOOLEAN /\ aborted' \in BOOLEAN
        /\ endAt' \in BOOLEAN /\ pump' \in BOOLEAN /\ asking' \in BOOLEAN
    BY <1>4 DEF Operator, AskCancel, ConfirmCancel, DeclineCancel, AbortRun, SetEndAt,
       TypeOK, flags, CancelQueue, PostTermination
  <2> QED BY <2>1, <2>2, <2>3 DEF TypeOK, SharedTyped
<1>5. CASE UNCHANGED vars
  BY <1>5 DEF vars, flags, user, TypeOK, SharedTyped
<1> QED BY <1>1, <1>2, <1>3, <1>4, <1>5 DEF Next

LEMMA NextTyped == TypeOK /\ [Next]_vars => TypeOK'
  BY RunsTyped, ExceptionsTyped, LoopTypedNext, SharedTypedNext
     DEF LoopTyped, SharedTyped, TypeOK, InHand

\* The types hold for queues of any length, any faults and any operator.
THEOREM TypeCorrect == Spec => []TypeOK
  BY InitTyped, NextTyped, PTL DEF Spec

------------------------------------------------------------------------------
(* The queue is done in order *)

\* The runs that have begun are those before the one in hand, with it once its thread
\* is started; a run at work that does not overlap is the one the loop joins.
InOrder ==
    /\ xpc \in {"pause", "delay", "dvcwait", "make", "wait"} =>
          /\ gen = xrun + 1
          /\ \A r \in Runs : run[r].pc = "none" <=> r >= xrun
    /\ xpc \in {"top", "overlap", "overlapping", "join"} =>
          \A r \in Runs : run[r].pc = "none" <=> r >= gen

Joined ==
    /\ xpc \in {"wait", "overlap", "overlapping"} => xrun \in Overlaps \cap Unknowns
    /\ \A r \in Runs \ (Overlaps \cap Unknowns) :
          run[r].pc \notin Over => xpc = "join" /\ r = xrun

OrderInv == TypeOK /\ InOrder /\ Joined

LEMMA InitOrder == Init => OrderInv
<1> SUFFICES ASSUME Init PROVE InOrder /\ Joined
  BY InitTyped DEF OrderInv
<1>1. \A r \in Runs : run[r] = NewRun /\ r >= 1
  BY QueueAssumption DEF Init, Runs
<1>2. NewRun.pc = "none"
  BY DEF NewRun
<1> QED BY <1>1, <1>2 DEF Init, InOrder, Joined, Over

\* Where no thread begins or is moved by the loop, only threads at work move.
LEMMA ThreadsOrder ==
    ASSUME OrderInv, UNCHANGED loop, run' \in [Runs -> RunRecords],
           \A q \in Runs : \/ run'[q].pc = run[q].pc
                           \/ run[q].pc \notin Over /\ run'[q].pc # "none"
    PROVE  InOrder' /\ Joined'
<1>1. \A q \in Runs : run'[q].pc = "none" <=> run[q].pc = "none"
  BY DEF Over
<1>2. \A q \in Runs : run'[q].pc \notin Over => run[q].pc \notin Over
  BY DEF Over
<1> QED BY <1>1, <1>2 DEF OrderInv, InOrder, Joined, loop

LEMMA LoopOrder ==
    ASSUME OrderInv, Executor
    PROVE  InOrder' /\ Joined'
<1> USE DEF OrderInv
<1>1. CASE LoopEnds \/ Pause \/ DelayOver \/ SaveCleared \/ SaveTimesOut \/ MakeFails
           \/ WaitForOverlap \/ OverlapOver \/ JoinRun \/ JoinCrashes \/ Drained
  <2>1. \A q \in Runs : run'[q].pc = run[q].pc
    BY <1>1, LoopSteps DEF LoopEnds, Pause, DelayOver, SaveCleared, SaveTimesOut, MakeFails,
       WaitForOverlap, OverlapOver, JoinRun, JoinCrashes, Drained, StartThread, MakeRun
  <2>2. UNCHANGED <<xrun, gen>>
    BY <1>1 DEF LoopEnds, Pause, DelayOver, SaveCleared, SaveTimesOut, MakeFails,
       WaitForOverlap, OverlapOver, JoinRun, JoinCrashes, Drained
  <2>3. \/ xpc' \in {"drain", "done", "crashed"}
        \/ xpc \in {"pause", "delay", "dvcwait"} /\ xpc' \in {"delay", "dvcwait", "make"}
        \/ xpc = "overlap" /\ xpc' = "overlapping"
        \/ xpc \in {"overlapping", "join"} /\ xpc' = "top"
    BY <1>1 DEF LoopEnds, Pause, DelayOver, SaveCleared, SaveTimesOut, MakeFails,
       WaitForOverlap, OverlapOver, JoinRun, JoinCrashes, Drained, AfterRun
  <2>4. xpc = "join" => \/ xpc' = "join"
                        \/ run[xrun].pc \in {"done", "dead"}
    BY <1>1 DEF LoopEnds, Pause, DelayOver, SaveCleared, SaveTimesOut, MakeFails,
       WaitForOverlap, OverlapOver, JoinRun, JoinCrashes, Drained
  <2>5. InOrder'
    BY <2>1, <2>2, <2>3 DEF InOrder
  <2>6. Joined'
    BY <2>1, <2>2, <2>3, <2>4 DEF Joined, Over
  <2> QED BY <2>5, <2>6
<1>2. CASE TakeRun
  <2>1. UNCHANGED run /\ xpc = "top" /\ xpc' = "pause" /\ xrun' = gen /\ gen' = gen + 1
    BY <1>2 DEF TakeRun
  <2> QED BY <2>1 DEF InOrder, Joined
<1>3. CASE MakeRun
  <2>1. xpc = "make" /\ xrun \in Runs /\ UNCHANGED <<xrun, gen>> /\ gen = xrun + 1
    BY <1>3 DEF MakeRun, TypeOK, InHand, InOrder
  <2>2. CASE OverlapsNext(xrun)
    <3>1. \A q \in Runs : run'[q].pc = run[q].pc
      BY <1>3, <2>2, LoopSteps DEF MakeRun, StartThread
    <3>2. xpc' = "wait"
      BY <1>3, <2>2 DEF MakeRun
    <3> QED BY <2>1, <2>2, <3>1, <3>2 DEF InOrder, Joined, OverlapsNext, Over
  <2>3. CASE ~OverlapsNext(xrun)
    <3>1. /\ \A q \in Runs \ {xrun} : run'[q].pc = run[q].pc
          /\ run'[xrun].pc = "begin" /\ xpc' = "join"
      BY <1>3, <2>3, LoopSteps DEF MakeRun
    <3>2. \A q \in Runs : q >= gen <=> q >= xrun /\ q # xrun
      BY <2>1 DEF Runs
    <3> QED BY <2>1, <3>1, <3>2 DEF InOrder, Joined, Over
  <2> QED BY <2>2, <2>3
<1>4. CASE StartThread
  <2>1. /\ xpc = "wait" /\ xpc' = "overlap" /\ xrun \in Runs /\ UNCHANGED <<xrun, gen>>
        /\ gen = xrun + 1
    BY <1>4 DEF StartThread, TypeOK, InHand, InOrder
  <2>2. \A q \in Runs \ {xrun} : run'[q].pc = run[q].pc
    BY <1>4, LoopSteps
  <2>3. run'[xrun].pc = "begin"
    BY <1>4, LoopSteps
  <2>4. \A q \in Runs : q >= gen <=> q >= xrun /\ q # xrun
    BY <2>1 DEF Runs
  <2> QED BY <2>1, <2>2, <2>3, <2>4 DEF InOrder, Joined
<1> QED BY <1>1, <1>2, <1>3, <1>4 DEF Executor

LEMMA NextOrder == OrderInv /\ [Next]_vars => OrderInv'
<1> SUFFICES ASSUME OrderInv, [Next]_vars PROVE InOrder' /\ Joined'
  BY NextTyped DEF OrderInv
<1> USE DEF OrderInv
<1>1. ASSUME NEW r \in Runs, RunThread(r) PROVE InOrder' /\ Joined'
  BY <1>1, ThreadSteps, ThreadsOrder, ThreadLoop DEF ThreadEffect
<1>2. ASSUME NEW r \in Runs, Equilibrated(r) \/ Saver(r) PROVE InOrder' /\ Joined'
  BY <1>2, HelperSteps, ThreadsOrder, HelperLoop
<1>3. CASE Operator
  BY <1>3, OperatorSteps, ThreadsOrder
<1>4. CASE UNCHANGED vars
  BY <1>4, ThreadsOrder DEF vars, TypeOK
<1> QED BY <1>1, <1>2, <1>3, <1>4, LoopOrder DEF Next


\* A step of the executor is a step of the abstract queue or none at all.
LEMMA NextQueue ==
    OrderInv /\ [Next]_vars => [Queue!Next]_<<Begun, Working>>
<1> SUFFICES ASSUME OrderInv, [Next]_vars
             PROVE  \/ UNCHANGED <<Begun, Working>>
                    \/ \E r \in Runs : Queue!Begin(r) \/ Queue!End(r)
  BY DEF Queue!Next, Begun, Working, Runs
<1> USE DEF OrderInv
<1>1. ASSUME \A q \in Runs : run'[q].pc = run[q].pc
      PROVE  UNCHANGED <<Begun, Working>>
  BY <1>1 DEF Begun, Working
<1>2. ASSUME NEW r \in Runs, RunThread(r)
      PROVE  UNCHANGED <<Begun, Working>> \/ Queue!End(r)
  <2>1. /\ run[r].pc \notin Over /\ run'[r].pc # "none"
        /\ \A q \in Runs \ {r} : run'[q].pc = run[q].pc
    BY <1>2, ThreadSteps DEF ThreadEffect
  <2>2. Begun' = Begun
    BY <2>1 DEF Begun, Over
  <2>3. CASE run'[r].pc \notin Over
    BY <2>1, <2>2, <2>3 DEF Working
  <2>4. CASE run'[r].pc \in Over
    BY <2>1, <2>2, <2>4 DEF Queue!End, Working, Begun
  <2> QED BY <2>3, <2>4
<1>3. ASSUME StartThread \/ (MakeRun /\ ~OverlapsNext(xrun))
      PROVE  \E r \in Runs : Queue!Begin(r)
  <2>1. /\ xpc \in {"make", "wait"} /\ xrun \in Runs
        /\ \A r \in Runs : run[r].pc = "none" <=> r >= xrun
    BY <1>3 DEF StartThread, MakeRun, TypeOK, InHand, InOrder
  <2>2. /\ run'[xrun].pc = "begin"
        /\ \A q \in Runs \ {xrun} : run'[q].pc = run[q].pc
    BY <1>3, LoopSteps DEF Executor
  <2>3. Begun = 1..(xrun - 1)
    BY <2>1, QueueAssumption DEF Begun, Runs
  <2>4. Working \subseteq Overlaps \cap Unknowns
    BY <2>1 DEF Working, Joined
  <2>5. Begun' = Begun \cup {xrun}
    BY <2>1, <2>2 DEF Begun
  <2>6. Working' = Working \cup {xrun}
    BY <2>1, <2>2 DEF Working, Over
  <2> QED BY <2>1, <2>3, <2>4, <2>5, <2>6 DEF Queue!Begin, Begun, Working
<1>4. CASE Executor
  <2>1. CASE StartThread \/ (MakeRun /\ ~OverlapsNext(xrun))
    BY <2>1, <1>3
  <2>2. CASE ~(StartThread \/ (MakeRun /\ ~OverlapsNext(xrun)))
    BY <2>2, <1>1, <1>4, LoopSteps
  <2> QED BY <2>1, <2>2
<1>5. CASE UNCHANGED vars
  BY <1>1, <1>5 DEF vars
<1> QED BY <1>1, <1>2, <1>4, <1>5, HelperSteps, OperatorSteps DEF Next

\* Every queue, whatever its runs, faults and operator, is done in order: the executor
\* implements the abstract queue.
THEOREM ImplementsQueue == Spec => QueueOrder
<1>1. Init => Queue!Init
  <2>1. NewRun.pc = "none"
    BY DEF NewRun
  <2> QED BY <2>1 DEF Init, Queue!Init, Begun, Working, Over
<1>2. OrderInv /\ [Next]_vars => [Queue!Next]_<<Begun, Working>>
  BY NextQueue
<1> QED BY <1>1, <1>2, InitOrder, NextOrder, PTL
          DEF Spec, QueueOrder, Queue!Spec, Begun, Working

------------------------------------------------------------------------------
(* One save at a time *)

\* A queue of joined runs only.
NoOverlaps == Overlaps \cap Unknowns = {}

\* A saver is that of the run in hand, or of the last one, and then the event says so:
\* no run is made while it is there.
SaverAnnounced ==
    \A q \in Runs : run[q].saver # "no" =>
        /\ UseOverlapSave
        /\ run[q].pc \in {"saved", "finishing", "done"}
        /\ run[q].pc # "saved" => saveEvt
        /\ xpc \notin {"make", "wait", "overlap", "overlapping"}
        /\ xpc = "join" => q = xrun

SaveInv == OrderInv /\ SaveSerial /\ SaverAnnounced

\* Without overlaps the thread at work is the one the loop joins.
LEMMA AtWorkJoined ==
    ASSUME NoOverlaps, OrderInv, NEW r \in Runs, run[r].pc \notin Over
    PROVE  xpc = "join" /\ r = xrun
  BY DEF NoOverlaps, OrderInv, Joined

LEMMA InitSave == Init => SaveInv
<1>1. NewRun.saver = "no"
  BY DEF NewRun
<1> QED BY <1>1, InitOrder DEF Init, SaveInv, SaveSerial, SaverAnnounced

LEMMA ThreadSave ==
    ASSUME NoOverlaps, SaveInv, NEW r \in Runs, RunThread(r)
    PROVE  SaveSerial' /\ SaverAnnounced'
<1> USE DEF SaveInv
<1>1. xpc = "join" /\ r = xrun /\ xpc' = xpc /\ xrun' = xrun
  BY AtWorkJoined, ThreadSteps, ThreadLoop DEF ThreadEffect, OrderInv, loop
<1>2. ThreadEffect(r)
  BY ThreadSteps DEF OrderInv
<1>3. \A q \in Runs \ {r} : run[q].saver = "no" /\ run'[q].saver = "no"
  BY <1>1, <1>2 DEF SaverAnnounced, ThreadEffect
<1>4. CASE run'[r].saver = run[r].saver
  <2>1. ASSUME run[r].saver # "no"
        PROVE  /\ UseOverlapSave /\ run'[r].pc \in {"finishing", "done"} /\ saveEvt'
    BY <2>1, <1>2 DEF SaverAnnounced, ThreadEffect, At, Over
  <2> QED BY <1>1, <1>3, <1>4, <2>1 DEF SaveSerial, SaverAnnounced
<1>5. CASE UseOverlapSave /\ run'[r].pc = "saved"
  BY <1>1, <1>3, <1>5 DEF SaveSerial, SaverAnnounced
<1> QED BY <1>2, <1>4, <1>5 DEF ThreadEffect

LEMMA LoopSave ==
    ASSUME NoOverlaps, SaveInv, Executor
    PROVE  SaveSerial' /\ SaverAnnounced'
<1> USE DEF SaveInv
<1>1. /\ UNCHANGED saveEvt
      /\ \A q \in Runs : run'[q].saver = run[q].saver
  BY LoopSteps DEF OrderInv
<1>2. SaveSerial'
  BY <1>1 DEF SaveSerial
<1> SUFFICES ASSUME NEW q \in Runs, run[q].saver # "no"
             PROVE  /\ run'[q].pc = run[q].pc
                    /\ xpc' \notin {"make", "wait", "overlap", "overlapping"}
                    /\ xpc' = "join" => q = xrun'
  BY <1>1, <1>2 DEF SaverAnnounced
<1>3. run[q].pc \in Over \/ (xpc = "join" /\ q = xrun)
  BY AtWorkJoined
<1>4. xpc \notin {"make", "wait", "overlap", "overlapping"}
  BY DEF SaverAnnounced
<1>5. CASE xpc = "dvcwait"
  <2>1. run[q].pc # "saved" /\ UseOverlapSave /\ saveEvt
    BY <1>3, <1>5 DEF SaverAnnounced, Over
  <2>2. SaveTimesOut
    BY <1>5, <2>1 DEF Executor, LoopEnds, TakeRun, Pause, DelayOver, SaveCleared, MakeFails,
       MakeRun, StartThread, WaitForOverlap, OverlapOver, JoinRun, JoinCrashes, Drained,
       SaveAwaited
  <2>3. xpc' = "drain"
    BY <2>2 DEF SaveTimesOut
  <2> QED BY <2>2, <2>3, <1>5, LoopSteps DEF SaveTimesOut, StartThread, MakeRun, OrderInv
<1>6. CASE xpc # "dvcwait"
  <2>1. /\ xpc' \notin {"make", "wait", "overlap", "overlapping", "join"}
        /\ ~StartThread /\ ~MakeRun
    BY <1>4, <1>6 DEF Executor, LoopEnds, TakeRun, Pause, DelayOver, SaveCleared,
       SaveTimesOut, MakeFails, MakeRun, StartThread, WaitForOverlap, OverlapOver, JoinRun,
       JoinCrashes, Drained, AfterRun
  <2> QED BY <2>1, LoopSteps DEF OrderInv
<1> QED BY <1>5, <1>6

LEMMA NextSave == NoOverlaps /\ SaveInv /\ [Next]_vars => SaveInv'
<1> SUFFICES ASSUME NoOverlaps, SaveInv, [Next]_vars
             PROVE  SaveSerial' /\ SaverAnnounced'
  BY NextOrder DEF SaveInv
<1> USE DEF SaveInv
<1>1. ASSUME NEW r \in Runs, Equilibrated(r) \/ Saver(r)
      PROVE  SaveSerial' /\ SaverAnnounced'
  <2>1. /\ \A q \in Runs : run'[q].pc = run[q].pc
        /\ \A q \in Runs : run'[q].saver # "no" => run[q].saver # "no"
        /\ xpc' = xpc /\ xrun' = xrun
        /\ run'[r].saver # "no" \/ run[r].saver = "no" => saveEvt' = saveEvt
        /\ \A q \in Runs \ {r} : run'[q].saver = run[q].saver
    BY <1>1, HelperSteps, HelperLoop DEF OrderInv, loop
  <2>2. SaveSerial'
    BY <2>1 DEF SaveSerial
  <2>3. ASSUME NEW q \in Runs, run'[q].saver # "no" PROVE saveEvt' = saveEvt
    BY <2>1, <2>3 DEF SaveSerial
  <2> QED BY <2>1, <2>2, <2>3 DEF SaverAnnounced
<1>2. CASE Operator
  <2>1. /\ \A q \in Runs : run'[q].pc = run[q].pc /\ run'[q].saver = run[q].saver
        /\ UNCHANGED <<xpc, xrun, saveEvt>>
    BY <1>2, OperatorSteps DEF OrderInv, loop
  <2> QED BY <2>1 DEF SaveSerial, SaverAnnounced
<1>3. CASE UNCHANGED vars
  BY <1>3 DEF vars, loop, SaveSerial, SaverAnnounced
<1> QED BY <1>1, <1>2, <1>3, ThreadSave, LoopSave DEF Next

\* In a queue without overlapping runs no two saves are ever under way, whatever the
\* savers report, however they end and whenever the event is set.
THEOREM SavesSerial == NoOverlaps => (Spec => []SaveSerial)
<1> SUFFICES ASSUME NoOverlaps PROVE Spec => []SaveSerial
  OBVIOUS
<1>1. SaveInv /\ [Next]_vars => SaveInv'
  BY NextSave
<1>2. SaveInv => SaveSerial
  BY DEF SaveInv
<1> QED BY <1>1, <1>2, InitSave, PTL DEF Spec

------------------------------------------------------------------------------
(* Runs may overlap, extractions may not, as long as the operator aborts  *)
(* no run.                                                                 *)
(*                                                                         *)
(* While the executor is alive only the run in hand can be before the end  *)
(* of its extraction, and the loop lets go of it only when it is past it:  *)
(* by the signal of the equilibration, by its end, or because it is no     *)
(* longer alive, and then neither is the executor.  Once the executor is   *)
(* not alive no run passes a check, so at most the one that had passed it  *)
(* before still extracts.                                                  *)

\* Before the end of a run's extraction, and past the last check before it.
Before == {"begin", "check_start", "start", "check_extraction", "extraction", "extracting"}
Hot == {"extraction", "extracting"}

OneHot == \A q, r \in Runs : run[q].pc \in Hot /\ run[r].pc \in Hot => q = r

InTurn ==
    alive => \A r \in Runs : run[r].pc \in Before =>
        r = xrun /\ xpc \in {"overlap", "overlapping", "join"}

\* No equilibration and no signal before the extraction is over.
Unsignaled ==
    \A r \in Runs : run[r].pc \in Before \cup {"none"} =>
        run[r].eq = "no" /\ run[r].evt # "set"

\* The run whose overlap is waited for is alive until its extraction is over.
StaysAlive == alive /\ xpc = "overlapping" /\ run[xrun].pc \in Before => run[xrun].alive

ExtractInv == OrderInv /\ OneHot /\ InTurn /\ Unsignaled /\ StaysAlive

NoAborts == "abort" \notin UserActs

LEMMA InitExtract == Init => ExtractInv
<1>1. NewRun.pc = "none" /\ NewRun.eq = "no" /\ NewRun.evt = "none"
  BY DEF NewRun
<1> QED BY <1>1, InitOrder
        DEF Init, ExtractInv, OneHot, InTurn, Unsignaled, StaysAlive, Before, Hot

\* Canceling a run leaves its equilibration and its signal.
LEMMA CanceledSignal ==
    ASSUME NEW x \in RunRecords
    PROVE  CanceledRun(x).eq = x.eq /\ CanceledRun(x).evt = x.evt
  BY DEF CanceledRun, Finished, RunRecords

\* What a step of the thread of r does to the executor and to the other runs: it may
\* cancel them, but then the executor is not alive.
OthersLeft(r) ==
    /\ alive' => alive
    /\ \A q \in Runs \ {r} :
          /\ run'[q].pc = run[q].pc /\ run'[q].eq = run[q].eq /\ run'[q].evt = run[q].evt
          /\ alive' => run'[q].alive = run[q].alive

\* And to its own: it gets past the checks only while the executor is alive.
OwnTurn(r) ==
    run'[r].pc \in Before =>
        /\ run[r].pc \in Before
        /\ run'[r].pc \in Hot => run[r].pc \in Hot \/ alive
        /\ run'[r].eq = run[r].eq /\ run'[r].evt = run[r].evt
        /\ run[r].alive => run'[r].alive

LEMMA ThreadTurn ==
    ASSUME TypeOK, NEW r \in Runs, RunThread(r)
    PROVE  OthersLeft(r) /\ OwnTurn(r)
<1>0. run[r] \in RunRecords /\ run \in [Runs -> RunRecords]
  BY DEF TypeOK
<1>1. CASE BeginRun(r)
  <2>1. /\ run[r].pc = "begin" /\ run'[r].eq = run[r].eq /\ run'[r].evt = run[r].evt
        /\ run'[r].alive = run[r].alive /\ run'[r].pc = "check_start"
    BY <1>0, <1>1 DEF BeginRun, At, RunRecords
  <2>2. alive' = alive /\ \A q \in Runs \ {r} : run'[q] = run[q]
    BY <1>0, <1>1 DEF BeginRun, flags
  <2> QED BY <2>1, <2>2 DEF OthersLeft, OwnTurn, Before, Hot
<1>2. CASE Start(r)
  <2>1. /\ run[r].pc = "start" /\ run'[r].eq = run[r].eq /\ run'[r].evt = run[r].evt
        /\ run'[r].alive = TRUE /\ run'[r].pc = "check_extraction"
    BY <1>0, <1>2 DEF Start, At, RunRecords
  <2>2. alive' = alive /\ \A q \in Runs \ {r} : run'[q] = run[q]
    BY <1>0, <1>2 DEF Start, flags
  <2> QED BY <2>1, <2>2 DEF OthersLeft, OwnTurn, Before, Hot
<1>3. CASE Extract(r)
  <2>1. /\ run[r].pc = "extraction" /\ run'[r].eq = run[r].eq /\ run'[r].evt = run[r].evt
        /\ run'[r].alive = run[r].alive /\ run'[r].pc = "extracting"
    BY <1>0, <1>3 DEF Extract, At, RunRecords
  <2>2. alive' = alive /\ \A q \in Runs \ {r} : run'[q] = run[q]
    BY <1>0, <1>3 DEF Extract, flags
  <2> QED BY <2>1, <2>2 DEF OthersLeft, OwnTurn, Before, Hot
<1>4. CASE CheckStep(r)
  <2> DEFINE p == IF IsAlive /\ ~aborted THEN CheckedStep[run[r].pc] ELSE "closing"
  <2>1. /\ run[r].pc \in {"check_start", "check_extraction", "check_measurement", "check_post"}
        /\ Move(r, p) /\ alive' = alive
    BY <1>4 DEF CheckStep, CheckedStep, flags
  <2>2. /\ p \in Hot => alive
        /\ p \in Before => run[r].pc \in {"check_start", "check_extraction"}
    BY <2>1 DEF CheckedStep, IsAlive, Hot, Before
  <2> HIDE DEF p
  <2>3. /\ run'[r].pc = p /\ run'[r].eq = run[r].eq /\ run'[r].evt = run[r].evt
        /\ run'[r].alive = run[r].alive
    BY <1>0, <2>1 DEF Move, RunRecords
  <2>4. \A q \in Runs \ {r} : run'[q] = run[q]
    BY <1>0, <2>1 DEF Move
  <2> QED BY <2>1, <2>2, <2>3, <2>4 DEF OthersLeft, OwnTurn, Before
<1>5. CASE StepCheckTrips(r)
  <2> DEFINE y(q) == IF q \in Current THEN CanceledRun(run[q]) ELSE run[q]
  <2>1. \A q \in Runs : /\ y(q) \in RunRecords /\ y(q).pc = run[q].pc
                        /\ y(q).eq = run[q].eq /\ y(q).evt = run[q].evt
    BY <1>0, Terminated, CanceledSignal
  <2>2. /\ alive' = FALSE
        /\ run' = [q \in Runs |->
              IF q = r THEN [y(q) EXCEPT !.state = "failed", !.pc = "closing"] ELSE y(q)]
    BY <1>5, Zenon DEF StepCheckTrips
  <2> HIDE DEF y
  <2>3. run'[r] = [y(r) EXCEPT !.state = "failed", !.pc = "closing"]
    BY <2>2
  <2>4. run'[r].pc = "closing"
    BY <2>1, <2>3 DEF RunRecords
  <2>5. \A q \in Runs \ {r} : run'[q] = y(q)
    BY <2>2
  <2> QED BY <2>1, <2>2, <2>4, <2>5 DEF OthersLeft, OwnTurn, Before
<1>6. CASE PostRunCheckCancels(r)
  <2>1. /\ alive' = FALSE /\ run[r].pc = "finishing"
        /\ run' = [q \in Runs |-> IF q \in Current THEN CanceledRun(run[q]) ELSE run[q]]
    BY <1>6 DEF PostRunCheckCancels, CancelQueue, At
  <2>2. \A q \in Runs :
           run'[q].pc = run[q].pc /\ run'[q].eq = run[q].eq /\ run'[q].evt = run[q].evt
    BY <1>0, <2>1, Terminated, CanceledSignal
  <2> QED BY <2>1, <2>2 DEF OthersLeft, OwnTurn, Before
<1>7. CASE StartFails(r) \/ ExtractNotAlive(r) \/ ExtractionScriptDone(r) \/ PumpWaitOver(r)
           \/ PumpWaitRaises(r) \/ PostMeasured(r) \/ PostMeasurementFails(r) \/ MarkSaving(r)
  <2>1. alive' => alive
    BY <1>7 DEF StartFails, ExtractNotAlive, ExtractionScriptDone, PumpWaitOver,
       PumpWaitRaises, PostMeasured, PostMeasurementFails, MarkSaving, FailedStep, flags
  <2>2. /\ \A q \in Runs \ {r} : run'[q] = run[q]
        /\ run'[r].pc \in {"closing", "pumpwait", "check_measurement", "dead", "judge",
                           "finishing"}
    BY <1>0, <1>7 DEF StartFails, ExtractNotAlive, ExtractionScriptDone, PumpWaitOver,
       PumpWaitRaises, PostMeasured, PostMeasurementFails, MarkSaving, Move, RunRecords
  <2> QED BY <2>1, <2>2 DEF OthersLeft, OwnTurn, Before
<1>8. CASE Measure(r) \/ MeasureNothing(r) \/ Measured(r) \/ PostMeasure(r) \/ Judge(r)
           \/ Save(r)
  <2>1. alive' = alive
    BY <1>8 DEF Measure, MeasureNothing, Measured, PostMeasure, Judge, Save, flags
  <2>2. /\ \A q \in Runs \ {r} : run'[q] = run[q]
        /\ run'[r].pc \in {"measuring", "check_post", "closing", "posting", "saved"}
    BY <1>0, <1>8 DEF Measure, MeasureNothing, Measured, PostMeasure, Judge, Save, RunRecords
  <2> QED BY <2>1, <2>2 DEF OthersLeft, OwnTurn, Before
<1>9. CASE ExtractionFails(r) \/ MeasurementFails(r) \/ FinishRun(r)
  <2> DEFINE x == Finished(run[r])
  <2>1. x \in RunRecords
    BY <1>0, Terminated
  <2>2. alive' => alive
    BY <1>9 DEF ExtractionFails, MeasurementFails, FinishRun, FailedStep, flags
  <2>3. \/ run' = [run EXCEPT ![r] = [x EXCEPT !.state = "failed", !.pc = "closing"]]
        \/ run' = [run EXCEPT ![r] = [x EXCEPT !.pc = "check_post"]]
        \/ run' = [run EXCEPT ![r] = [x EXCEPT !.pc = "done"]]
    BY <1>9, Zenon DEF ExtractionFails, MeasurementFails, FinishRun
  <2> HIDE DEF x
  <2>4. /\ \A q \in Runs \ {r} : run'[q] = run[q]
        /\ run'[r].pc \in {"closing", "check_post", "done"}
    BY <1>0, <2>1, <2>3 DEF RunRecords
  <2> QED BY <2>2, <2>4 DEF OthersLeft, OwnTurn, Before
<1> QED BY <1>1, <1>2, <1>3, <1>4, <1>5, <1>6, <1>7, <1>8, <1>9 DEF RunThread

LEMMA ThreadExtract ==
    ASSUME ExtractInv, NEW r \in Runs, RunThread(r)
    PROVE  OneHot' /\ InTurn' /\ Unsignaled' /\ StaysAlive'
<1>1. /\ OthersLeft(r) /\ OwnTurn(r) /\ UNCHANGED <<xpc, xrun>> /\ run'[r].pc # "none"
      /\ Hot \subseteq Before
  BY ThreadTurn, ThreadSteps, ThreadLoop
     DEF ThreadEffect, ExtractInv, OrderInv, loop, Before, Hot
<1>2. OneHot'
  <2>1. ASSUME NEW q \in Runs \ {r}, run[q].pc \in Hot, run'[r].pc \in Hot PROVE FALSE
    <3>1. run[r].pc \in Before
      BY <1>1, <2>1 DEF OwnTurn
    <3>2. run[r].pc \in Hot \/ alive
      BY <1>1, <2>1 DEF OwnTurn
    <3> QED BY <1>1, <2>1, <3>1, <3>2 DEF ExtractInv, OneHot, InTurn
  <2> QED BY <1>1, <2>1 DEF ExtractInv, OneHot, OthersLeft
<1>3. InTurn'
  BY <1>1 DEF ExtractInv, InTurn, OthersLeft, OwnTurn
<1>4. Unsignaled'
  BY <1>1 DEF ExtractInv, Unsignaled, OthersLeft, OwnTurn
<1>5. StaysAlive'
  <2> SUFFICES ASSUME alive', xpc = "overlapping", run'[xrun].pc \in Before
               PROVE  run'[xrun].alive
    BY <1>1 DEF StaysAlive
  <2>1. xrun \in Runs
    BY DEF ExtractInv, OrderInv, TypeOK, InHand
  <2> QED BY <1>1, <2>1 DEF ExtractInv, StaysAlive, OthersLeft, OwnTurn
<1> QED BY <1>2, <1>3, <1>4, <1>5

\* The equilibration begins after the extraction, and the saver signals nothing.
LEMMA HelperExtract ==
    ASSUME ExtractInv, NEW r \in Runs, Equilibrated(r) \/ Saver(r)
    PROVE  OneHot' /\ InTurn' /\ Unsignaled' /\ StaysAlive'
<1>1. run \in [Runs -> RunRecords] /\ run[r] \in RunRecords
  BY DEF ExtractInv, OrderInv, TypeOK
<1>2. \A q \in Runs : /\ run'[q].pc = run[q].pc /\ run'[q].alive = run[q].alive
                      /\ q # r => run'[q].eq = run[q].eq /\ run'[q].evt = run[q].evt
  BY <1>1 DEF Equilibrated, Saver, SaverReports, SaverDone, SaverDies, RunRecords
<1>3. UNCHANGED <<alive, xpc, xrun>>
  BY HelperLoop DEF Equilibrated, Saver, SaverReports, SaverDone, SaverDies, flags, loop
<1>4. run[r].pc \in Before \cup {"none"} => run'[r].eq = run[r].eq /\ run'[r].evt = run[r].evt
  BY <1>1 DEF ExtractInv, Unsignaled, Equilibrated, Saver, SaverReports, SaverDone,
     SaverDies, RunRecords
<1>5. xpc = "overlapping" => xrun \in Runs
  BY DEF ExtractInv, OrderInv, TypeOK, InHand
<1> QED BY <1>2, <1>3, <1>4, <1>5 DEF ExtractInv, OneHot, InTurn, Unsignaled, StaysAlive

\* A cancel leaves the executor dead; nothing else the operator does reaches the runs.
LEMMA OperatorExtract ==
    ASSUME NoAborts, ExtractInv, Operator
    PROVE  OneHot' /\ InTurn' /\ Unsignaled' /\ StaysAlive'
<1>1. UNCHANGED <<xpc, xrun>> /\ run \in [Runs -> RunRecords]
  BY OperatorSteps DEF ExtractInv, OrderInv, TypeOK, loop
<1>2. CASE ConfirmCancel
  <2>1. alive' = FALSE
    BY <1>2 DEF ConfirmCancel, CancelQueue
  <2>2. \A q \in Runs :
           run'[q].pc = run[q].pc /\ run'[q].eq = run[q].eq /\ run'[q].evt = run[q].evt
    BY <1>1, <1>2, Terminated, CanceledSignal DEF ConfirmCancel, CancelQueue
  <2> QED BY <2>1, <2>2 DEF ExtractInv, OneHot, InTurn, Unsignaled, StaysAlive
<1>3. CASE ~ConfirmCancel
  <2>1. AskCancel \/ DeclineCancel \/ SetEndAt
    BY <1>3 DEF Operator, AbortRun, Act, NoAborts
  <2>2. run' = run
    BY <2>1 DEF AskCancel, DeclineCancel, SetEndAt
  <2>3. alive' => alive
    BY <2>1, Zenon DEF AskCancel, DeclineCancel, SetEndAt, flags
  <2> QED BY <1>1, <2>2, <2>3 DEF ExtractInv, OneHot, InTurn, Unsignaled, StaysAlive
<1> QED BY <1>2, <1>3

\* The loop lets go of a run only past its extraction, and begins one only then.
LEMMA LoopExtract ==
    ASSUME ExtractInv, Executor
    PROVE  OneHot' /\ InTurn' /\ Unsignaled' /\ StaysAlive'
<1> USE DEF ExtractInv
<1>0. run \in [Runs -> RunRecords] /\ (xpc \in InHand => xrun \in Runs) /\ TypeOK
  BY DEF OrderInv, TypeOK
<1>1. CASE LoopEnds \/ TakeRun \/ Pause \/ DelayOver \/ SaveCleared \/ MakeFails \/ Drained
  <2>1. /\ run' = run /\ (alive' => alive) /\ xpc' # "overlapping"
        /\ xpc \notin {"overlap", "overlapping", "join"}
    BY <1>1 DEF LoopEnds, TakeRun, Pause, DelayOver, SaveCleared, MakeFails, Drained, flags
  <2> QED BY <2>1 DEF OneHot, InTurn, Unsignaled, StaysAlive
<1>2. CASE SaveTimesOut
  <2>1. \A q \in Runs : /\ run'[q].pc = run[q].pc /\ run'[q].eq = run[q].eq
                        /\ run'[q].evt = run[q].evt
    BY <1>0, <1>2 DEF SaveTimesOut, RunRecords
  <2>2. UNCHANGED alive /\ xpc = "dvcwait" /\ xpc' = "drain"
    BY <1>2 DEF SaveTimesOut, flags
  <2> QED BY <2>1, <2>2 DEF OneHot, InTurn, Unsignaled, StaysAlive
<1>3. CASE MakeRun \/ StartThread
  <2>1. /\ UNCHANGED <<alive, xrun>> /\ xpc \in {"make", "wait"} /\ xrun \in Runs
        /\ xpc' \in {"wait", "overlap", "join"}
        /\ run[xrun].pc = "none"
    BY <1>0, <1>3 DEF MakeRun, StartThread, flags, InHand, OrderInv, InOrder, Runs
  <2>2. /\ \A q \in Runs \ {xrun} : run'[q] = run[q]
        /\ run'[xrun].eq = run[xrun].eq /\ run'[xrun].evt = run[xrun].evt
        /\ \/ run'[xrun].pc = run[xrun].pc
           \/ run'[xrun].pc = "begin" /\ xpc' \in {"overlap", "join"}
    <3> DEFINE made == [run[xrun] EXCEPT !.first = firstFlag, !.pump = pump]
    <3>1. made \in RunRecords
      BY <1>0, <2>1, Zenon DEF RunRecords, TypeOK
    <3>2. made.eq = run[xrun].eq /\ made.evt = run[xrun].evt /\ made.pc = run[xrun].pc
      BY <1>0, <2>1 DEF RunRecords
    <3>3. \/ run' = [run EXCEPT ![xrun] = made]
          \/ /\ run' = [run EXCEPT ![xrun] = [made EXCEPT !.pc = "begin"]]
             /\ xpc' = "join"
          \/ run' = [run EXCEPT ![xrun].pc = "begin"] /\ xpc' = "overlap"
      BY <1>3 DEF MakeRun, StartThread
    <3> HIDE DEF made
    <3> QED BY <1>0, <2>1, <3>1, <3>2, <3>3 DEF RunRecords
  <2> QED BY <2>1, <2>2 DEF OneHot, InTurn, Unsignaled, StaysAlive, Before, Hot
<1>4. CASE WaitForOverlap
  <2>1. UNCHANGED <<alive, xrun>> /\ xpc = "overlap" /\ xpc' = "overlapping" /\ xrun \in Runs
    BY <1>0, <1>4 DEF WaitForOverlap, flags, InHand
  <2>2. /\ \A q \in Runs \ {xrun} : run'[q] = run[q]
        /\ run'[xrun].pc = run[xrun].pc /\ run'[xrun].eq = run[xrun].eq
        /\ run'[xrun].evt = "clear" /\ run'[xrun].alive = TRUE
    BY <1>0, <1>4, <2>1 DEF WaitForOverlap, RunRecords
  <2> QED BY <2>1, <2>2 DEF OneHot, InTurn, Unsignaled, StaysAlive
<1>5. CASE OverlapOver \/ JoinRun \/ JoinCrashes
  <2>1. /\ run' = run /\ UNCHANGED alive /\ xpc' # "overlapping"
        /\ xpc \in {"overlapping", "join"} /\ xrun \in Runs
    BY <1>0, <1>5 DEF OverlapOver, JoinRun, JoinCrashes, AfterRun, flags, InHand
  <2>2. alive => run[xrun].pc \notin Before
    BY <1>5, <2>1 DEF OverlapOver, JoinRun, JoinCrashes, OverlapSignaled, StaysAlive,
       Unsignaled, Before
  <2> QED BY <2>1, <2>2 DEF OneHot, InTurn, Unsignaled, StaysAlive
<1> QED BY <1>1, <1>2, <1>3, <1>4, <1>5 DEF Executor

LEMMA NextExtract == NoAborts /\ ExtractInv /\ [Next]_vars => ExtractInv'
<1> SUFFICES ASSUME NoAborts, ExtractInv, [Next]_vars
             PROVE  OneHot' /\ InTurn' /\ Unsignaled' /\ StaysAlive'
  BY NextOrder DEF ExtractInv
<1>1. CASE UNCHANGED vars
  BY <1>1 DEF vars, flags, loop, ExtractInv, OneHot, InTurn, Unsignaled, StaysAlive
<1> QED BY <1>1, ThreadExtract, HelperExtract, OperatorExtract, LoopExtract DEF Next

\* Where no run is aborted, no two extraction scripts ever run at once, whichever runs
\* overlap, whatever fails and whoever cancels.
THEOREM ExtractionsApart == NoAborts => (Spec => []OneExtraction)
<1> SUFFICES ASSUME NoAborts PROVE Spec => []OneExtraction
  OBVIOUS
<1>1. ExtractInv /\ [Next]_vars => ExtractInv'
  BY NextExtract
<1>2. ExtractInv => OneExtraction
  BY DEF ExtractInv, OneHot, OneExtraction, Hot, At
<1> QED BY <1>1, <1>2, InitExtract, PTL DEF Spec
====
