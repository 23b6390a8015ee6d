---- MODULE Measurement ----
(***************************************************************************)
(* The measurement of a run: the script's commands, the collector that     *)
(* takes one count after the other, the conditionals that cut it short,    *)
(* the readings and the valves that fail, and what the operator does       *)
(* meanwhile: cancel, abort, truncate, change the number of counts.        *)
(*                                                                         *)
(* The script runs on the thread of the run; the operator's calls run on   *)
(* another one and look up the collector anew at each use: the one of the  *)
(* peak hops while a peak hop is measured, else that of the                *)
(* multicollection.  Post equilibration and post measurement scripts, of   *)
(* any length, run in the middle of a cancel or an abort.                  *)
(***************************************************************************)
EXTENDS Naturals, Sequences

CONSTANTS
    Commands,    \* the measurements of the script, one after the other
    Threshold,   \* failed_intensity_count_threshold
    Trips,       \* the kinds of conditionals the run has
    Failures,    \* the spectrometer and the valves may fail
    SaveAll,     \* preference save_all_runs
    Acts,        \* what the operator may do
    MaxActs      \* bound: how often he does it

Collectors == {"multi", "hop"}
AllTrips == {"truncation", "action", "resume", "termination", "cancelation"}
AllActs == {"queue", "abort", "truncate", "quick", "counts"}

(* A command measures with a collector, for so many counts or hops.        *)
ASSUME MeasurementAssumption ==
    /\ Commands \in Seq([by : Collectors, counts : Nat])
    /\ Threshold \in Nat \ {0}
    /\ Trips \subseteq AllTrips /\ Acts \subseteq AllActs
    /\ Failures \in BOOLEAN /\ SaveAll \in BOOLEAN
    /\ MaxActs \in Nat

VARIABLES
    pc,        \* where the run's thread stands
    at,        \* the script's command
    script,    \* the measurement script: its flags, its ncounts and whether
               \* its abbreviated_count_ratio is set
    run,       \* the run: its flags, its state, is_peak_hop
    col,       \* its collectors
    user,      \* plot_panel.ncounts, what the user asks for
    counts,    \* ncounts of the measurement under way
    i,         \* its next count
    hop,       \* the hops it has made
    misses,    \* the readings without an answer in a row
    queue,     \* executor.alive and _aborted
    calls,     \* the operator's cancel or abort that is under way
    acts,      \* bound: what the operator did
    seen       \* history: the run was stopped, when stop was called and the
               \* counts since, two at most; an action or an answer that
               \* made no sense cut the measurement under way short; without
               \* either a multicollection came back without all its counts

threads == <<pc, at, script>>
measured == <<user, counts, i, hop, misses>>
vars == <<threads, run, col, measured, queue, calls, acts, seen>>

NewCollector == [canceled |-> FALSE, terminated |-> FALSE, alive |-> FALSE,
                 evt |-> "none", truncate |-> FALSE]

(* After start, at the beginning of the measurement step.                  *)
Init ==
    /\ pc = "step" /\ at = 1
    /\ script = [cancel |-> FALSE, abort |-> FALSE, counts |-> 0, short |-> FALSE]
    /\ run = [alive |-> TRUE, aborted |-> FALSE, measuring |-> FALSE, measured |-> FALSE,
              hopping |-> FALSE, state |-> "extraction", saved |-> FALSE]
    /\ col = [k \in Collectors |-> NewCollector]
    /\ user = 0 /\ counts = 0 /\ i = 1 /\ hop = 0 /\ misses = 0
    /\ queue = [alive |-> TRUE, aborted |-> FALSE]
    /\ calls = "none" /\ acts = 0
    /\ seen = [stopped |-> FALSE, told |-> "no", late |-> 0, cut |-> FALSE, short |-> FALSE]

(* _get_collector                                                          *)
Collector == IF run.hopping THEN "hop" ELSE "multi"

(* The collector of the thread's command, which is m in _measure           *)
Mine == Commands[at].by

InLoop == pc \in {"loop", "check", "hop", "acquire"}

Goto(label) == pc' = label /\ UNCHANGED <<at, script>>

(* The steps of a command                                                  *)
AtCommand == {"called", "setup", "measure", "arm", "loop", "check", "hop", "acquire",
              "giveup", "after", "terminating", "aftercancel", "canceling"}
States == {"extraction", "measurement", "success", "truncated", "canceled", "terminated",
           "aborted", "failed"}

----------------------------------------------------------------------------
(* cancel_run and abort_run.                                               *)
Settled == {"not run", "canceled", "success", "truncated", "aborted"}

\* Mutant: cancel_run leaves the scripts alone.
BeginCancelCollector ==
    /\ col' = [col EXCEPT ![Collector].canceled = TRUE]
    /\ script' = script

(* The first half of cancel_run: the collector and the scripts are         *)
(* canceled; the scripts of the end, with their waits, are next.           *)
BeginCancel ==
    /\ col' = [col EXCEPT ![Collector].canceled = TRUE]
    /\ script' = [script EXCEPT !.cancel = TRUE]

\* Mutant: the run stops and its collector is not told.
StopUntold(k) == UNCHANGED col

(* stop: the collector is told twice, by its flag and its event.           *)
Stop(k) ==
    col' = [col EXCEPT ![k].alive = FALSE,
                       ![k].evt = IF @ = "none" THEN @ ELSE "set"]

Told ==
    IF InLoop /\ seen.told # "loop"
    THEN [seen EXCEPT !.told = "loop", !.late = 0]
    ELSE [seen EXCEPT !.told = IF @ = "no" THEN "gap" ELSE @]

(* finish, which leaves a state that is settled, and stops.                *)
Finished(r) ==
    [r EXCEPT !.alive = FALSE, !.state = IF @ \in Settled THEN @ ELSE "failed"]

(* The second half of cancel_run: stop, finish and, if there is one, the   *)
(* new state.                                                              *)
EndCancel(state) ==
    /\ Stop(Collector)
    /\ run' = [Finished(run) EXCEPT !.state = IF state = "none" THEN @ ELSE state]
    /\ seen' = Told

----------------------------------------------------------------------------
(* The thread of the run.                                                  *)
(* do_measurement                                                          *)
StartMeasurement ==
    /\ pc = "step"
    /\ Goto(IF run.alive THEN "boot" ELSE "failed")
    /\ run' = IF run.alive THEN [run EXCEPT !.state = "measurement", !.measuring = TRUE]
                           ELSE run
    /\ UNCHANGED <<col, measured, queue, calls, acts, seen>>

(* _execute of the script takes back a cancel from before.                 *)
Boot ==
    /\ pc = "boot"
    /\ pc' = "command" /\ at' = at
    /\ script' = [script EXCEPT !.cancel = FALSE]
    /\ UNCHANGED <<run, col, measured, queue, calls, acts, seen>>

(* The counts of a command: of a multicollection a quarter once the ratio  *)
(* is set, whose fraction makes no difference to i, of a peak hop more     *)
(* than it has hops, since it counts the settling as well.                 *)
CountsOf(c) ==
    IF c.by = "hop" THEN c.counts + 1
    ELSE IF script.short THEN c.counts \div 4 ELSE c.counts

(* The next command, unless the decorator skips it.                        *)
Call ==
    /\ pc = "command" /\ at <= Len(Commands)
    /\ ~script.cancel /\ ~script.abort
    /\ pc' = "called" /\ at' = at
    /\ script' = [script EXCEPT !.counts = CountsOf(Commands[at])]
    /\ counts' = CountsOf(Commands[at])
    /\ UNCHANGED <<user, i, hop, misses, run, col, queue, calls, acts, seen>>

Skip ==
    /\ pc = "command" /\ at <= Len(Commands)
    /\ script.cancel \/ script.abort
    /\ at' = at + 1
    /\ UNCHANGED <<pc, script, run, col, measured, queue, calls, acts, seen>>

(* equilibrate, which may stand anywhere between the measurements: a valve *)
(* that does not close or open cancels the run, on its own thread, and     *)
(* then the script.                                                        *)
ValveFails ==
    /\ pc = "command" /\ Failures
    /\ ~script.cancel /\ ~script.abort
    /\ pc' = "valve" /\ at' = at
    /\ BeginCancel
    /\ seen' = [seen EXCEPT !.stopped = TRUE]
    /\ UNCHANGED <<run, measured, queue, calls, acts>>

EndValveFails ==
    /\ pc = "valve"
    /\ pc' = "command" /\ at' = at
    /\ script' = [script EXCEPT !.cancel = TRUE]
    /\ Stop(Collector)
    /\ run' = [Finished(run) EXCEPT !.state = "canceled"]
    /\ seen' = Told
    /\ UNCHANGED <<measured, queue, calls, acts>>

(* py_data_collection, py_baselines, py_peak_hop: a run that is not alive  *)
(* measures nothing, which cancels the script.                             *)
Enter ==
    /\ pc = "called"
    /\ IF run.alive
       THEN /\ pc' = "setup" /\ UNCHANGED <<at, script>>
       ELSE /\ pc' = "command" /\ at' = at + 1
            /\ script' = [script EXCEPT !.cancel = TRUE]
    /\ UNCHANGED <<run, col, measured, queue, calls, acts, seen>>

\* Mutant: a peak hop is not noted, its collector is not the run's.
SetupUnnoted ==
    /\ pc = "setup"
    /\ Goto("measure")
    /\ user' = counts /\ hop' = 0 /\ misses' = 0
    /\ UNCHANGED <<counts, i, run, col, queue, calls, acts, seen>>

(* _measure sets the collector and the plot panel up.                      *)
Setup ==
    /\ pc = "setup"
    /\ Goto("measure")
    /\ run' = [run EXCEPT !.hopping = Mine = "hop"]
    /\ user' = counts /\ hop' = 0 /\ misses' = 0
    /\ UNCHANGED <<counts, i, col, queue, calls, acts, seen>>

(* measure of the collector, which does nothing if it is canceled.         *)
Measure ==
    /\ pc = "measure"
    /\ IF col[Mine].canceled
       THEN Goto("after") /\ UNCHANGED col
       ELSE /\ Goto("arm")
            /\ col' = [col EXCEPT ![Mine].terminated = FALSE, ![Mine].truncate = FALSE]
    /\ UNCHANGED <<run, measured, queue, calls, acts, seen>>

(* It is alive and has a new event, whatever it was told before.           *)
Arm ==
    /\ pc = "arm"
    /\ Goto("loop")
    /\ col' = [col EXCEPT ![Mine].alive = TRUE, ![Mine].evt = "clear"]
    /\ i' = 1
    /\ UNCHANGED <<user, counts, hop, misses, run, queue, calls, acts, seen>>

(* while not evt.is_set()                                                  *)
Loop ==
    /\ pc = "loop"
    /\ Goto(IF col[Mine].evt = "set" THEN "after" ELSE "check")
    /\ UNCHANGED <<run, col, measured, queue, calls, acts, seen>>

(* _check_iteration.  The counts the user asks for come first, then those  *)
(* of the script, then those the measurement began with.                   *)
OutOfCounts ==
    IF user # counts THEN i > user
    ELSE IF script.counts # counts THEN i > script.counts ELSE i > counts

\* Mutant: a run that is cut short does not say so.
Unlabelled == run

Truncated == [run EXCEPT !.state = "truncated"]

LeaveLoop(r, c) ==
    /\ pc' = "after" /\ at' = at
    /\ run' = r
    /\ col' = [col EXCEPT ![Mine] = [c EXCEPT !.evt = "set"]]

Break(r, c) == LeaveLoop(r, c) /\ UNCHANGED script

CheckCounts ==
    /\ pc = "check"
    /\ LET c == col[Mine]
       IN  \/ /\ ~c.alive
              /\ Break(run, [c EXCEPT !.canceled = TRUE])
           \/ /\ c.alive /\ OutOfCounts
              /\ Break(IF user = counts /\ script.counts = counts THEN run ELSE Truncated, c)
           \/ /\ c.alive /\ ~OutOfCounts /\ c.truncate
              /\ Break(Truncated, [c EXCEPT !.truncate = FALSE])
           \/ /\ c.alive /\ ~OutOfCounts /\ ~c.truncate
              /\ Goto("hop") /\ UNCHANGED <<run, col>>
    /\ UNCHANGED <<measured, queue, calls, acts, seen>>

(* A conditional trips: the counts are not used up and the collector was   *)
(* not told to stop.  An equilibration or a modification that trips is a   *)
(* truncation or a termination too, or, as an action that resumes, lets    *)
(* the measurement go on.                                                  *)
Trip(kind) ==
    /\ pc = "check" /\ kind \in Trips
    /\ col[Mine].alive /\ ~OutOfCounts /\ ~col[Mine].truncate
    /\ LET c == col[Mine]
       IN  \/ /\ kind = "truncation" /\ LeaveLoop(Truncated, c)
              /\ \E short \in BOOLEAN : script' = [script EXCEPT !.short = short]
           \/ kind = "action" /\ Break(run, c)
           \/ kind = "resume" /\ Goto("hop") /\ UNCHANGED <<run, col>>
           \/ kind = "termination" /\ Break(run, [c EXCEPT !.terminated = TRUE])
           \/ kind = "cancelation" /\ Break(run, [c EXCEPT !.canceled = TRUE])
    /\ seen' = [seen EXCEPT !.stopped = @ \/ kind \in {"termination", "cancelation"},
                            !.cut = @ \/ kind = "action"]
    /\ UNCHANGED <<measured, queue, calls, acts>>

(* _pre_trigger_hook: a peak hop makes its next hop, whether the last one  *)
(* gave a reading or not, and is over when it has made them all.           *)
Trigger ==
    /\ pc = "hop"
    /\ \/ /\ Mine = "hop" /\ hop >= Commands[at].counts
          /\ Break(run, col[Mine])
          /\ UNCHANGED hop
       \/ /\ Mine = "hop" => hop < Commands[at].counts
          /\ Goto("acquire")
          /\ hop' = IF Mine = "hop" THEN hop + 1 ELSE hop
          /\ UNCHANGED <<run, col>>
    /\ UNCHANGED <<user, counts, i, misses, queue, calls, acts, seen>>

Count ==
    /\ pc = "acquire"
    /\ Goto("loop")
    /\ i' = i + 1 /\ misses' = 0
    /\ UNCHANGED <<user, counts, hop, run, queue, calls, acts>>

Later == IF seen.told # "no" /\ seen.late < 2 THEN seen.late + 1 ELSE seen.late

(* One count is acquired, and its data are kept; ...                       *)
Acquire ==
    /\ Count
    /\ seen' = [seen EXCEPT !.late = Later]
    /\ UNCHANGED col

(* ... or, of the baselines of a peak hop, it lacks the detector of an     *)
(* isotope: the collector cancels and stops itself; ...                    *)
Missing ==
    /\ Count /\ Failures /\ Mine = "multi"
    /\ col' = [col EXCEPT ![Mine].canceled = TRUE, ![Mine].alive = FALSE, ![Mine].evt = "set"]
    /\ seen' = [seen EXCEPT !.late = Later, !.stopped = TRUE]

(* ... or the answer makes no sense, an AttributeError, a TypeError or a   *)
(* ValueError: the measurement is over, and nothing says why; ...          *)
Garbled ==
    /\ pc = "acquire" /\ Failures
    /\ Break(run, col[Mine])
    /\ seen' = [seen EXCEPT !.cut = TRUE]
    /\ UNCHANGED <<measured, queue, calls, acts>>

\* Mutant: the readings without an answer are not counted.
RetryForever ==
    /\ pc = "acquire" /\ Failures
    /\ Goto("loop")
    /\ UNCHANGED <<measured, run, col, queue, calls, acts, seen>>

(* ... or the spectrometer gives no intensity: it is asked again, so many  *)
(* times.                                                                  *)
Retry ==
    /\ pc = "acquire" /\ Failures
    /\ misses + 1 < Threshold
    /\ misses' = misses + 1
    /\ Goto("loop")
    /\ UNCHANGED <<user, counts, i, hop, run, col, queue, calls, acts, seen>>

(* save: what the persisters write of a run that was measured and was not  *)
(* aborted.                                                                *)
Save(r) == [r EXCEPT !.saved = @ \/ (r.measured /\ ~r.aborted)]

(* The last time, or whenever the intensities have not changed for too     *)
(* long: the run is saved, and canceled as failed.                         *)
GiveUp ==
    /\ pc = "acquire" /\ Failures
    /\ pc' = "giveup" /\ at' = at
    /\ run' = Save(run)
    /\ BeginCancel
    /\ seen' = [seen EXCEPT !.stopped = TRUE]
    /\ UNCHANGED <<measured, queue, calls, acts>>

EndGiveUp ==
    /\ pc = "giveup"
    /\ Goto("after")
    /\ EndCancel("failed")
    /\ UNCHANGED <<measured, queue, calls, acts>>

(* The end of _measure: a terminated collector cancels the run, ...        *)
Terminate ==
    /\ pc = "after" /\ col[Mine].terminated
    /\ pc' = "terminating" /\ at' = at
    /\ BeginCancel
    /\ UNCHANGED <<run, measured, queue, calls, acts, seen>>

EndTerminate ==
    /\ pc = "terminating"
    /\ Goto("aftercancel")
    /\ EndCancel("terminated")
    /\ UNCHANGED <<measured, queue, calls, acts>>

(* ... a canceled one, which that one now is, the run and the queue.       *)
Cancel ==
    /\ (pc = "after" /\ ~col[Mine].terminated) \/ pc = "aftercancel"
    /\ col[Mine].canceled
    /\ pc' = "canceling" /\ at' = at
    /\ BeginCancel
    /\ UNCHANGED <<run, measured, queue, calls, acts, seen>>

(* The command's result is false then, which cancels the script.           *)
EndCancelQueue ==
    /\ pc = "canceling"
    /\ pc' = "command" /\ at' = at + 1
    /\ script' = [script EXCEPT !.cancel = TRUE]
    /\ Stop(Collector)
    /\ run' = [Finished(run) EXCEPT !.state = "canceled", !.hopping = FALSE]
    /\ seen' = Told
    /\ queue' = [queue EXCEPT !.alive = FALSE]
    /\ UNCHANGED <<measured, calls, acts>>

Return ==
    /\ pc = "after" /\ ~col[Mine].terminated /\ ~col[Mine].canceled
    /\ pc' = "command" /\ at' = at + 1 /\ script' = script
    /\ run' = [run EXCEPT !.hopping = FALSE]
    /\ seen' = [seen EXCEPT !.short = @ \/ (Mine = "multi" /\ i <= counts /\ ~seen.cut),
                            !.cut = FALSE]
    /\ UNCHANGED <<col, measured, queue, calls, acts>>

(* The end of the script.  An aborted one counts as completed.             *)
EndScript ==
    /\ pc = "command" /\ at > Len(Commands)
    /\ IF script.cancel
       THEN /\ Goto(IF run.aborted THEN "measured" ELSE "failed")
            /\ run' = [Finished(run) EXCEPT !.measuring = FALSE]
            /\ Stop(Collector)
       ELSE /\ Goto("measured")
            /\ run' = [run EXCEPT !.measuring = FALSE, !.measured = TRUE]
            /\ UNCHANGED col
    /\ UNCHANGED <<measured, queue, calls, acts, seen>>

(* The executor's thread of the run: a failed step ends the queue, unless  *)
(* it was canceled as a whole; a run that went through its steps is a      *)
(* success unless its state says otherwise; and it is saved.               *)
Judge ==
    /\ pc \in {"measured", "failed"}
    /\ Goto("over")
    /\ LET through == pc = "measured" /\ queue.alive /\ ~queue.aborted
           state == IF pc = "failed" THEN "failed"
                    ELSE IF through /\ run.state \notin {"truncated", "canceled", "failed"}
                    THEN "success" ELSE run.state
           r == [run EXCEPT !.state = state]
       IN  run' = IF SaveAll \/ state \in {"success", "truncated"} THEN Save(r) ELSE r
    /\ queue' = [queue EXCEPT !.alive = @ /\ pc = "measured"]
    /\ UNCHANGED <<col, measured, calls, acts, seen>>

Thread ==
    \/ StartMeasurement \/ Boot \/ Call \/ Skip \/ ValveFails \/ EndValveFails
    \/ Enter \/ Setup \/ Measure \/ Arm
    \/ Loop \/ CheckCounts \/ (\E kind \in AllTrips : Trip(kind))
    \/ Trigger \/ Acquire \/ Missing \/ Garbled \/ Retry \/ GiveUp \/ EndGiveUp
    \/ Terminate \/ EndTerminate \/ Cancel \/ EndCancelQueue \/ Return
    \/ EndScript \/ Judge

----------------------------------------------------------------------------
(* The operator, until the script has come to its end.                     *)
Act(a) ==
    /\ a \in Acts /\ acts < MaxActs /\ acts' = acts + 1
    /\ pc \notin {"measured", "failed", "over"}

(* executor._cancel: the queue, and the run that is measured.              *)
OperatorCancel ==
    /\ Act("queue") /\ calls = "none"
    /\ calls' = "queue"
    /\ queue' = [queue EXCEPT !.alive = FALSE]
    /\ BeginCancel
    /\ seen' = [seen EXCEPT !.stopped = TRUE]
    /\ UNCHANGED <<pc, at, run, measured>>

OperatorAbort ==
    /\ Act("abort") /\ calls = "none"
    /\ calls' = "abort"
    /\ queue' = [queue EXCEPT !.aborted = TRUE]
    /\ run' = [run EXCEPT !.aborted = TRUE]
    /\ script' = [script EXCEPT !.abort = TRUE]
    /\ seen' = [seen EXCEPT !.stopped = TRUE]
    /\ UNCHANGED <<pc, at, col, measured>>

(* The scripts of the end are over.                                        *)
OperatorEnds ==
    /\ calls # "none"
    /\ EndCancel([queue |-> "none", abort |-> "aborted"][calls])
    /\ calls' = "none"
    /\ UNCHANGED <<threads, measured, queue, acts>>

TruncateRun(style) ==
    /\ Act(style) /\ style \in {"truncate", "quick"}
    /\ run.measuring
    /\ script' = [script EXCEPT !.short = @ \/ style = "quick"]
    /\ col' = [col EXCEPT ![Collector].truncate = TRUE]
    /\ run' = Truncated
    /\ UNCHANGED <<pc, at, measured, queue, calls, seen>>

(* The counts in the plot panel                                            *)
ChangeCounts ==
    /\ Act("counts") /\ InLoop
    /\ \E n \in {counts + 1, 1} : user' = n
    /\ UNCHANGED <<threads, run, col, counts, i, hop, misses, queue, calls, seen>>

Operator ==
    \/ OperatorCancel \/ OperatorAbort \/ OperatorEnds
    \/ TruncateRun("truncate") \/ TruncateRun("quick") \/ ChangeCounts

Next == Thread \/ Operator

(* The thread goes on and the scripts of a cancel end.                     *)
Spec == Init /\ [][Next]_vars /\ WF_vars(Thread) /\ WF_vars(OperatorEnds)

----------------------------------------------------------------------------
(* The records are what they are said to be, and a collector is looked at  *)
(* only while the script is at one of its commands.                        *)
TypeOK ==
    /\ pc \in {"step", "boot", "command", "valve"} \cup AtCommand \cup {"measured", "failed", "over"}
    /\ at \in 1..(Len(Commands) + 1)
    /\ pc \in AtCommand => at <= Len(Commands)
    /\ script \in [cancel : BOOLEAN, abort : BOOLEAN, counts : Nat, short : BOOLEAN]
    /\ run \in [alive : BOOLEAN, aborted : BOOLEAN, measuring : BOOLEAN, measured : BOOLEAN,
                hopping : BOOLEAN, state : States, saved : BOOLEAN]
    /\ col \in [Collectors -> [canceled : BOOLEAN, terminated : BOOLEAN, alive : BOOLEAN,
                               evt : {"none", "clear", "set"}, truncate : BOOLEAN]]
    /\ InLoop => Collector = Mine
    /\ user \in Nat /\ counts \in Nat /\ i \in Nat /\ hop \in Nat /\ misses \in 0..Threshold
    /\ queue \in [alive : BOOLEAN, aborted : BOOLEAN]
    /\ calls \in {"none", "queue", "abort"} /\ acts \in 0..MaxActs
    /\ seen \in [stopped : BOOLEAN, told : {"no", "gap", "loop"}, late : 0..2,
                 cut : BOOLEAN, short : BOOLEAN]

(* The script measures with the multicollector at least once, as every     *)
(* script with baselines does.                                             *)
Multicollects == \E n \in 1..Len(Commands) : Commands[n].by = "multi"

(* A run is saved at its end if and only if nothing stopped it: not if it  *)
(* was canceled, aborted or terminated, a detector was missing or the      *)
(* spectrometer gave no answers, wherever between two steps of the         *)
(* measurement that came.  A measurement that a truncation, an action or   *)
(* one answer that makes no sense ended is not stopped, and is saved as it *)
(* is.  A cancel just before the script resets its flags is remembered by  *)
(* the multicollector only: a script that does nothing but hop is left     *)
(* out.                                                                    *)
SavedUnlessStopped ==
    pc = "over" /\ Multicollects => (run.saved <=> ~seen.stopped)

(* A run that is called a success has every count of its multicollections, *)
(* whatever the operator changed, truncated or called meanwhile, except of *)
(* those that an action ended, or an answer that made no sense, which      *)
(* breaks the loop without a word.                                         *)
SuccessIsFull ==
    pc = "over" /\ Multicollects /\ run.state = "success" => ~seen.short

(* A run that is stopped while it takes counts takes one more at most,     *)
(* that which it is taking, in this measurement or a later one.            *)
StopObeyed == seen.told = "loop" => seen.late <= 1

(* The measurement ends, whatever the spectrometer answers and the         *)
(* operator does.                                                          *)
MeasurementEnds == <>(pc = "over")
====
