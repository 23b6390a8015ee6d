---- MODULE QueueExecutor ----
(***************************************************************************)
(* The experiment executor on one experiment queue: the loop that takes    *)
(* the queue's runs one by one, the thread of each run with its four       *)
(* steps, runs that overlap, the saver threads and the event that keeps a  *)
(* run from starting while the last one is saved, the exceptions a saver   *)
(* reports, and the operator who cancels, aborts or ends the queue.        *)
(*                                                                         *)
(* The executor, the runs, the savers, the equilibrations and the user     *)
(* interface are threads of their own that share the executor's            *)
(* attributes without a lock: every wait and every script is a place where *)
(* the others run.                                                         *)
(***************************************************************************)
EXTENDS Naturals, Sequences, FiniteSets

CONSTANTS
    N,               \* the number of runs in the queue
    Overlaps,        \* the runs with an overlap in their spec
    Unknowns,        \* the runs of analysis type unknown
    Unmeasured,      \* the runs without a measurement script
    UseOverlapSave,  \* preference use_dvc_overlap_save
    SaveAll,         \* preference save_all_runs
    Faults,          \* what may go wrong
    UserActs,        \* what the operator may do
    MaxActs          \* bound: how often the operator does it

Runs == 1..N
NoRun == 0
AllFaults == {"prerun", "make", "start", "trip", "extraction", "measurement",
              "post", "fatal", "nonfatal", "dies"}
AllUserActs == {"cancel", "abort", "end"}

ASSUME QueueAssumption ==
    /\ N \in Nat \ {0}
    /\ Overlaps \subseteq Runs /\ Unknowns \subseteq Runs /\ Unmeasured \subseteq Runs
    /\ UseOverlapSave \in BOOLEAN /\ SaveAll \in BOOLEAN
    /\ Faults \subseteq AllFaults /\ UserActs \subseteq AllUserActs
    /\ MaxActs \in Nat

VARIABLES
    alive,       \* executor.alive
    canceled,    \* executor._canceled
    aborted,     \* executor._aborted
    endAt,       \* executor.end_at_run_completion
    xpc,         \* where the executor's loop stands
    xrun,        \* the run it has in hand
    gen,         \* the next run of the runs generator
    firstFlag,   \* is_first_flag: the next run does not follow an overlap
    fresh,       \* is_first_analysis: no run has finished yet
    extracting,  \* executor.extracting_run
    measuring,   \* executor.measuring_run
    pump,        \* executor.ms_pumptime_start is set
    saveEvt,     \* executor._save_complete_evt is set
    exc,         \* executor._exception_queue
    run,         \* the runs, each with its thread
    asking,      \* the confirmation dialog of a cancel is open
    asked,       \* the runs that cancel captured before it asked
    acts         \* bound: what the operator did so far

flags == <<alive, canceled, aborted, endAt>>
loop == <<xpc, xrun, gen, firstFlag, fresh>>
user == <<asking, asked, acts>>
vars == <<flags, loop, extracting, measuring, pump, saveEvt, exc, run, user>>

\* The steps of a run's thread; a check comes before each of the first four.
CheckedStep == [check_start |-> "start", check_extraction |-> "extraction",
                check_measurement |-> "measurement", check_post |-> "post"]
Threads == {"none", "begin", "extracting", "pumpwait", "measuring", "posting", "judge",
            "closing", "saved", "finishing", "done", "dead"}
        \cup DOMAIN CheckedStep \cup {CheckedStep[c] : c \in DOMAIN CheckedStep}

\* Where the loop has a run in hand.
InHand == {"pause", "delay", "dvcwait", "make", "wait", "overlap", "overlapping", "join"}

States == {"not run", "extraction", "measurement", "success", "failed", "aborted"}
Exceptions == {"Fatal", "NonFatal"}

RunRecords ==
    [pc : Threads, state : States, alive : BOOLEAN, aborted : BOOLEAN, canceled : BOOLEAN,
     measured : BOOLEAN, evt : {"none", "clear", "set"}, eq : {"no", "running", "done"},
     first : BOOLEAN, pump : BOOLEAN, saver : {"no", "saving", "reported"}]

TypeOK ==
    /\ alive \in BOOLEAN /\ canceled \in BOOLEAN /\ aborted \in BOOLEAN
    /\ endAt \in BOOLEAN
    /\ xpc \in {"top", "pause", "delay", "dvcwait", "make", "wait", "overlap",
                "overlapping", "join", "drain", "done", "crashed"}
    /\ xrun \in Runs \cup {NoRun} /\ gen \in 1..(N + 1)
    /\ xpc \in InHand => xrun \in Runs
    /\ firstFlag \in BOOLEAN /\ fresh \in BOOLEAN
    /\ extracting \in Runs \cup {NoRun} /\ measuring \in Runs \cup {NoRun}
    /\ pump \in BOOLEAN /\ saveEvt \in BOOLEAN
    /\ exc \in Seq(Exceptions)
    /\ run \in [Runs -> RunRecords]
    /\ asking \in BOOLEAN /\ asked \subseteq Runs /\ acts \in 0..MaxActs

NewRun == [pc |-> "none", state |-> "not run", alive |-> FALSE, aborted |-> FALSE,
           canceled |-> FALSE, measured |-> FALSE, evt |-> "none", eq |-> "no",
           first |-> FALSE, pump |-> FALSE, saver |-> "no"]

\* _reset, and _execute_queue up to its loop.
Init ==
    /\ alive = TRUE /\ canceled = FALSE /\ aborted = FALSE /\ endAt = FALSE
    /\ xpc = "top" /\ xrun = NoRun /\ gen = 1 /\ firstFlag = TRUE /\ fresh = TRUE
    /\ extracting = NoRun /\ measuring = NoRun
    /\ pump = FALSE /\ saveEvt = FALSE
    /\ exc = <<>>
    /\ run = [r \in Runs |-> NewRun]
    /\ asking = FALSE /\ asked = {} /\ acts = 0

------------------------------------------------------------------------------
(* is_alive: asking takes one exception off the queue.  A fatal one and, with *)
(* either answer of the operator, a non-fatal one make the answer false.      *)

IsAlive == exc = <<>> /\ alive

Least(m, n) == IF m < n THEN m ELSE n

TakeExceptions(k) ==
    exc' = SubSeq(exc, Least(k, Len(exc)) + 1, Len(exc))

AskAlive == TakeExceptions(1)

\* run.finish: a run that is not over is failed.
Finished(x) ==
    [x EXCEPT !.alive = FALSE,
              !.state = IF @ \in {"not run", "success", "aborted"} THEN @ ELSE "failed"]

InScript == {"extracting", "measuring", "posting"}

\* run.cancel_run: a script that runs is canceled and the run is finished.
CanceledRun(x) ==
    Finished([x EXCEPT !.canceled = @ \/ x.pc \in InScript])

\* run.abort_run, which rewrites the state even of a finished run.
AbortedRun(x) ==
    [Finished(x) EXCEPT !.aborted = TRUE,
                        !.state = IF x.state = "not run" THEN @ ELSE "aborted"]

\* A terminated run executes its post measurement script if it is alive.
PostTermination(R) ==
    pump' \in {pump, pump \/ \E r \in R : run[r].alive}

\* _cancel of the queue, as confirmed.
CancelQueue(R) ==
    /\ alive' = FALSE /\ canceled' = TRUE
    /\ run' = [r \in Runs |-> IF r \in R THEN CanceledRun(run[r]) ELSE run[r]]

Current == {measuring, extracting} \ {NoRun}

------------------------------------------------------------------------------
(* The executor's loop *)

\* Mutant: the end of the generator is missed by one.
NextSpecPastEnd(spec) == spec > N + 1

NextSpec(spec) == spec > N

\* The loop ends: not alive, no run left, or the pre run check failed.
LoopEnds ==
    /\ xpc = "top"
    /\ AskAlive
    /\ ~IsAlive \/ NextSpec(gen) \/ "prerun" \in Faults
    /\ xpc' = "drain"
    /\ UNCHANGED <<flags, xrun, gen, firstFlag, fresh, extracting, measuring, pump,
                   saveEvt, run, user>>

\* The next run is taken from the generator; the abort flag and the pump time
\* are cleared, whichever run they are about.
TakeRun ==
    /\ xpc = "top" /\ IsAlive /\ ~NextSpec(gen)
    /\ xrun' = gen /\ gen' = gen + 1
    /\ aborted' = FALSE /\ pump' = FALSE
    /\ xpc' = "pause"
    /\ UNCHANGED <<alive, canceled, endAt, firstFlag, fresh, extracting, measuring,
                   saveEvt, exc, run, user>>

Overlapping == measuring # NoRun /\ run[measuring].alive

\* The delay between runs; when it is not called for the executor asks a second
\* time whether it is alive, for the log.
Pause ==
    /\ xpc = "pause"
    /\ \/ /\ Overlapping
          /\ xpc' = "dvcwait" /\ UNCHANGED exc
       \/ /\ ~Overlapping /\ IsAlive /\ ~fresh
          /\ xpc' = "delay" /\ UNCHANGED exc
       \/ /\ ~Overlapping /\ ~(IsAlive /\ ~fresh)
          /\ xpc' = "dvcwait" /\ TakeExceptions(2)
    /\ UNCHANGED <<flags, xrun, gen, firstFlag, fresh, extracting, measuring, pump,
                   saveEvt, run, user>>

DelayOver ==
    /\ xpc = "delay"
    /\ AskAlive
    /\ xpc' = IF IsAlive THEN "dvcwait" ELSE "drain"
    /\ UNCHANGED <<flags, xrun, gen, firstFlag, fresh, extracting, measuring, pump,
                   saveEvt, run, user>>

\* Mutant: the save event is not waited for.
SaveUnawaited == TRUE

SaveAwaited == UseOverlapSave => ~saveEvt

SaveCleared ==
    /\ xpc = "dvcwait" /\ SaveAwaited
    /\ xpc' = "make"
    /\ UNCHANGED <<flags, xrun, gen, firstFlag, fresh, extracting, measuring, pump,
                   saveEvt, exc, run, user>>

\* The event stayed set too long: the run is failed and the loop left.
SaveTimesOut ==
    /\ xpc = "dvcwait" /\ UseOverlapSave /\ saveEvt
    /\ run' = [run EXCEPT ![xrun].state = "failed"]
    /\ xpc' = "drain"
    /\ UNCHANGED <<flags, xrun, gen, firstFlag, fresh, extracting, measuring, pump,
                   saveEvt, exc, user>>

MakeFails ==
    /\ xpc = "make" /\ "make" \in Faults
    /\ xpc' = "drain"
    /\ UNCHANGED <<flags, xrun, gen, firstFlag, fresh, extracting, measuring, pump,
                   saveEvt, exc, run, user>>

\* Mutant: the analysis type is not looked at.
OverlapsWhateverType(r) == r \in Overlaps

\* The runs that let the next one start before they are over.
OverlapsNext(r) == r \in Overlaps \cap Unknowns

\* _make_run copies the pump time of the executor as it is now.  A run that
\* overlaps gets a thread, any other is done by the executor itself.
MakeRun ==
    LET made == [run[xrun] EXCEPT !.first = firstFlag, !.pump = pump]
    IN  /\ xpc = "make"
        /\ IF OverlapsNext(xrun)
           THEN xpc' = "wait" /\ run' = [run EXCEPT ![xrun] = made]
           ELSE xpc' = "join" /\ run' = [run EXCEPT ![xrun] = [made EXCEPT !.pc = "begin"]]
        /\ UNCHANGED <<flags, xrun, gen, firstFlag, fresh, extracting, measuring, pump,
                       saveEvt, exc, user>>

\* The extraction before is over: the overlapping run's thread starts.
StartThread ==
    /\ xpc = "wait" /\ (~alive \/ extracting = NoRun)
    /\ run' = [run EXCEPT ![xrun].pc = "begin"]
    /\ xpc' = "overlap"
    /\ UNCHANGED <<flags, xrun, gen, firstFlag, fresh, extracting, measuring, pump,
                   saveEvt, exc, user>>

\* wait_for_overlap marks the run alive, whatever its thread did by now.
WaitForOverlap ==
    /\ xpc = "overlap"
    /\ run' = [run EXCEPT ![xrun].alive = TRUE, ![xrun].evt = "clear"]
    /\ xpc' = "overlapping"
    /\ UNCHANGED <<flags, xrun, gen, firstFlag, fresh, extracting, measuring, pump,
                   saveEvt, exc, user>>

AfterRun == IF endAt THEN "drain" ELSE "top"

\* Mutant: the overlap signal is not waited for.
OverlapUnsignaled(x) == TRUE

OverlapSignaled(x) == ~x.alive \/ x.evt = "set"

OverlapOver ==
    /\ xpc = "overlapping" /\ OverlapSignaled(run[xrun])
    /\ firstFlag' = FALSE /\ fresh' = FALSE
    /\ xpc' = AfterRun
    /\ UNCHANGED <<flags, xrun, gen, extracting, measuring, pump, saveEvt, exc, run,
                   user>>

\* Mutant: a joined run stays the measuring run.
MeasuringRunKept == measuring

MeasuringRunCleared == NoRun

\* The joined run is over: no run counts as measuring any more, not even an
\* overlapped one that still does.
JoinRun ==
    /\ xpc = "join" /\ run[xrun].pc = "done"
    /\ AskAlive
    /\ measuring' = MeasuringRunCleared
    /\ firstFlag' = TRUE /\ fresh' = FALSE
    /\ xpc' = AfterRun
    /\ UNCHANGED <<flags, xrun, gen, extracting, pump, saveEvt, run, user>>

\* An error in a joined run is an error of the executor's thread.
JoinCrashes ==
    /\ xpc = "join" /\ run[xrun].pc = "dead"
    /\ xpc' = "crashed"
    /\ UNCHANGED <<flags, xrun, gen, firstFlag, fresh, extracting, measuring, pump,
                   saveEvt, exc, run, user>>

\* The runs left are waited for, while alive, by the two run attributes.
Drained ==
    /\ xpc = "drain"
    /\ ~alive \/ (extracting = NoRun /\ measuring = NoRun)
    /\ xpc' = "done" /\ alive' = FALSE
    /\ UNCHANGED <<canceled, aborted, endAt, xrun, gen, firstFlag, fresh, extracting,
                   measuring, pump, saveEvt, exc, run, user>>

Executor ==
    \/ LoopEnds \/ TakeRun \/ Pause \/ DelayOver \/ SaveCleared \/ SaveTimesOut
    \/ MakeFails \/ MakeRun \/ StartThread \/ WaitForOverlap \/ OverlapOver
    \/ JoinRun \/ JoinCrashes \/ Drained

------------------------------------------------------------------------------
(* The thread of a run *)

At(r, step) == run[r].pc = step

Move(r, step) == run' = [run EXCEPT ![r].pc = step]

BeginRun(r) ==
    /\ At(r, "begin")
    /\ extracting' = r
    /\ run' = [run EXCEPT ![r].state = "not run", ![r].pc = "check_start"]
    /\ UNCHANGED <<flags, loop, measuring, pump, saveEvt, exc, user>>

\* Before each step the run asks whether executor and run may go on; if not the
\* step loop is left and extracting_run stays what it is.
CheckStep(r) ==
    /\ run[r].pc \in DOMAIN CheckedStep
    /\ AskAlive
    /\ Move(r, IF IsAlive /\ ~aborted THEN CheckedStep[run[r].pc] ELSE "closing")
    /\ UNCHANGED <<flags, loop, extracting, measuring, pump, saveEvt, user>>

\* A started run leaves the queue's list, whose listener asks is_alive again.
Start(r) ==
    /\ At(r, "start")
    /\ AskAlive
    /\ run' = [run EXCEPT ![r].alive = TRUE, ![r].aborted = FALSE,
                          ![r].pc = "check_extraction"]
    /\ UNCHANGED <<flags, loop, extracting, measuring, pump, saveEvt, user>>

StartFails(r) ==
    /\ At(r, "start") /\ "start" \in Faults
    /\ alive' = FALSE /\ canceled' = TRUE
    /\ run' = [run EXCEPT ![r].aborted = FALSE, ![r].state = "failed",
                          ![r].pc = "closing"]
    /\ UNCHANGED <<aborted, endAt, loop, extracting, measuring, pump, saveEvt, exc,
                   user>>

\* A conditional before the extraction or the measurement trips: the queue is
\* canceled without asking, the step fails, and extracting_run is not reset.
StepCheckTrips(r) ==
    /\ At(r, "extraction") \/ At(r, "measurement")
    /\ "trip" \in Faults /\ alive
    /\ alive' = FALSE /\ canceled' = TRUE
    /\ run' = [x \in Runs |->
         LET y == IF x \in Current THEN CanceledRun(run[x]) ELSE run[x]
         IN  IF x = r THEN [y EXCEPT !.state = "failed", !.pc = "closing"] ELSE y]
    /\ PostTermination(Current)
    /\ UNCHANGED <<aborted, endAt, loop, extracting, measuring, saveEvt, exc, user>>

\* _failed_execution_step: a failure nobody asked for stops the executor.
FailedStep == alive' = (alive /\ canceled)

\* _extraction runs the script of a run that is alive.
Extract(r) ==
    /\ At(r, "extraction") /\ run[r].alive
    /\ run' = [run EXCEPT ![r].state = "extraction", ![r].canceled = FALSE,
                          ![r].pc = "extracting"]
    /\ UNCHANGED <<flags, loop, extracting, measuring, pump, saveEvt, exc, user>>

ExtractNotAlive(r) ==
    /\ At(r, "extraction") /\ ~run[r].alive
    /\ extracting' = NoRun
    /\ run' = [run EXCEPT ![r].state = "failed", ![r].pc = "closing"]
    /\ UNCHANGED <<flags, loop, measuring, pump, saveEvt, exc, user>>

\* An aborted script ends as if it had completed; a canceled one has failed.
ExtractionScriptDone(r) ==
    /\ At(r, "extracting") /\ ~run[r].canceled
    /\ Move(r, "pumpwait")
    /\ UNCHANGED <<flags, loop, extracting, measuring, pump, saveEvt, exc, user>>

ExtractionFails(r) ==
    /\ At(r, "extracting")
    /\ run[r].canceled \/ "extraction" \in Faults
    /\ FailedStep
    /\ extracting' = NoRun
    /\ run' = [run EXCEPT ![r] =
            [Finished(run[r]) EXCEPT !.state = "failed", !.pc = "closing"]]
    /\ PostTermination({r})
    /\ UNCHANGED <<canceled, aborted, endAt, loop, measuring, saveEvt, exc, user>>

\* The pump time is looked for in the run's own copy, which nothing sets later.
NeedsPumpTime(r) == r \in Overlaps /\ ~run[r].first

PumpWaitOver(r) ==
    /\ At(r, "pumpwait")
    /\ NeedsPumpTime(r) => run[r].pump
    /\ extracting' = NoRun
    /\ Move(r, "check_measurement")
    /\ UNCHANGED <<flags, loop, measuring, pump, saveEvt, exc, user>>

\* Ended without a pump time, the wait logs the time elapsed since then: the
\* subtraction of None ends the thread, with extracting_run left as it is.
PumpWaitRaises(r) ==
    /\ At(r, "pumpwait") /\ NeedsPumpTime(r) /\ ~run[r].pump /\ ~run[r].alive
    /\ Move(r, "dead")
    /\ UNCHANGED <<flags, loop, extracting, measuring, pump, saveEvt, exc, user>>

\* _measurement; the script starts the equilibration thread.
Measure(r) ==
    /\ At(r, "measurement") /\ run[r].alive /\ r \notin Unmeasured
    /\ measuring' = r
    /\ run' = [run EXCEPT ![r].state = "measurement", ![r].canceled = FALSE,
                          ![r].eq = "running", ![r].pc = "measuring"]
    /\ UNCHANGED <<flags, loop, extracting, pump, saveEvt, exc, user>>

\* Without a script, or on a run not alive, the step's result is is_alive.
MeasureNothing(r) ==
    /\ At(r, "measurement")
    /\ ~run[r].alive \/ r \in Unmeasured
    /\ measuring' = r
    /\ run' = IF run[r].alive THEN [run EXCEPT ![r].pc = "check_post"]
              ELSE [run EXCEPT ![r].state = "failed", ![r].pc = "closing"]
    /\ UNCHANGED <<flags, loop, extracting, pump, saveEvt, exc, user>>

\* The equilibration thread signals the overlap of a run still alive.
Equilibrated(r) ==
    /\ run[r].eq = "running"
    /\ run' = [run EXCEPT ![r].eq = "done",
         ![r].evt = IF run[r].alive /\ @ # "none" THEN "set" ELSE @]
    /\ UNCHANGED <<flags, loop, extracting, measuring, pump, saveEvt, exc, user>>

Measured(r) ==
    /\ At(r, "measuring") /\ ~run[r].canceled
    /\ run' = [run EXCEPT ![r].measured = TRUE, ![r].pc = "check_post"]
    /\ UNCHANGED <<flags, loop, extracting, measuring, pump, saveEvt, exc, user>>

\* A failed measurement of an aborted run counts as done.
MeasurementFails(r) ==
    /\ At(r, "measuring")
    /\ run[r].canceled \/ "measurement" \in Faults
    /\ \/ /\ run[r].aborted
          /\ run' = [run EXCEPT ![r] = [Finished(run[r]) EXCEPT !.pc = "check_post"]]
          /\ UNCHANGED <<alive, pump>>
       \/ /\ ~run[r].aborted
          /\ FailedStep
          /\ run' = [run EXCEPT ![r] =
                [Finished(run[r]) EXCEPT !.state = "failed", !.pc = "closing"]]
          /\ PostTermination({r})
    /\ UNCHANGED <<canceled, aborted, endAt, loop, extracting, measuring, saveEvt, exc,
                   user>>

PostMeasure(r) ==
    /\ At(r, "post") /\ run[r].alive
    /\ run' = [run EXCEPT ![r].canceled = FALSE, ![r].pc = "posting"]
    /\ UNCHANGED <<flags, loop, extracting, measuring, pump, saveEvt, exc, user>>

PostMeasured(r) ==
    /\ At(r, "posting") /\ ~run[r].canceled
    /\ pump' = TRUE
    /\ Move(r, "judge")
    /\ UNCHANGED <<flags, loop, extracting, measuring, saveEvt, exc, user>>

\* A failed last step stops the executor and leaves the run's state alone.
PostMeasurementFails(r) ==
    /\ \/ At(r, "post") /\ ~run[r].alive
       \/ At(r, "posting") /\ (run[r].canceled \/ "post" \in Faults)
    /\ FailedStep
    /\ Move(r, "closing")
    /\ UNCHANGED <<canceled, aborted, endAt, loop, extracting, measuring, pump, saveEvt,
                   exc, user>>

\* All steps done: a run that has not failed is a success, an aborted one too.
Judge(r) ==
    /\ At(r, "judge")
    /\ run' = [run EXCEPT ![r].state = IF @ = "failed" THEN @ ELSE "success",
                          ![r].pc = "closing"]
    /\ UNCHANGED <<flags, loop, extracting, measuring, pump, saveEvt, exc, user>>

Saves(r) ==
    /\ SaveAll \/ run[r].state = "success"
    /\ run[r].measured /\ ~run[r].aborted

\* A save in the run's own thread ends before the next step; an overlapping
\* save gets a thread of its own.
Save(r) ==
    /\ At(r, "closing")
    /\ run' = [run EXCEPT ![r].pc = "saved",
         ![r].saver = IF Saves(r) /\ UseOverlapSave THEN "saving" ELSE @]
    /\ UNCHANGED <<flags, loop, extracting, measuring, pump, saveEvt, exc, user>>

\* The event says that a save is under way, also when none was started.
MarkSaving(r) ==
    /\ At(r, "saved")
    /\ saveEvt' = TRUE
    /\ Move(r, "finishing")
    /\ UNCHANGED <<flags, loop, extracting, measuring, pump, exc, user>>

\* A post run action of a run that has not failed may cancel the queue.
PostRunCheckCancels(r) ==
    /\ At(r, "finishing") /\ run[r].state # "failed"
    /\ "trip" \in Faults /\ alive
    /\ CancelQueue(Current) /\ PostTermination(Current)
    /\ UNCHANGED <<aborted, endAt, loop, extracting, measuring, saveEvt, exc, user>>

FinishRun(r) ==
    /\ At(r, "finishing")
    /\ run' = [run EXCEPT ![r] = [Finished(run[r]) EXCEPT !.pc = "done"]]
    /\ UNCHANGED <<flags, loop, extracting, measuring, pump, saveEvt, exc, user>>

RunThread(r) ==
    \/ BeginRun(r) \/ CheckStep(r) \/ Start(r) \/ StartFails(r) \/ StepCheckTrips(r)
    \/ Extract(r) \/ ExtractNotAlive(r) \/ ExtractionScriptDone(r) \/ ExtractionFails(r)
    \/ PumpWaitOver(r) \/ PumpWaitRaises(r)
    \/ Measure(r) \/ MeasureNothing(r) \/ Measured(r) \/ MeasurementFails(r)
    \/ PostMeasure(r) \/ PostMeasured(r) \/ PostMeasurementFails(r) \/ Judge(r)
    \/ Save(r) \/ MarkSaving(r) \/ PostRunCheckCancels(r) \/ FinishRun(r)

------------------------------------------------------------------------------
(* The saver thread of a run *)

\* The database or the upload failed: the executor is told, the save goes on.
SaverReports(r) ==
    /\ run[r].saver = "saving"
    /\ \/ "fatal" \in Faults /\ exc' = Append(exc, "Fatal")
       \/ "nonfatal" \in Faults /\ exc' = Append(exc, "NonFatal")
    /\ run' = [run EXCEPT ![r].saver = "reported"]
    /\ UNCHANGED <<flags, loop, extracting, measuring, pump, saveEvt, user>>

\* At the end of a save the event is cleared, set or not.
SaverDone(r) ==
    /\ run[r].saver # "no"
    /\ saveEvt' = FALSE
    /\ run' = [run EXCEPT ![r].saver = "no"]
    /\ UNCHANGED <<flags, loop, extracting, measuring, pump, exc, user>>

\* Any other error ends the saver's thread before it clears the event.
SaverDies(r) ==
    /\ run[r].saver # "no" /\ "dies" \in Faults
    /\ run' = [run EXCEPT ![r].saver = "no"]
    /\ UNCHANGED <<flags, loop, extracting, measuring, pump, saveEvt, exc, user>>

Saver(r) == SaverReports(r) \/ SaverDone(r) \/ SaverDies(r)

------------------------------------------------------------------------------
(* The operator *)

Running == xpc \notin {"done", "crashed"}

Act(kind) ==
    /\ kind \in UserActs /\ acts < MaxActs /\ Running
    /\ acts' = acts + 1

\* stop_run and abort_run ask is_alive twice, the first time for the log.
AliveAfterTwoQuestions == Len(exc) < 2 /\ alive

\* Stop: between runs the executor is stopped at once.  The runs to cancel are
\* read before the dialog opens.
AskCancel ==
    /\ Act("cancel") /\ ~asking
    /\ TakeExceptions(2)
    /\ IF AliveAfterTwoQuestions
       THEN /\ alive' = (alive /\ xpc # "delay")
            /\ asking' = TRUE /\ asked' = Current
       ELSE UNCHANGED <<alive, asking, asked>>
    /\ UNCHANGED <<canceled, aborted, endAt, loop, extracting, measuring, pump, saveEvt,
                   run>>

ConfirmCancel ==
    /\ asking
    /\ asking' = FALSE /\ asked' = {}
    /\ CancelQueue(asked) /\ PostTermination(asked)
    /\ UNCHANGED <<aborted, endAt, loop, extracting, measuring, saveEvt, exc, acts>>

\* Declined, or not answered within 30 seconds.
DeclineCancel ==
    /\ asking
    /\ asking' = FALSE /\ asked' = {}
    /\ UNCHANGED <<flags, loop, extracting, measuring, pump, saveEvt, exc, run, acts>>

AbortRun ==
    /\ Act("abort")
    /\ TakeExceptions(2)
    /\ IF AliveAfterTwoQuestions /\ Current # {}
       THEN /\ aborted' = TRUE
            /\ run' = [r \in Runs |-> IF r \in Current THEN AbortedRun(run[r]) ELSE run[r]]
            /\ PostTermination(Current)
       ELSE UNCHANGED <<aborted, run, pump>>
    /\ UNCHANGED <<alive, canceled, endAt, loop, extracting, measuring, saveEvt,
                   asking, asked>>

\* The end-at-run-completion switch of the operator, on or off.
SetEndAt ==
    /\ Act("end")
    /\ endAt' = ~endAt
    /\ UNCHANGED <<alive, canceled, aborted, loop, extracting, measuring, pump, saveEvt,
                   exc, run, asking, asked>>

Operator == AskCancel \/ ConfirmCancel \/ DeclineCancel \/ AbortRun \/ SetEndAt

------------------------------------------------------------------------------

Next ==
    \/ Executor \/ Operator
    \/ \E r \in Runs : RunThread(r) \/ Equilibrated(r) \/ Saver(r)

\* Every thread goes on, scripts and saves end; the operator does as he likes,
\* but a dialog is answered or times out.
Fairness ==
    /\ WF_vars(Executor)
    /\ \A r \in Runs : WF_vars(RunThread(r)) /\ WF_vars(Equilibrated(r)) /\ WF_vars(Saver(r))
    /\ WF_vars(ConfirmCancel \/ DeclineCancel)

Spec == Init /\ [][Next]_vars
FairSpec == Spec /\ Fairness

------------------------------------------------------------------------------
(* Properties *)

\* Without overlapping runs no two saves are ever under way: a run starts only
\* when the save of the one before is over, however saves end or are announced.
SaveSerial ==
    \A q, r \in Runs : run[q].saver # "no" /\ run[r].saver # "no" => q = r

\* A queue without overlaps ends, whatever fails and whatever the operator does;
\* or it stands in the last wait because of extracting_run, on a run that was over
\* before its extraction.
QueueEnds ==
    <>(\/ xpc = "done"
       \/ xpc = "drain" /\ measuring = NoRun /\ extracting # NoRun /\ At(extracting, "done"))

Over == {"none", "done", "dead"}
Begun == {r \in Runs : run[r].pc # "none"}
Working == {r \in Runs : run[r].pc \notin Over}

\* The loop, the threads of the runs and the operator together do the queue in
\* order: no run is skipped, none is begun twice, and beside a run that does not
\* overlap no other begins, whatever fails and whoever cancels or aborts.
Queue == INSTANCE RunQueue WITH
    Overlapping <- Overlaps \cap Unknowns,
    begun <- Begun,
    working <- Working
QueueOrder == Queue!Spec

\* No two extraction scripts run at once, not even one that is being canceled: an
\* overlapping run lets the next one start only when its own extraction is over.
OneExtraction ==
    \A q, r \in Runs : At(q, "extracting") /\ At(r, "extracting") => q = r

\* Fails: "if overlapping need to wait for previous runs min mass spec pump time"
\* (automated_run.py:1701); the wait for that time to start never ends.
PumpWaitEnds ==
    \A r \in Runs : At(r, "pumpwait") ~> ~At(r, "pumpwait")
====
