---- MODULE ResourceFlags ----
(***************************************************************************)
(* How two spectrometers share an extraction line: the flags the line's    *)
(* computer serves, the scripts on the other computers that wait for them, *)
(* set and clear them, the pings with which a script keeps a flag, and the *)
(* monitor that clears a flag nobody pings.                                *)
(*                                                                         *)
(* The scripts are those of docs/user_guide/operation/scripts/examples: a  *)
(* system waits until the other's flag reads zero, acquires its own, and   *)
(* after the use sets a timed flag for the pump and releases its own; or   *)
(* they share one flag and acquire it.  A system may die at any time and   *)
(* come back.  Time passes in ticks; a ping is due in each.                *)
(***************************************************************************)
EXTENDS Naturals, Sequences

CONSTANTS
    Systems,      \* the computers that run scripts
    Flags,        \* the flags, the timed ones included
    TimedFlags,   \* those that clear themselves
    Extraction,   \* the commands of a system's extraction script
    Post,         \* the commands of its post equilibration script
    Timeout,      \* Flag.timeout, in ticks
    Duration,     \* what a timed flag is set to, in ticks
    MaxLost,      \* bound: the pings in a row that get lost
    Lossy,        \* a read may stay without an answer
    Cancels,      \* the operators cancel runs
    MaxRuns,      \* bound: the runs of all systems
    MaxDeaths     \* bound: how often systems die

(* A command is its name and the flag it is about.                         *)
Command == {"wait", "acquire", "claim", "unless", "pump", "release"} \X Flags

ASSUME FlagsAssumption ==
    /\ TimedFlags \subseteq Flags
    /\ Extraction \in [Systems -> Seq(Command)] /\ Post \in [Systems -> Seq(Command)]
    /\ Timeout \in Nat /\ Duration \in Nat \ {0} /\ Duration <= Timeout
    /\ MaxLost \in Nat /\ Lossy \in BOOLEAN /\ Cancels \in BOOLEAN
    /\ MaxRuns \in Nat /\ MaxDeaths \in Nat

VARIABLES
    isSet,      \* _set of a flag
    quiet,      \* the ticks since _pinged
    monitor,    \* the flag's last monitor thread runs
    orphan,     \* an earlier one runs, whose event nobody can set any more
    timers,     \* the ticks left on the one shot timers of a timed flag
    script,     \* the script a system is in
    pc,         \* its next command
    looping,    \* wait has had its first answer, claim has found the flag clear
    canceled,   \* the extraction script is canceled
    resource,   \* its _resource_flag, if it has one
    pinging,    \* the flags a system pings
    lost,       \* bound: the pings a system lost in a row
    runs,       \* bound
    deaths,     \* bound
    holds,      \* history: the flags its scripts acquired and did not release
    left        \* history: those whose release a read without answer skipped

vars == <<isSet, quiet, monitor, orphan, timers, script, pc, looping, canceled,
          resource, pinging, lost, runs, deaths, holds, left>>
server == <<isSet, quiet, monitor, orphan, timers>>
bounds == <<lost, runs, deaths>>

Init ==
    /\ isSet = [f \in Flags |-> FALSE]
    /\ quiet = [f \in Flags |-> 0]
    /\ monitor = [f \in Flags |-> FALSE]
    /\ orphan = [f \in Flags |-> FALSE]
    /\ timers = [f \in Flags |-> {}]
    /\ script = [s \in Systems |-> "none"]
    /\ pc = [s \in Systems |-> 1]
    /\ looping = [s \in Systems |-> FALSE]
    /\ canceled = [s \in Systems |-> FALSE]
    /\ resource = [s \in Systems |-> {}]
    /\ pinging = [s \in Systems |-> {}]
    /\ lost = [s \in Systems |-> 0]
    /\ runs = 0
    /\ deaths = 0
    /\ holds = [s \in Systems |-> {}]
    /\ left = {}

----------------------------------------------------------------------------
(* The flags.                                                              *)
\* Mutant: the monitor of a new flag goes on from the pings of the last one.
SetFlagUnpinged(f) ==
    /\ isSet' = [isSet EXCEPT ![f] = TRUE]
    /\ orphan' = [orphan EXCEPT ![f] = @ \/ monitor[f]]
    /\ monitor' = [monitor EXCEPT ![f] = TRUE]
    /\ UNCHANGED quiet

(* set(True): a new event and a monitor thread, which takes _pinged to     *)
(* now; the monitor of a flag that was set already keeps an event that     *)
(* nobody has a hand on any more.                                          *)
SetFlag(f) ==
    /\ isSet' = [isSet EXCEPT ![f] = TRUE]
    /\ quiet' = [quiet EXCEPT ![f] = 0]
    /\ orphan' = [orphan EXCEPT ![f] = @ \/ monitor[f]]
    /\ monitor' = [monitor EXCEPT ![f] = TRUE]

(* A timed flag also starts a one shot timer on clear, beside those that   *)
(* still run.                                                              *)
SetTimed(f) ==
    /\ SetFlag(f)
    /\ timers' = [timers EXCEPT ![f] = @ \cup {Duration}]

(* set(False), clear: the last event is set, which ends the last monitor.  *)
ClearFlag(f) ==
    /\ isSet' = [isSet EXCEPT ![f] = FALSE]
    /\ monitor' = [monitor EXCEPT ![f] = FALSE]
    /\ left' = left \ {f}
    /\ UNCHANGED <<quiet, orphan>>

\* Mutant: the monitor ends and leaves the flag set.
MonitorEnds(f) ==
    /\ monitor[f] \/ orphan[f]
    /\ quiet[f] > Timeout
    /\ monitor' = [monitor EXCEPT ![f] = FALSE]
    /\ orphan' = [orphan EXCEPT ![f] = @ /\ monitor[f]]
    /\ UNCHANGED <<isSet, quiet, timers, script, pc, looping, canceled, resource,
                   pinging, bounds, holds, left>>

(* A monitor that finds the flag unpinged for longer than the timeout      *)
(* clears it if it is set, and ends.                                       *)
MonitorFires(f) ==
    /\ monitor[f] \/ orphan[f]
    /\ quiet[f] > Timeout
    /\ isSet' = [isSet EXCEPT ![f] = FALSE]
    /\ monitor' = [monitor EXCEPT ![f] = FALSE]
    /\ orphan' = [orphan EXCEPT ![f] = @ /\ monitor[f]]
    /\ left' = left \ {f}
    /\ UNCHANGED <<quiet, timers, script, pc, looping, canceled, resource,
                   pinging, bounds, holds>>

(* A one shot timer clears the timed flag, whichever set started it.       *)
TimerFires(f) ==
    /\ 0 \in timers[f]
    /\ timers' = [timers EXCEPT ![f] = @ \ {0}]
    /\ ClearFlag(f)
    /\ UNCHANGED <<script, pc, looping, canceled, resource, pinging, bounds, holds>>

----------------------------------------------------------------------------
(* The scripts.                                                            *)
Program(s) == IF script[s] = "extraction" THEN Extraction[s] ELSE Post[s]

(* The command s is at.  A canceled extraction script skips its commands.  *)
At(s, name, f) ==
    /\ script[s] \in {"extraction", "post"}
    /\ pc[s] <= Len(Program(s)) /\ Program(s)[pc[s]] = <<name, f>>
    /\ ~(script[s] = "extraction" /\ canceled[s])

(* s is in the loop of a wait, which goes on whether it is canceled or not *)
InLoop(s, f) ==
    /\ script[s] \in {"extraction", "post"} /\ looping[s]
    /\ pc[s] <= Len(Program(s)) /\ Program(s)[pc[s]] = <<"wait", f>>

Advance(s) == pc' = [pc EXCEPT ![s] = @ + 1]

Others(s) == UNCHANGED <<script, canceled, resource, pinging, bounds, holds>>

StartRun(s) ==
    /\ script[s] = "none" /\ runs < MaxRuns
    /\ script' = [script EXCEPT ![s] = "extraction"]
    /\ runs' = runs + 1
    /\ UNCHANGED <<server, pc, looping, canceled, resource, pinging, lost, deaths, holds, left>>

(* The run is over and its scripts with it.                                *)
RunOver(s) ==
    /\ script' = [script EXCEPT ![s] = "none"]
    /\ canceled' = [canceled EXCEPT ![s] = FALSE]
    /\ resource' = [resource EXCEPT ![s] = {}]

(* The end of the extraction script, or of what a cancel leaves of it,     *)
(* once its wait is over: the post equilibration follows in both cases.    *)
EndScript(s) ==
    /\ script[s] \in {"extraction", "post"}
    /\ \/ pc[s] > Len(Program(s))
       \/ script[s] = "extraction" /\ canceled[s] /\ ~looping[s]
    /\ pc' = [pc EXCEPT ![s] = 1]
    /\ IF script[s] = "extraction"
       THEN script' = [script EXCEPT ![s] = "post"] /\ UNCHANGED <<canceled, resource>>
       ELSE RunOver(s)
    /\ UNCHANGED <<server, looping, pinging, bounds, holds, left>>

(* wait(f, 0): the loop of reads, one a second, ends with a zero and does  *)
(* not look at _cancel; but if the first read has no answer there is no    *)
(* loop at all.                                                            *)
KeepWaiting(s, f) ==
    /\ At(s, "wait", f) /\ ~looping[s]
    /\ isSet[f]
    /\ looping' = [looping EXCEPT ![s] = TRUE]
    /\ UNCHANGED <<server, pc, left>> /\ Others(s)

WaitOver(s, f) ==
    /\ InLoop(s, f) \/ At(s, "wait", f)
    /\ ~isSet[f] \/ (Lossy /\ ~looping[s])
    /\ looping' = [looping EXCEPT ![s] = FALSE]
    /\ Advance(s)
    /\ UNCHANGED <<server, left>> /\ Others(s)

(* runner.acquire: the flag is set and pinged from now on.                 *)
TakeFlag(s, f) ==
    /\ SetFlag(f)
    /\ resource' = [resource EXCEPT ![s] = {f}]
    /\ pinging' = [pinging EXCEPT ![s] = @ \cup {f}]
    /\ holds' = [holds EXCEPT ![s] = @ \cup {f}]
    /\ left' = left \ {f}
    /\ looping' = [looping EXCEPT ![s] = FALSE]
    /\ Advance(s)
    /\ UNCHANGED <<timers, script, canceled, bounds>>

(* acquire(f, clear=True) takes the flag as it is, ...                     *)
Acquire(s, f) == At(s, "acquire", f) /\ TakeFlag(s, f)

(* ... acquire(f) asks whether it is set first.  If it is, the loop that   *)
(* should wait for it asks its communicator for an attribute it does not   *)
(* have, and the script ends by an exception: the run has failed, and its  *)
(* post equilibration is next.  Without an answer the flag counts as       *)
(* clear.                                                                  *)
AskFlag(s, f) ==
    /\ At(s, "claim", f) /\ ~looping[s]
    /\ \/ /\ isSet[f]
          /\ script' = [script EXCEPT ![s] = "post"]
          /\ pc' = [pc EXCEPT ![s] = 1]
          /\ UNCHANGED looping
       \/ /\ ~isSet[f] \/ Lossy
          /\ looping' = [looping EXCEPT ![s] = TRUE]
          /\ UNCHANGED <<script, pc>>
    /\ UNCHANGED <<server, canceled, resource, pinging, bounds, holds, left>>

Claim(s, f) == At(s, "claim", f) /\ looping[s] /\ TakeFlag(s, f)

(* The flag is cleared and no longer pinged.                               *)
DropFlag(s, f) ==
    /\ ClearFlag(f)
    /\ pinging' = [pinging EXCEPT ![s] = @ \ {f}]
    /\ holds' = [holds EXCEPT ![s] = @ \ {f}]

(* release(f); _resource_flag of the extraction script stays.              *)
Release(s, f) ==
    /\ At(s, "release", f)
    /\ DropFlag(s, f)
    /\ Advance(s)
    /\ UNCHANGED <<timers, script, looping, canceled, resource, bounds>>

(* if get_resource_value(f): the rest of the script is for a flag that is  *)
(* set, and is left out for one whose read has no answer.                  *)
Unless(s, f) ==
    /\ At(s, "unless", f)
    /\ \/ /\ isSet[f]
          /\ Advance(s)
          /\ UNCHANGED left
       \/ /\ ~isSet[f] \/ Lossy
          /\ pc' = [pc EXCEPT ![s] = Len(Program(s)) + 1]
          /\ left' = IF isSet[f] THEN left \cup {f} ELSE left
    /\ UNCHANGED <<server, looping>> /\ Others(s)

(* set_resource(f, seconds) of a timed flag.  Its ping loop is left out:   *)
(* the flag clears itself before its monitor would.                        *)
SetPump(s, f) ==
    /\ At(s, "pump", f)
    /\ SetTimed(f)
    /\ Advance(s)
    /\ UNCHANGED <<looping, left>> /\ Others(s)

(* cancel_run cancels the extraction script, whatever script the run is    *)
(* in: its _cancel_hook clears the flag the script acquired last.          *)
Cancel(s) ==
    /\ Cancels
    /\ script[s] \in {"extraction", "post"} /\ ~canceled[s]
    /\ canceled' = [canceled EXCEPT ![s] = TRUE]
    /\ \/ resource[s] = {} /\ UNCHANGED <<isSet, quiet, monitor, orphan, pinging, holds, left>>
       \/ \E f \in resource[s] : DropFlag(s, f)
    /\ looping' = [looping EXCEPT ![s] = @ /\ \E f \in Flags : InLoop(s, f)]
    /\ UNCHANGED <<timers, script, pc, resource, bounds>>

Script(s) ==
    \/ EndScript(s)
    \/ \E f \in Flags :
         \/ KeepWaiting(s, f) \/ WaitOver(s, f) \/ Acquire(s, f) \/ AskFlag(s, f)
         \/ Claim(s, f) \/ Release(s, f) \/ Unless(s, f) \/ SetPump(s, f)

----------------------------------------------------------------------------
(* A system dies: its scripts and its pings end, its flags stay.           *)
Die(s) ==
    /\ deaths < MaxDeaths
    /\ script[s] # "none"
    /\ deaths' = deaths + 1
    /\ RunOver(s)
    /\ pc' = [pc EXCEPT ![s] = 1]
    /\ looping' = [looping EXCEPT ![s] = FALSE]
    /\ pinging' = [pinging EXCEPT ![s] = {}]
    /\ holds' = [holds EXCEPT ![s] = {}]
    /\ UNCHANGED <<server, lost, runs, left>>

\* Mutant: time does not wait for the timers.
TickOver ==
    /\ timers' = [f \in Flags |-> {t - 1 : t \in timers[f]}]
    /\ lost' = [s \in Systems |-> 0]
    /\ quiet' = [f \in Flags |-> 0]
    /\ UNCHANGED <<isSet, monitor, orphan, script, pc, looping, canceled, resource,
                   pinging, runs, deaths, holds, left>>

(* A tick: the ping loops ping, those of the systems in L in vain.         *)
Tick ==
    /\ \A f \in Flags : 0 \notin timers[f]
    /\ \E L \in SUBSET Systems :
         /\ \A s \in L : lost[s] < MaxLost /\ pinging[s] # {}
         /\ lost' = [s \in Systems |-> IF s \in L THEN lost[s] + 1 ELSE 0]
         /\ quiet' = [f \in Flags |->
               IF \E s \in Systems \ L : f \in pinging[s] THEN 0
               ELSE IF ~(monitor[f] \/ orphan[f]) THEN 0
               ELSE IF quiet[f] > Timeout THEN quiet[f] ELSE quiet[f] + 1]
    /\ timers' = [f \in Flags |-> {t - 1 : t \in timers[f]}]
    /\ UNCHANGED <<isSet, monitor, orphan, script, pc, looping, canceled, resource,
                   pinging, runs, deaths, holds, left>>

Next ==
    \/ \E s \in Systems : StartRun(s) \/ Script(s) \/ Cancel(s) \/ Die(s)
    \/ \E f \in Flags : MonitorFires(f) \/ TimerFires(f)
    \/ Tick

Fairness ==
    /\ WF_vars(Tick)
    /\ \A s \in Systems : WF_vars(Script(s))
    /\ \A f \in Flags : WF_vars(MonitorFires(f)) /\ WF_vars(TimerFires(f))

Spec == Init /\ [][Next]_vars /\ Fairness

----------------------------------------------------------------------------
(* The records are what they are said to be: a one shot timer fires within *)
(* its tick, only timed flags have any, and a script pings what it holds.  *)
TypeOK ==
    /\ isSet \in [Flags -> BOOLEAN] /\ quiet \in [Flags -> 0..(Timeout + 1)]
    /\ monitor \in [Flags -> BOOLEAN] /\ orphan \in [Flags -> BOOLEAN]
    /\ timers \in [Flags -> SUBSET (0..Duration)]
    /\ \A f \in Flags \ TimedFlags : timers[f] = {}
    /\ script \in [Systems -> {"none", "extraction", "post"}]
    /\ \A s \in Systems : script[s] # "none" => pc[s] \in 1..(Len(Program(s)) + 1)
    /\ looping \in [Systems -> BOOLEAN] /\ canceled \in [Systems -> BOOLEAN]
    /\ resource \in [Systems -> SUBSET Flags] /\ pinging \in [Systems -> SUBSET Flags]
    /\ left \subseteq Flags
    /\ \A s \in Systems : holds[s] \subseteq pinging[s]
    /\ lost \in [Systems -> 0..MaxLost] /\ runs \in 0..MaxRuns /\ deaths \in 0..MaxDeaths

(* A flag that a script has acquired and not released stays set: neither   *)
(* the monitor, with fewer lost pings than its timeout, nor a timer nor    *)
(* the scripts of the other system take it away.                           *)
KeptWhileHeld == \A s \in Systems : \A f \in holds[s] : isSet[f]

(* Every script comes to its end: two systems that wait for each other's   *)
(* flags do not block each other, and the flag of one that died does not   *)
(* keep the other out for good; a flag does so only when the question      *)
(* before its release had no answer: its system pings it on, and the other *)
(* waits for it as long as nobody takes it again.                          *)
KeptOut(s) == \E f \in left : InLoop(s, f)

ScriptsEnd ==
    \A s \in Systems :
        []<>~KeptOut(s) => ((script[s] # "none") ~> (script[s] = "none"))
====
