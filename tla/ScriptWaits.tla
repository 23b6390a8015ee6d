---- MODULE ScriptWaits ----
(***************************************************************************)
(* The scripts of a run and the waits they sleep in.                       *)
(*                                                                         *)
(* A script has a thread of its own (an extraction, a measurement, a post  *)
(* equilibration that runs beside it) and may call one other script with   *)
(* gosub, which runs on the same thread.  A sleep of more than a second is *)
(* a wait control of the executor's wait group: the script takes the       *)
(* active control, or a new one if that is running, starts it and joins    *)
(* its event, which the control's timer sets when the time has been        *)
(* counted down, the executor when it stops the group, the user when he    *)
(* continues, and a cancel or an abort of the script.                      *)
(*                                                                         *)
(* The operator and the timers are threads that act between any two of the *)
(* steps below.  Durations are left out: a running timer may be counted    *)
(* down at any time.  A run that ends has the executor pop the group once  *)
(* more, whoever waits in it.                                              *)
(***************************************************************************)
EXTENDS Naturals, Sequences, SequencesExt

CONSTANTS
    Scripts,      \* the scripts with a thread of their own
    Closing,      \* those of them that are the last of their run
    Controls,     \* the wait controls, numbered; the group starts with 1
    MaxCalls,     \* bound: the sleeps and gosubs of a script, its gosubs' included
    Acts,         \* what the operator may do
    MaxActs       \* bound: how often he does it

NoControl == 0
NoScript == "nobody"
AllActs == {"cancel", "abort", "stop", "continue", "pause"}

ASSUME WaitsAssumption ==
    /\ NoScript \notin Scripts /\ Closing \subseteq Scripts
    /\ Controls \subseteq Nat \ {NoControl} /\ 1 \in Controls
    /\ MaxCalls \in [Scripts -> Nat] /\ MaxActs \in Nat /\ Acts \subseteq AllActs

(* A script, level 0, and the one it may be in by gosub, level 1.          *)
Nodes == Scripts \X {0, 1}

VARIABLES
    pc,        \* where the thread of a script stands
    level,     \* 1 while the script has a _gosub_script, which then runs
    flags,     \* _cancel, _aborted and _completed of a script
    mine,      \* the _wait_control of a script
    timer,     \* the timer of a control: its thread and its flag
    endEvt,    \* end_evt of a control: whose event it is
    evt,       \* the event of a script's last wait is set
    paused,    \* _paused of a control
    group,     \* wait_group.controls
    active,    \* wait_group.active_control
    calls,     \* bound: what a script has called
    acts,      \* bound: what the operator did
    stopAt,    \* where a stop of the group stands in the list, 0 if none goes on
    hit,       \* history: the script was canceled before its _execute was over
    awaited,   \* history: who was joined when the last stop began, and still is
    races      \* history: how threads have met in the group, see Races

vars == <<pc, level, flags, mine, timer, endEvt, evt, paused, group, active,
          calls, acts, stopAt, hit, awaited, races>>
stops == <<stopAt, awaited>>

(* shared: a script was given the control another was still at; popped:    *)
(* the end of a run took the control of a script out of the group; twice:  *)
(* one thread was about to take a control out as another looked whether it *)
(* may; skipped: a control that a stop had passed was taken out of the     *)
(* list, and that of a joined script, whose turn it was, slipped by.       *)
Races == {"shared", "popped", "twice", "skipped"}

Fresh == [cancel |-> FALSE, abort |-> FALSE, done |-> FALSE]
NoTimer == [thread |-> "none", flag |-> FALSE]
NewTimer == [thread |-> "delay", flag |-> FALSE]

Init ==
    /\ pc = [s \in Scripts |-> "idle"]
    /\ level = [s \in Scripts |-> 0]
    /\ flags = [n \in Nodes |-> Fresh]
    /\ mine = [n \in Nodes |-> NoControl]
    /\ timer = [c \in Controls |-> NoTimer]
    /\ endEvt = [c \in Controls |-> NoScript]
    /\ evt = [s \in Scripts |-> FALSE]
    /\ paused = [c \in Controls |-> FALSE]
    /\ group = <<1>>
    /\ active = 1
    /\ calls = [s \in Scripts |-> 0]
    /\ acts = 0
    /\ hit = [s \in Scripts |-> FALSE]
    /\ races = {}
    /\ stopAt = 0 /\ awaited = {}

(* The script that runs on the thread of s.                                *)
Self(s) == <<s, level[s]>>

(* The decorators of the commands: a canceled or aborted script skips them *)
(* (and a truncated one, but truncate is called with a style, which leaves *)
(* the flag as it is).                                                     *)
Skips(n) == flags[n].cancel \/ flags[n].abort

(* timer.isActive() of a control                                           *)
IsActive(c) == timer[c].thread # "none" /\ ~timer[c].flag

InGroup(c) == c \in Range(group)

(* The thread is done with the script; the run may have to end yet.        *)
Ended == {"done", "pop", "select", "over"}

(* The look at _cancel that decides about the script of s is yet to come.  *)
Undecided(s) == pc[s] \notin Ended \cup {"judged"}

(* The control a script waits in, and whether it is at it: from the choice *)
(* until it is taken out of the group                                      *)
Wait(s) == mine[Self(s)]
At(s) == pc[s] \in {"placed", "signal", "install", "settle", "join", "forget", "leave", "drop"}

----------------------------------------------------------------------------
\* Mutant: the timers are stopped and nobody is told.
EndSilent(cs) ==
    /\ timer' = [c \in Controls |->
                    IF c \in cs /\ timer[c].thread # "none"
                    THEN [timer[c] EXCEPT !.flag = TRUE] ELSE timer[c]]
    /\ evt' = evt

(* WaitControl._end, for all the controls in cs: the timers are stopped    *)
(* and the events set that the controls have at this moment.               *)
End(cs) ==
    /\ timer' = [c \in Controls |->
                    IF c \in cs /\ timer[c].thread # "none"
                    THEN [timer[c] EXCEPT !.flag = TRUE] ELSE timer[c]]
    /\ evt' = [s \in Scripts |-> evt[s] \/ \E c \in cs : endEvt[c] = s]

(* The chain a cancel or an abort of either script of s goes through: the  *)
(* script and, while there is one, its gosub, each only if it is not       *)
(* canceled or aborted yet, save the one that is called.                   *)
Chain(s) == {<<s, l>> : l \in 0..level[s]}

\* Mutant: a gosub that is canceled does not cancel its caller.
CancelScriptAlone(n) ==
    /\ flags' = [flags EXCEPT ![n].cancel = TRUE]
    /\ End({mine[n]} \ {NoControl})
    /\ hit' = [hit EXCEPT ![n[1]] = @ \/ Undecided(n[1])]

CancelScript(n) ==
    LET s == n[1]
        reached == {m \in Chain(s) : m = n \/ ~flags[m].cancel}
    IN  /\ flags' = [m \in Nodes |-> IF m \in reached
                                     THEN [flags[m] EXCEPT !.cancel = TRUE] ELSE flags[m]]
        /\ End({mine[m] : m \in reached} \ {NoControl})
        /\ hit' = [hit EXCEPT ![s] = @ \/ Undecided(s)]

AbortScript(n) ==
    LET reached == {m \in Chain(n[1]) : m = n \/ ~flags[m].abort}
    IN  /\ flags' = [m \in Nodes |-> IF m \in reached
                                     THEN [flags[m] EXCEPT !.abort = TRUE] ELSE flags[m]]
        /\ End({mine[m] : m \in reached} \ {NoControl})

----------------------------------------------------------------------------
(* The thread of a script.                                                 *)
(* execute: the file is read and, unless it was, its syntax is tested.     *)
Execute(s) ==
    /\ pc[s] = "idle"
    /\ pc' = [pc EXCEPT ![s] = "boot"]
    /\ UNCHANGED <<level, flags, mine, timer, endEvt, evt, paused, group, active,
                   calls, acts, stops, hit, races>>

(* The start of _execute takes back what was asked of the script before,   *)
(* an abort excepted.                                                      *)
ResetFlags(s) ==
    /\ pc[s] = "boot"
    /\ flags' = [flags EXCEPT ![Self(s)] = [Fresh EXCEPT !.abort = flags[Self(s)].abort]]
    /\ hit' = IF level[s] = 0 THEN [hit EXCEPT ![s] = FALSE] ELSE hit
    /\ pc' = [pc EXCEPT ![s] = "body"]
    /\ UNCHANGED <<level, mine, timer, endEvt, evt, paused, group, active, calls, acts, stops, races>>

(* sleep: the flags are looked at once, then the wait is made.             *)
Sleep(s) ==
    /\ pc[s] = "body" /\ calls[s] < MaxCalls[s]
    /\ ~Skips(Self(s))
    /\ calls' = [calls EXCEPT ![s] = @ + 1]
    /\ pc' = [pc EXCEPT ![s] = "asked"]
    /\ UNCHANGED <<level, flags, mine, timer, endEvt, evt, paused, group, active, acts, stops, hit, races>>

(* A control that nobody refers to any more: the next WaitControl().       *)
Unused == {c \in Controls \ {active} : ~InGroup(c) /\ \A n \in Nodes : mine[n] # c}

(* get_wait_control: the active control, or a new one if its timer runs.   *)
Given(c) == IF IsActive(active) THEN c \in Unused /\ \A d \in Unused : c <= d ELSE c = active

(* The control is in the hands of s: a new one as it is made, another as   *)
(* it was left.                                                            *)
Hand(s, c) ==
    /\ mine' = [mine EXCEPT ![Self(s)] = c]
    /\ active' = c
    /\ timer' = IF c = active THEN timer ELSE [timer EXCEPT ![c] = NoTimer]
    /\ endEvt' = IF c = active THEN endEvt ELSE [endEvt EXCEPT ![c] = NoScript]
    /\ paused' = IF c = active THEN paused ELSE [paused EXCEPT ![c] = FALSE]
    /\ races' = IF \E t \in Scripts \ {s} : At(t) /\ Wait(t) = c
                THEN races \cup {"shared"} ELSE races
    /\ pc' = [pc EXCEPT ![s] = "placed"]
    /\ UNCHANGED <<level, flags, evt, calls, acts, stops, hit>>

\* Nobody else is between the choice of a control and its activation.
BlockLock == \A t \in Scripts : pc[t] # "placed"

\* Mutant: nobody asks whether the control is in the group.
ChooseAgain(s) ==
    /\ pc[s] = "asked" /\ BlockLock
    /\ \E c \in Controls : Given(c) /\ Hand(s, c) /\ group' = Append(group, c)

(* _setup_wait_control, under the block lock, which the pop of the group   *)
(* does not take: the control is chosen and put into the group ...         *)
Choose(s) ==
    /\ pc[s] = "asked" /\ BlockLock
    /\ \E c \in Controls :
        /\ Given(c) /\ Hand(s, c)
        /\ group' = IF InGroup(c) THEN group ELSE Append(group, c)

(* ... and made the active one.                                            *)
Activate(s) ==
    /\ pc[s] = "placed"
    /\ active' = Wait(s)
    /\ pc' = [pc EXCEPT ![s] = "signal"]
    /\ UNCHANGED <<level, flags, mine, timer, endEvt, evt, paused, group, calls, acts, stops, hit, races>>

(* WaitControl.start: whoever still waits for the control is let go, ...   *)
Signal(s) ==
    /\ pc[s] = "signal"
    /\ evt' = [t \in Scripts |-> evt[t] \/ endEvt[Wait(s)] = t]
    /\ pc' = [pc EXCEPT ![s] = "install"]
    /\ UNCHANGED <<level, flags, mine, timer, endEvt, paused, group, active, calls, acts, stops, hit, races>>

(* ... a new event takes its place, the old timer is told to stop, ...     *)
Install(s) ==
    /\ pc[s] = "install"
    /\ endEvt' = [endEvt EXCEPT ![Wait(s)] = s]
    /\ evt' = [evt EXCEPT ![s] = FALSE]
    /\ timer' = [timer EXCEPT ![Wait(s)].flag = @ \/ timer[Wait(s)].thread # "none"]
    /\ pc' = [pc EXCEPT ![s] = "settle"]
    /\ UNCHANGED <<level, flags, mine, paused, group, active, calls, acts, stops, hit, races>>

\* Mutant: the flag of the old timer is not taken back.
ArmFlagged(s) ==
    /\ pc[s] = "settle"
    /\ ~IsActive(Wait(s))
    /\ timer' = [timer EXCEPT ![Wait(s)].thread = "delay"]
    /\ paused' = [paused EXCEPT ![Wait(s)] = FALSE]
    /\ pc' = [pc EXCEPT ![s] = "join"]
    /\ UNCHANGED <<level, flags, mine, endEvt, evt, group, active, calls, acts, stops, hit, races>>

(* ... is waited for until its flag is seen, and a new timer counts.       *)
Arm(s) ==
    /\ pc[s] = "settle"
    /\ ~IsActive(Wait(s))
    /\ timer' = [timer EXCEPT ![Wait(s)] = NewTimer]
    /\ paused' = [paused EXCEPT ![Wait(s)] = FALSE]
    /\ pc' = [pc EXCEPT ![s] = "join"]
    /\ UNCHANGED <<level, flags, mine, endEvt, evt, group, active, calls, acts, stops, hit, races>>

(* join returns when the event is set; the control then forgets the event  *)
(* if it is still this one.                                                *)
Joined(s) ==
    /\ pc[s] = "join"
    /\ evt[s]
    /\ pc' = [pc EXCEPT ![s] = IF endEvt[Wait(s)] = s THEN "forget" ELSE "leave"]
    /\ awaited' = awaited \ {s}
    /\ UNCHANGED <<level, flags, mine, timer, endEvt, evt, paused, group, active,
                   calls, acts, stopAt, hit, races>>

Forget(s) ==
    /\ pc[s] = "forget"
    /\ endEvt' = [endEvt EXCEPT ![Wait(s)] = NoScript]
    /\ pc' = [pc EXCEPT ![s] = "leave"]
    /\ UNCHANGED <<level, flags, mine, timer, evt, paused, group, active, calls, acts, stops, hit, races>>

Removing == {"drop", "pop"}

\* Mutant: the last control is not kept.
LeaveAlways(s) ==
    /\ pc[s] = "leave" \/ (pc[s] = "done" /\ s \in Closing)
    /\ pc' = [pc EXCEPT ![s] = IF pc[s] = "leave" THEN "drop" ELSE "pop"]
    /\ UNCHANGED <<level, flags, mine, timer, endEvt, evt, paused, group, active,
                   calls, acts, stops, hit, races>>

(* wait_group.pop: of a script with its control, and of the executor at    *)
(* the end of a run without one.  The last control of the group stays; ... *)
Leave(s) ==
    /\ pc[s] = "leave" \/ (pc[s] = "done" /\ s \in Closing)
    /\ IF Len(group) > 1
       THEN /\ pc' = [pc EXCEPT ![s] = IF pc[s] = "leave" THEN "drop" ELSE "pop"]
            /\ races' = IF \E t \in Scripts \ {s} : pc[t] \in Removing
                        THEN races \cup {"twice"} ELSE races
       ELSE /\ pc' = [pc EXCEPT ![s] = IF pc[s] = "leave" THEN "body" ELSE "over"]
            /\ UNCHANGED races
    /\ UNCHANGED <<level, flags, mine, timer, endEvt, evt, paused, group, active,
                   calls, acts, stops, hit>>

(* A stop has passed the control of s, and has come to that of a script    *)
(* that waits for it.                                                      *)
Slips(s) ==
    /\ \E i \in 1..Len(group) : i < stopAt /\ group[i] = Wait(s)
    /\ \E t \in awaited : stopAt \in 1..Len(group) /\ group[stopAt] = Wait(t)

(* ... the control is taken out, if it is in, ...                          *)
Drop(s) ==
    /\ pc[s] = "drop"
    /\ group' = RemoveFirst(group, Wait(s))
    /\ pc' = [pc EXCEPT ![s] = "last"]
    /\ races' = IF Slips(s) THEN races \cup {"skipped"} ELSE races
    /\ UNCHANGED <<level, flags, mine, timer, endEvt, evt, paused, active, calls, acts, stops, hit>>

(* ... or the last one, whoever is at it; ...                              *)
PopLast(s) ==
    /\ pc[s] = "pop"
    /\ group' = Front(group)
    /\ pc' = [pc EXCEPT ![s] = IF group = <<>> THEN "over" ELSE "select"]
    /\ races' = IF \E t \in Scripts : At(t) /\ group # <<>> /\ Wait(t) = Last(group)
                THEN races \cup {"popped"} ELSE races
    /\ UNCHANGED <<level, flags, mine, timer, endEvt, evt, paused, active, calls, acts, stops, hit>>

(* ... and the last one is the active one.  If there is none left that     *)
(* raises.                                                                 *)
Reselect(s) ==
    /\ pc[s] \in {"last", "select"}
    /\ active' = IF group = <<>> THEN active ELSE Last(group)
    /\ pc' = [pc EXCEPT ![s] = IF @ = "select" THEN "over"
                               ELSE IF group = <<>> THEN "raised" ELSE "body"]
    /\ UNCHANGED <<level, flags, mine, timer, endEvt, evt, paused, group, calls, acts, stops, hit, races>>

(* gosub: not one of the commands the decorators skip.  It looks at        *)
(* _cancel only, and the new script knows nothing of an abort.             *)
Gosub(s) ==
    /\ pc[s] = "body" /\ level[s] = 0 /\ calls[s] < MaxCalls[s]
    /\ ~flags[Self(s)].cancel
    /\ calls' = [calls EXCEPT ![s] = @ + 1]
    /\ level' = [level EXCEPT ![s] = 1]
    /\ flags' = [flags EXCEPT ![<<s, 1>>] = Fresh]
    /\ mine' = [mine EXCEPT ![<<s, 1>>] = NoControl]
    /\ pc' = [pc EXCEPT ![s] = "boot"]
    /\ UNCHANGED <<timer, endEvt, evt, paused, group, active, acts, stops, hit, races>>

(* exit, or a command that fails in a way that cancels the script.         *)
Exit(s) ==
    /\ pc[s] = "body"
    /\ ~Skips(Self(s))
    /\ CancelScript(Self(s))
    /\ UNCHANGED <<pc, level, mine, endEvt, paused, group, active, calls, acts, stops, races>>

(* The end of a gosub: whatever came of it, its caller goes on and forgets *)
(* it.                                                                     *)
Return(s) ==
    /\ pc[s] \in {"body", "raised"} /\ level[s] = 1
    /\ level' = [level EXCEPT ![s] = 0]
    /\ flags' = [flags EXCEPT ![<<s, 1>>] = Fresh]
    /\ mine' = [mine EXCEPT ![<<s, 1>>] = NoControl]
    /\ pc' = [pc EXCEPT ![s] = "body"]
    /\ UNCHANGED <<timer, endEvt, evt, paused, group, active, calls, acts, stops, hit, races>>

(* The end of _execute: main returned or raised, and _cancel is looked at. *)
(* A script that was canceled or raised does not count as completed, ...   *)
Fail(s) ==
    /\ pc[s] \in {"body", "raised"} /\ level[s] = 0
    /\ pc' = [pc EXCEPT ![s] = "done"]
    /\ UNCHANGED <<level, flags, mine, timer, endEvt, evt, paused, group, active,
                   calls, acts, stops, hit, races>>

Judge(s) ==
    /\ pc[s] = "body" /\ level[s] = 0
    /\ ~flags[Self(s)].cancel
    /\ pc' = [pc EXCEPT ![s] = "judged"]
    /\ UNCHANGED <<level, flags, mine, timer, endEvt, evt, paused, group, active,
                   calls, acts, stops, hit, races>>

(* ... any other one does, one that was aborted included.                  *)
Finish(s) ==
    /\ pc[s] = "judged"
    /\ flags' = [flags EXCEPT ![Self(s)].done = TRUE]
    /\ pc' = [pc EXCEPT ![s] = "done"]
    /\ UNCHANGED <<level, mine, timer, endEvt, evt, paused, group, active,
                   calls, acts, stops, hit, races>>

Thread(s) ==
    \/ Execute(s) \/ ResetFlags(s) \/ Sleep(s) \/ Choose(s) \/ Activate(s) \/ Signal(s)
    \/ Install(s) \/ Arm(s) \/ Joined(s) \/ Forget(s)
    \/ Leave(s) \/ Drop(s) \/ PopLast(s) \/ Reselect(s)
    \/ Gosub(s) \/ Exit(s) \/ Return(s) \/ Fail(s) \/ Judge(s) \/ Finish(s)

----------------------------------------------------------------------------
(* The timers.  The delay ends after a second or when the flag is set, and *)
(* then clears the flag: a stop in the first second is taken back.         *)
TimerStarts(c) ==
    /\ timer[c].thread = "delay"
    /\ timer' = [timer EXCEPT ![c] = [thread |-> "loop", flag |-> FALSE]]
    /\ UNCHANGED <<pc, level, flags, mine, endEvt, evt, paused, group, active,
                   calls, acts, stops, hit, races>>

(* _update_time has counted down to nothing.                               *)
Elapse(c) ==
    /\ timer[c].thread = "loop" /\ IsActive(c)
    /\ ~paused[c]
    /\ End({c})
    /\ UNCHANGED <<pc, level, flags, mine, endEvt, paused, group, active, calls, acts, stops, hit, races>>

TimerThread(c) == TimerStarts(c) \/ Elapse(c)

----------------------------------------------------------------------------
(* The operator.                                                           *)
Act(a) == a \in Acts /\ acts < MaxActs /\ acts' = acts + 1

(* cancel_run, and the executor's _cancel: script.cancel().                *)
Cancel(s) ==
    /\ Act("cancel")
    /\ CancelScript(<<s, 0>>)
    /\ UNCHANGED <<pc, level, mine, endEvt, paused, group, active, calls, stops, races>>

Abort(s) ==
    /\ Act("abort")
    /\ AbortScript(<<s, 0>>)
    /\ UNCHANGED <<pc, level, mine, endEvt, paused, group, active, calls, stops, hit, races>>

(* wait_group.stop: the executor goes through the list of its controls,    *)
(* which has no lock, ...                                                  *)
StopGroup ==
    /\ stopAt = 0 /\ Act("stop")
    /\ stopAt' = 1
    /\ awaited' = {s \in Scripts : pc[s] = "join"}
    /\ UNCHANGED <<pc, level, flags, mine, timer, endEvt, evt, paused, group, active, calls, hit, races>>

\* Mutant: the last of the list is not ended.
StopNextShort ==
    /\ stopAt # 0
    /\ \/ /\ stopAt < Len(group)
          /\ End({group[stopAt]})
          /\ stopAt' = stopAt + 1
          /\ UNCHANGED awaited
       \/ /\ stopAt >= Len(group)
          /\ stopAt' = 0
          /\ awaited' = {s \in awaited : ~evt[s]}
          /\ UNCHANGED <<timer, evt>>
    /\ UNCHANGED <<pc, level, flags, mine, endEvt, paused, group, active, calls, acts, hit, races>>

(* ... and ends the wait of the one it has come to, by its place in the    *)
(* list as it then is.                                                     *)
StopNext ==
    /\ stopAt # 0
    /\ \/ /\ stopAt <= Len(group)
          /\ End({group[stopAt]})
          /\ stopAt' = stopAt + 1
          /\ UNCHANGED awaited
       \/ /\ stopAt > Len(group)
          /\ stopAt' = 0
          /\ awaited' = {s \in awaited : ~evt[s]}
          /\ UNCHANGED <<timer, evt>>
    /\ UNCHANGED <<pc, level, flags, mine, endEvt, paused, group, active, calls, acts, hit, races>>

(* The continue button of the control that is shown                        *)
Continue ==
    /\ Act("continue")
    /\ paused' = [paused EXCEPT ![active] = FALSE]
    /\ End({active})
    /\ UNCHANGED <<pc, level, flags, mine, endEvt, group, active, calls, stops, hit, races>>

(* and its pause button.                                                   *)
Pause ==
    /\ Act("pause")
    /\ paused' = [paused EXCEPT ![active] = ~@]
    /\ UNCHANGED <<pc, level, flags, mine, timer, endEvt, evt, group, active, calls, stops, hit, races>>

Operator ==
    \/ \E s \in Scripts : Cancel(s) \/ Abort(s)
    \/ StopGroup \/ Continue \/ Pause

Next ==
    \/ StopNext
    \/ \E s \in Scripts : Thread(s)
    \/ \E c \in Controls : TimerThread(c)
    \/ Operator

(* Threads go on, a stop that has begun too, and a timer that is not       *)
(* stopped ticks.  Nothing is asked of the operator.                       *)
Fairness ==
    /\ WF_vars(StopNext)
    /\ \A s \in Scripts : WF_vars(Thread(s))
    /\ \A c \in Controls : WF_vars(TimerThread(c))

Spec == Init /\ [][Next]_vars /\ Fairness

----------------------------------------------------------------------------
(* The records are what they are said to be, and no control is twice in    *)
(* the group, whoever puts one in while others take theirs out: a stop     *)
(* would else reach it after its wait is over.                             *)
TypeOK ==
    /\ pc \in [Scripts -> {"idle", "boot", "body", "raised", "judged", "asked", "placed", "signal",
                           "install", "settle", "join", "forget", "leave", "drop", "last"}
                           \cup Ended]
    /\ level \in [Scripts -> {0, 1}]
    /\ flags \in [Nodes -> [cancel : BOOLEAN, abort : BOOLEAN, done : BOOLEAN]]
    /\ mine \in [Nodes -> Controls \cup {NoControl}]
    /\ timer \in [Controls -> [thread : {"none", "delay", "loop"}, flag : BOOLEAN]]
    /\ endEvt \in [Controls -> Scripts \cup {NoScript}]
    /\ evt \in [Scripts -> BOOLEAN] /\ paused \in [Controls -> BOOLEAN]
    /\ group \in Seq(Controls) /\ IsInjective(group) /\ active \in Controls
    /\ \A s \in Scripts : calls[s] \in 0..MaxCalls[s]
    /\ acts \in 0..MaxActs /\ hit \in [Scripts -> BOOLEAN] /\ races \subseteq Races
    /\ stopAt \in Nat /\ awaited \subseteq Scripts

(* A script that was canceled after it began, and before its end looks at  *)
(* the flag, does not count as completed: whether the operator canceled it *)
(* or its gosub did, at whatever level it was.  The extraction of a        *)
(* canceled run is not reported as done.                                   *)
CanceledIncomplete == \A s \in Scripts : hit[s] => ~flags[<<s, 0>>].done

(* A stop reaches who waits.  A script that is joined has its event at its *)
(* control and the control in the group, where cancel, stop and the timer  *)
(* find it, unless it was given the control of another or the end of a run *)
(* took its own out; and who was joined when a stop began has been told    *)
(* when it is over, or the stop has yet to come to his control, unless a   *)
(* control it had passed was taken out of the list and it skipped one.     *)
StopReaches ==
    /\ races \cap {"shared", "popped"} = {} =>
         \A s \in Scripts : pc[s] = "join" => endEvt[Wait(s)] = s /\ InGroup(Wait(s))
    /\ races \cap {"shared", "popped", "skipped"} = {} =>
         \A s \in awaited :
            \/ evt[s]
            \/ stopAt # 0 /\ \E i \in stopAt..Len(group) : group[i] = Wait(s)

(* No wait is without its end: a script that is joined and not yet told    *)
(* has a timer that counts for it, unless it was given the control of      *)
(* another or the other its own.  A stop, a cancel or a continue, the end  *)
(* of the first second, which takes a stop back, and the next wait in the  *)
(* same control meet it in any order.                                      *)
Wakes ==
    "shared" \notin races =>
        \A s \in Scripts : pc[s] = "join" /\ ~evt[s] => IsActive(Wait(s))

(* The group is never empty, unless two pops meet, and the control that    *)
(* get_wait_control looks at and the user sees is one of it, unless        *)
(* threads met in any of the ways: a pop may not take it from under the    *)
(* others.                                                                 *)
GroupKept ==
    /\ "twice" \notin races => group # <<>>
    /\ races = {} => InGroup(active) \/ \E s \in Scripts : pc[s] \in {"last", "select"}

(* A script comes to its end, through all of its waits, whatever the       *)
(* operator does and however his stops meet the timers, unless a wait is   *)
(* left paused or two scripts share a control.                             *)
ScriptEnds ==
    (<>[](\A c \in Controls : ~paused[c]) /\ []("shared" \notin races)) =>
        \A s \in Scripts : (pc[s] = "boot") ~> (pc[s] \in Ended)
====
