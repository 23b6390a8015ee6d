---- MODULE StatusMonitor ----
(***************************************************************************)
(* The status monitor of a client: the thread that asks the line's         *)
(* computer for the states, locks and owners of the switches, and the      *)
(* calls that start and stop it.  The user interface starts it with the    *)
(* task and stops it with the window; the executor stops and starts it     *)
(* before every extraction.  Both call from threads of their own and use   *)
(* the same id; nothing is locked.                                         *)
(*                                                                         *)
(* The monitor's thread looks at the event in _stop_evt, whichever it is   *)
(* at the time.  A start replaces the event, one and a half periods after  *)
(* it has set the old one; an iteration that waits for an answer can take  *)
(* longer, so no step here is bound to another by time.                    *)
(***************************************************************************)
EXTENDS Naturals

CONSTANTS
    Callers,    \* the threads that start and stop the monitor
    Jobs,       \* what each of them calls
    Freq,       \* state_freq, lock_freq, owner_freq; zero is never
    Wrap,       \* the iteration after which the count starts again, 100
    MaxCalls    \* bound: the calls of all callers

Kinds == {"state", "lock", "owner"}

ASSUME MonitorAssumption ==
    /\ Jobs \in [Callers -> SUBSET {"start", "stop", "setup"}]
    /\ Freq \in [Kinds -> Nat] /\ Wrap \in Nat /\ MaxCalls \in Nat

(* A monitor thread has the number of the event it was started with.       *)
Threads == 1..MaxCalls

VARIABLES
    pc,         \* where a caller is
    job,        \* what it calls
    clients,    \* how often the id is in _clients
    evt,        \* _stop_evt; zero is None
    isSet,      \* the events that are set
    at,         \* where a monitor thread is
    i,          \* the count of its iterations
    calls,      \* bound
    overlap     \* history: a call was begun while another was under way

monitor == <<clients, evt, isSet>>
monitorVars == <<pc, job, monitor, at, i, calls, overlap>>

MonitorInit ==
    /\ pc = [c \in Callers |-> "idle"]
    /\ job = [c \in Callers |-> "stop"]
    /\ clients = 0 /\ evt = 0 /\ isSet = {}
    /\ at = [t \in Threads |-> "none"]
    /\ i = [t \in Threads |-> 0]
    /\ calls = 0 /\ overlap = FALSE

(* isAlive, and what the thread looks at                                   *)
Stopped == evt \in isSet

Goto(c, label) == pc' = [pc EXCEPT ![c] = label]

----------------------------------------------------------------------------
(* The callers.                                                            *)
Request(c, j) ==
    /\ pc[c] = "idle" /\ calls < MaxCalls
    /\ j \in Jobs[c]
    /\ Goto(c, IF j = "start" THEN "look" ELSE "remove")
    /\ job' = [job EXCEPT ![c] = j]
    /\ calls' = calls + 1
    /\ overlap' = (overlap \/ \E d \in Callers \ {c} : pc[d] # "idle")
    /\ UNCHANGED <<monitor, at, i>>

(* stop: the id is taken off the list once, if it is there.                *)
TakeOff(c) ==
    /\ pc[c] = "remove"
    /\ clients' = IF clients = 0 THEN 0 ELSE clients - 1
    /\ Goto(c, "alone")
    /\ UNCHANGED <<job, evt, isSet, at, i, calls, overlap>>

\* Mutant: the event stays as it is when the last client leaves.
AloneUnset(c) ==
    /\ pc[c] = "alone"
    /\ Goto(c, IF job[c] = "setup" THEN "look" ELSE "idle")
    /\ UNCHANGED <<job, monitor, at, i, calls, overlap>>

(* The last one sets the event.  setup_status_monitor goes on with start.  *)
Alone(c) ==
    /\ pc[c] = "alone"
    /\ isSet' = IF clients = 0 THEN isSet \cup ({evt} \ {0}) ELSE isSet
    /\ Goto(c, IF job[c] = "setup" THEN "look" ELSE "idle")
    /\ UNCHANGED <<job, clients, evt, at, i, calls, overlap>>

\* Mutant: nobody asks whether there is an old event to set.
LookUnguarded(c) ==
    /\ pc[c] = "look"
    /\ IF clients = 0
       THEN isSet' = isSet \cup {evt} /\ Goto(c, "launch")
       ELSE Goto(c, "enlist") /\ UNCHANGED isSet
    /\ UNCHANGED <<job, clients, evt, at, i, calls, overlap>>

(* start: with a client there is a monitor already.  If there is none, the *)
(* old event is set and the caller sleeps.                                 *)
Look(c) ==
    /\ pc[c] = "look"
    /\ IF clients = 0
       THEN isSet' = isSet \cup ({evt} \ {0}) /\ Goto(c, "launch")
       ELSE Goto(c, "enlist") /\ UNCHANGED isSet
    /\ UNCHANGED <<job, clients, evt, at, i, calls, overlap>>

\* Mutant: an event that is there is used again.
LaunchOld(c) ==
    /\ pc[c] = "launch"
    /\ evt' = IF evt = 0 THEN 1 ELSE evt
    /\ at' = [at EXCEPT ![evt'] = "sleep"]
    /\ Goto(c, "enlist")
    /\ UNCHANGED <<job, clients, isSet, i, calls, overlap>>

(* A new event and a new thread                                            *)
Launch(c) ==
    /\ pc[c] = "launch"
    /\ evt' = evt + 1
    /\ at' = [at EXCEPT ![evt'] = "sleep"]
    /\ Goto(c, "enlist")
    /\ UNCHANGED <<job, clients, isSet, i, calls, overlap>>

(* What follows a start: setup_status_monitor refreshes owners, locks and  *)
(* states itself, with refresh_states.                                     *)
AfterStart(c) == Goto(c, IF job[c] = "setup" THEN "owner" ELSE "idle")

(* The id is looked for in the list, ...                                   *)
Enlist(c) ==
    /\ pc[c] = "enlist"
    /\ IF clients = 0 THEN Goto(c, "append") ELSE AfterStart(c)
    /\ UNCHANGED <<job, monitor, at, i, calls, overlap>>

(* ... and appended, if it was not there.                                  *)
PutOn(c) ==
    /\ pc[c] = "append"
    /\ clients' = clients + 1
    /\ AfterStart(c)
    /\ UNCHANGED <<job, evt, isSet, at, i, calls, overlap>>

Refreshed(c, kind) ==
    /\ pc[c] = kind
    /\ Goto(c, [owner |-> "lock", lock |-> "state", state |-> "idle"][kind])
    /\ UNCHANGED <<job, monitor, at, i, calls, overlap>>

----------------------------------------------------------------------------
(* A monitor thread.                                                       *)
Step(t, label) == at' = [at EXCEPT ![t] = label]

Due(t, kind) == Freq[kind] # 0 /\ i[t] % Freq[kind] = 0

(* The end of the sleep: the thread looks at the event.                    *)
Wake(t) ==
    /\ at[t] = "sleep"
    /\ Step(t, IF Stopped THEN "over" ELSE "state")
    /\ UNCHANGED <<pc, job, monitor, i, calls, overlap>>

(* One of the three loads of an iteration, or the one that is not due      *)
Past(t, kind) ==
    /\ at[t] = kind
    /\ Step(t, [state |-> "lock", lock |-> "owner", owner |-> "end"][kind])
    /\ UNCHANGED <<pc, job, monitor, i, calls, overlap>>

Skip(t, kind) == ~Due(t, kind) /\ Past(t, kind)

\* Mutant: the count starts again one iteration earlier.
NextCountEarly(n) == IF n >= Wrap THEN 1 ELSE n + 1

NextCount(n) == IF n > Wrap THEN 1 ELSE n + 1

(* The checksum changes nothing; the event is looked at once more.         *)
EndIteration(t) ==
    /\ at[t] = "end"
    /\ IF Stopped
       THEN Step(t, "over") /\ UNCHANGED i
       ELSE Step(t, "sleep") /\ i' = [i EXCEPT ![t] = NextCount(@)]
    /\ UNCHANGED <<pc, job, monitor, calls, overlap>>

----------------------------------------------------------------------------
Call(c) ==
    \/ TakeOff(c) \/ Alone(c) \/ Look(c) \/ Launch(c) \/ Enlist(c) \/ PutOn(c)

(* What a thread does by itself; a load takes an answer.                   *)
Turn(t) == Wake(t) \/ EndIteration(t) \/ \E kind \in Kinds : Skip(t, kind)

Load(t) == \E kind \in Kinds : Due(t, kind) /\ Past(t, kind)

Refresh(c) == \E kind \in Kinds : Refreshed(c, kind)

MonitorNext ==
    \/ \E c \in Callers : Call(c) \/ Refresh(c) \/ \E j \in Jobs[c] : Request(c, j)
    \/ \E t \in Threads : Turn(t) \/ Load(t)

(* The threads go on, and messages are answered or time out.               *)
MonitorSpec ==
    /\ MonitorInit /\ [][MonitorNext]_monitorVars
    /\ \A c \in Callers : WF_monitorVars(Call(c) \/ Refresh(c))
    /\ \A t \in Threads : WF_monitorVars(Turn(t) \/ Load(t))

----------------------------------------------------------------------------
(* Callers and threads are where they can be; an event is set only after   *)
(* it was made, and no thread runs for an event that was not.              *)
MonitorTypeOK ==
    /\ pc \in [Callers -> {"idle", "remove", "alone", "look", "launch", "enlist",
                           "append"} \cup Kinds]
    /\ job \in [Callers -> {"start", "stop", "setup"}]
    /\ clients \in Nat /\ evt \in 0..MaxCalls /\ isSet \subseteq 1..evt
    /\ at \in [Threads -> {"none", "sleep", "end", "over"} \cup Kinds]
    /\ \A t \in Threads : at[t] = "none" <=> t > evt
    /\ i \in [Threads -> 0..(Wrap + 1)] /\ calls \in 0..MaxCalls
    /\ overlap \in BOOLEAN

Quiet == \A c \in Callers : pc[c] = "idle"
Running(t) == at[t] \notin {"none", "over"}

(* When the last client has left, every thread ends: also one that was     *)
(* still busy when a start replaced the event it was started with, and two *)
(* that two callers started at once.                                       *)
ThreadsEnd ==
    (Quiet /\ clients = 0) ~> (~(Quiet /\ clients = 0) \/ \A t \in Threads : ~Running(t))

(* When the last client has left, the event is set, however the calls of   *)
(* its starts and stops overlapped: that no thread is left asking for      *)
(* nobody.                                                                 *)
Silenced == Quiet /\ clients = 0 => evt = 0 \/ Stopped

(* While there is a client the monitor runs, as long as no calls have      *)
(* overlapped: a call of start that finds a client, and says that the      *)
(* monitor is running already, is right, and no thread of an earlier start *)
(* that is still busy ends or keeps the new one.                           *)
Watched ==
    ~overlap => (Quiet /\ clients > 0 => ~Stopped /\ \E t \in Threads : Running(t))
====
