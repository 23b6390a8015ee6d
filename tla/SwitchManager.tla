---- MODULE SwitchManager ----
(***************************************************************************)
(* The valve switch manager of the extraction line: the open and close     *)
(* calls of ExtractionLineManager and SwitchManager with their ownership,  *)
(* interlock, enabled and lock checks, the actuation of a switch and its   *)
(* read-back, the children that follow their parent, the pipette shot      *)
(* trackers, and the two readers that overwrite a recorded state from the  *)
(* hardware (the update timer and the remote state query).                 *)
(*                                                                         *)
(* Every caller is a thread of its own (an operator's sample or cycle      *)
(* thread, a script, a remote client), so a call is cut into the steps     *)
(* between which another thread can run: nothing in the code makes the     *)
(* interlock check and the actuation one step.                             *)
(***************************************************************************)
EXTENDS Naturals, Sequences, FiniteSets

CONSTANTS
    Switches,            \* the keys of SwitchManager.switches
    ManualSwitches,      \* those of class ManualSwitch
    PlainSwitches,       \* those of class Switch itself, not HardwareValve
    Interlocks,          \* switch |-> its interlocks
    PositiveInterlocks,  \* switch |-> its positive interlocks
    Parent,              \* switch |-> its parent, or NoSwitch
    ParentInverted,      \* the children that move against their parent
    InvertedLogic,       \* the switches open when their channel is closed
    CheckActuation,      \* the switches whose actuation is read back
    QueryState,          \* the switches polled for their state
    Trackers,            \* sequence of [inner, outer]: pipette_trackers
    Actors,              \* the calling threads
    Operates,            \* actor |-> the switches it operates
    SenderAddress,       \* actor |-> the address its calls carry
    Addresses,           \* the addresses a switch can be owned by
    CheckMasterOwner,    \* preference check_master_owner
    Faults,              \* what the hardware may do wrong
    Managed,             \* the switches whose lock, owner, enabled flag change
    MaxCalls,            \* bound: top-level calls of a behaviour
    NoSwitch, NoOwner, NoCall, NoReading

Actions == {"open", "close"}
AllFaults == {"refuse", "stuck", "lost_ack", "blind"}
Readers == {"update", "remote"}
Places == {"idle", "check", "act", "sent", "noack", "moved", "shot", "count", "clear"}
TrackerIds == DOMAIN Trackers

Calls == [valve : Switches, action : Actions, child : BOOLEAN, root : Actions]
Readings == [valve : Switches, value : BOOLEAN]

ASSUME SwitchAssumption ==
    /\ ManualSwitches \subseteq Switches /\ PlainSwitches \subseteq Switches
    /\ Interlocks \in [Switches -> SUBSET Switches]
    /\ PositiveInterlocks \in [Switches -> SUBSET Switches]
    /\ Parent \in [Switches -> Switches \cup {NoSwitch}]
    /\ Operates \in [Actors -> SUBSET Switches]
    /\ Trackers \in Seq([inner : Switches, outer : Switches])
    /\ SenderAddress \in [Actors -> Addresses]
    /\ NoSwitch \notin Switches /\ NoOwner \notin Addresses
    /\ NoCall \notin Calls /\ NoReading \notin Readings
    /\ CheckMasterOwner \in BOOLEAN
    /\ Faults \subseteq AllFaults
    /\ MaxCalls \in Nat /\ IsFiniteSet(Actors)

VARIABLES
    state,      \* switch.state: what the program believes, TRUE is open
    phys,       \* where the switch really is (hardware)
    lock,       \* switch.software_lock
    enabled,    \* switch.enabled
    owner,      \* switch.owner
    loaded,     \* tracker._shot_loaded
    counts,     \* tracker.counts
    pc,         \* where each thread stands in its call
    cur,        \* the call each thread is executing
    todo,       \* the children its parent call has still to actuate
    shown,      \* the tracker each thread shows its opening to
    poll,       \* what each reader read and has not yet written
    calls,      \* bound: top-level calls so far
    loads,      \* history: how often each tracker's inner switch was opened
    doubled     \* history: how often a load that was being counted was found

vars == <<state, phys, lock, enabled, owner, loaded, counts, pc, cur, todo,
          shown, poll, calls, loads, doubled>>
settings == <<lock, enabled, owner>>
shots == <<loaded, counts, shown, loads, doubled>>
control == <<pc, cur, todo>>

TypeOK ==
    /\ state \in [Switches -> BOOLEAN] /\ phys \in [Switches -> BOOLEAN]
    /\ lock \in [Switches -> BOOLEAN] /\ enabled \in [Switches -> BOOLEAN]
    /\ owner \in [Switches -> Addresses \cup {NoOwner}]
    /\ loaded \in [TrackerIds -> BOOLEAN]
    /\ counts \in [TrackerIds -> Nat] /\ loads \in [TrackerIds -> Nat]
    /\ doubled \in [TrackerIds -> Nat]
    /\ pc \in [Actors -> Places]
    /\ cur \in [Actors -> Calls \cup {NoCall}]
    /\ \A a \in Actors : pc[a] # "idle" => cur[a] \in Calls
    /\ todo \in [Actors -> SUBSET Switches]
    /\ shown \in [Actors -> Nat]
    /\ \A a \in Actors : pc[a] \in {"count", "clear"} => shown[a] \in TrackerIds
    /\ poll \in [Readers -> Readings \cup {NoReading}]
    /\ calls \in Nat

\* A started program has polled the hardware: recorded and real states agree.
Init ==
    /\ phys = [v \in Switches |-> FALSE]
    /\ state = phys
    /\ lock = [v \in Switches |-> FALSE]
    /\ enabled = [v \in Switches |-> TRUE]
    /\ owner = [v \in Switches |-> NoOwner]
    /\ loaded = [i \in TrackerIds |-> FALSE]
    /\ counts = [i \in TrackerIds |-> 0]
    /\ loads = [i \in TrackerIds |-> 0]
    /\ doubled = [i \in TrackerIds |-> 0]
    /\ pc = [a \in Actors |-> "idle"]
    /\ cur = [a \in Actors |-> NoCall]
    /\ todo = [a \in Actors |-> {}]
    /\ shown = [a \in Actors |-> 0]
    /\ poll = [r \in Readers |-> NoReading]
    /\ calls = 0

------------------------------------------------------------------------------
(* The checks of a call *)

Opposite(action) == IF action = "open" THEN "close" ELSE "open"
IsOpen(action) == action = "open"

\* Ownership is looked at only when the preference asks for it.
CheckOwnership(a, v) ==
    CheckMasterOwner => owner[v] \in {NoOwner, SenderAddress[a]}

\* Mutant: interlocked only when all interlocks are open.
SoftInterlockedByAll(v) == Interlocks[v] # {} /\ \A w \in Interlocks[v] : state[w]

SoftInterlocked(v) == \E w \in Interlocks[v] : state[w]

\* Mutant: the positive interlocks are not looked at.
PositiveInterlocksIgnored(v) == FALSE

PositiveInterlocked(v) == \E w \in PositiveInterlocks[v] : ~state[w]

Blocked(v, action) ==
    \/ SoftInterlocked(v)
    \/ IsOpen(action) /\ PositiveInterlocked(v)

Children(v) == {c \in Switches : Parent[c] = v}

ChildAction(c, action) ==
    IF c \in ParentInverted THEN Opposite(action) ELSE action

\* The thread turns to the next child of its parent call, or its call is over.
NextCall(a, rest) ==
    \/ /\ rest = {}
       /\ pc' = [pc EXCEPT ![a] = "idle"]
       /\ cur' = [cur EXCEPT ![a] = NoCall]
       /\ todo' = [todo EXCEPT ![a] = {}]
    \/ \E c \in rest :
         /\ pc' = [pc EXCEPT ![a] = "check"]
         /\ cur' = [cur EXCEPT ![a] =
                [valve |-> c, action |-> ChildAction(c, cur[a].root),
                 child |-> TRUE, root |-> cur[a].root]]
         /\ todo' = [todo EXCEPT ![a] = rest \ {c}]

\* A call that did not move its switch leaves the children of a parent alone;
\* the result of a child's call is thrown away.
CallFails(a) == NextCall(a, todo[a])

\* The children are actuated through _open_ and _close_ directly, which have
\* no children of their own.
CallSucceeds(a) ==
    NextCall(a, IF cur[a].child THEN todo[a] ELSE Children(cur[a].valve))

------------------------------------------------------------------------------
(* The pipette trackers *)

\* An opening is shown to the trackers in turn, until one takes it. None of them
\* has a lock: between the steps of check_shot other openings are shown to it.
ShowShot(a) ==
    /\ pc' = [pc EXCEPT ![a] = "shot"]
    /\ shown' = [shown EXCEPT ![a] = 1]
    /\ UNCHANGED <<cur, todo, loaded, counts, loads, doubled>>

\* The thread is at the check_shot of tracker i.
AtTracker(a, i) == pc[a] = "shot" /\ shown[a] = i

\* The openings that found the load of tracker i and have not yet cleared it.
Counting(i) == {a \in Actors : pc[a] \in {"count", "clear"} /\ shown[a] = i}

\* The opening is taken by a tracker, or by none.
Shown(a) == shown' = [shown EXCEPT ![a] = 0] /\ CallSucceeds(a)

ShotsShown(a) ==
    /\ pc[a] = "shot" /\ shown[a] \notin TrackerIds
    /\ Shown(a)
    /\ UNCHANGED <<state, phys, settings, loaded, counts, loads, doubled, poll, calls>>

LoadShot(a) ==
    \E i \in TrackerIds :
        /\ AtTracker(a, i) /\ cur[a].valve = Trackers[i].inner
        /\ loaded' = [loaded EXCEPT ![i] = TRUE]
        /\ loads' = [loads EXCEPT ![i] = @ + 1]
        /\ Shown(a)
        /\ UNCHANGED <<state, phys, settings, counts, doubled, poll, calls>>

\* The opening is neither of the tracker's inner switch nor of the outer one of a
\* loaded pipette: the next tracker is asked.
PassShot(a) ==
    \E i \in TrackerIds :
        /\ AtTracker(a, i) /\ cur[a].valve # Trackers[i].inner
        /\ cur[a].valve = Trackers[i].outer => ~loaded[i]
        /\ shown' = [shown EXCEPT ![a] = i + 1]
        /\ UNCHANGED <<state, phys, settings, loaded, counts, loads, doubled, control,
                       poll, calls>>

FindShot(a) ==
    \E i \in TrackerIds :
        /\ AtTracker(a, i) /\ cur[a].valve # Trackers[i].inner
        /\ cur[a].valve = Trackers[i].outer /\ loaded[i]
        /\ pc' = [pc EXCEPT ![a] = "count"]
        /\ doubled' = [doubled EXCEPT ![i] = IF Counting(i) = {} THEN @ ELSE @ + 1]
        /\ UNCHANGED <<state, phys, settings, loaded, counts, shown, loads, cur, todo,
                       poll, calls>>

\* _increment adds one and saves the count. Of two additions at the same time one
\* can overwrite the other.
CountShot(a) ==
    LET i == shown[a]
    IN  /\ pc[a] = "count"
        /\ pc' = [pc EXCEPT ![a] = "clear"]
        /\ \/ counts' = [counts EXCEPT ![i] = @ + 1]
           \/ /\ \E b \in Actors \ {a} : pc[b] = "count" /\ shown[b] = i
              /\ UNCHANGED counts
        /\ UNCHANGED <<state, phys, settings, loaded, shown, loads, doubled, cur, todo,
                       poll, calls>>

\* Mutant: a counted shot stays loaded.
ClearShotNot(a) ==
    /\ pc[a] = "clear" /\ Shown(a)
    /\ UNCHANGED <<state, phys, settings, loaded, counts, loads, doubled, poll, calls>>

\* Only now is the counted load taken off.
ClearShot(a) ==
    /\ pc[a] = "clear"
    /\ loaded' = [loaded EXCEPT ![shown[a]] = FALSE]
    /\ Shown(a)
    /\ UNCHANGED <<state, phys, settings, counts, loads, doubled, poll, calls>>

\* Mutant: records the command the channel got, not the state of the switch.
RecordChannelCommand(a) ==
    LET v == cur[a].valve
    IN  /\ state' = [state EXCEPT ![v] = IsOpen(cur[a].action) # (v \in InvertedLogic)]
        /\ \/ IsOpen(cur[a].action) /\ ShowShot(a)
           \/ ~IsOpen(cur[a].action) /\ CallSucceeds(a) /\ UNCHANGED shots

\* A successful call records the new state; an opening is shown to the trackers
\* before its children follow.
RecordSuccess(a) ==
    LET v == cur[a].valve
    IN  /\ state' = [state EXCEPT ![v] = IsOpen(cur[a].action)]
        /\ \/ IsOpen(cur[a].action) /\ ShowShot(a)
           \/ ~IsOpen(cur[a].action) /\ CallSucceeds(a) /\ UNCHANGED shots

------------------------------------------------------------------------------
(* The steps of a call *)

\* Mutant: the call in progress is not noted down.
RequestUnnoted(a, v, action) ==
    /\ pc[a] = "idle" /\ calls < MaxCalls
    /\ v \in Operates[a]
    /\ CheckOwnership(a, v)
    /\ pc' = [pc EXCEPT ![a] = "check"]
    /\ calls' = calls + 1
    /\ UNCHANGED <<state, phys, settings, shots, cur, todo, poll>>

\* open_valve / close_valve: a caller that may not use the switch is refused
\* at once, which changes nothing.
Request(a, v, action) ==
    /\ pc[a] = "idle" /\ calls < MaxCalls
    /\ v \in Operates[a]
    /\ CheckOwnership(a, v)
    /\ pc' = [pc EXCEPT ![a] = "check"]
    /\ cur' = [cur EXCEPT ![a] =
            [valve |-> v, action |-> action, child |-> FALSE, root |-> action]]
    /\ calls' = calls + 1
    /\ UNCHANGED <<state, phys, settings, shots, todo, poll>>

\* _open_ and _close_ refuse an interlocked switch.
InterlockRefuses(a) ==
    /\ pc[a] = "check" /\ Blocked(cur[a].valve, cur[a].action)
    /\ CallFails(a)
    /\ UNCHANGED <<state, phys, settings, shots, poll, calls>>

InterlockAllows(a) ==
    /\ pc[a] = "check" /\ ~Blocked(cur[a].valve, cur[a].action)
    /\ pc' = [pc EXCEPT ![a] = "act"]
    /\ UNCHANGED <<state, phys, settings, shots, cur, todo, poll, calls>>

\* _actuate_ warns and does nothing for a switch that is not enabled.
NotEnabled(a) ==
    /\ pc[a] = "act" /\ ~enabled[cur[a].valve]
    /\ CallFails(a)
    /\ UNCHANGED <<state, phys, settings, shots, poll, calls>>

\* A locked switch is left alone, without an error for the caller.
SoftwareLocked(a) ==
    LET v == cur[a].valve
    IN  /\ pc[a] = "act" /\ enabled[v]
        /\ v \notin ManualSwitches /\ lock[v] /\ v \notin PlainSwitches
        /\ CallFails(a)
        /\ UNCHANGED <<state, phys, settings, shots, poll, calls>>

\* Only HardwareValve has the method that reports the lock: on a plain Switch
\* the missing attribute ends the whole call, its other children included.
SoftwareLockedRaises(a) ==
    LET v == cur[a].valve
    IN  /\ pc[a] = "act" /\ enabled[v]
        /\ v \in PlainSwitches \ ManualSwitches /\ lock[v]
        /\ NextCall(a, {})
        /\ UNCHANGED <<state, phys, settings, shots, poll, calls>>

\* A manual switch is moved by hand and ignores its lock.
ActuateManual(a) ==
    LET v == cur[a].valve
    IN  /\ pc[a] = "act" /\ enabled[v] /\ v \in ManualSwitches
        /\ phys' = [phys EXCEPT ![v] = IsOpen(cur[a].action)]
        /\ RecordSuccess(a)
        /\ UNCHANGED <<settings, poll, calls>>

\* The command leaves for the actuator.
Command(a) ==
    LET v == cur[a].valve
    IN  /\ pc[a] = "act" /\ enabled[v] /\ v \notin ManualSwitches /\ ~lock[v]
        /\ pc' = [pc EXCEPT ![a] = "sent"]
        /\ UNCHANGED <<state, phys, settings, shots, cur, todo, poll, calls>>

\* The hardware carries the command out and acknowledges it, or fails to.
HardwareMoves(a) ==
    LET v == cur[a].valve
        moved == [phys EXCEPT ![v] = IsOpen(cur[a].action)]
    IN  /\ pc[a] = "sent"
        /\ \/ /\ phys' = moved
              /\ pc' = [pc EXCEPT ![a] = "moved"]
           \/ /\ "refuse" \in Faults /\ phys' = phys
              /\ pc' = [pc EXCEPT ![a] = "noack"]
           \/ /\ "stuck" \in Faults /\ phys' = phys
              /\ pc' = [pc EXCEPT ![a] = "moved"]
           \/ /\ "lost_ack" \in Faults /\ phys' = moved
              /\ pc' = [pc EXCEPT ![a] = "noack"]
        /\ UNCHANGED <<state, settings, shots, cur, todo, poll, calls>>

------------------------------------------------------------------------------
(* Reading the hardware *)

Xor(p, q) == p # q

\* The channel of a switch with inverted logic is closed when it is open.
Channel(v) == Xor(phys[v], v \in InvertedLogic)

\* What a channel query can return: the channel's state, or no answer.
ChannelReadings(v) ==
    {IF Channel(v) THEN "true" ELSE "false"}
        \cup (IF "blind" \in Faults THEN {"none"} ELSE {})

\* The command the channel got: _open and _close swap it for inverted logic.
ChannelCommand(v, action) ==
    IF v \in InvertedLogic THEN Opposite(action) ELSE action

\* _check_actuate: after a close the reading is negated, no answer included.
ReadsBack(v, action, reading) ==
    IF IsOpen(ChannelCommand(v, action)) THEN reading = "true"
    ELSE reading # "true"

\* Acknowledged and, when the switch is checked, read back as wanted.
ActuationSucceeds(a) ==
    /\ pc[a] = "moved"
    /\ LET v == cur[a].valve
       IN  \/ v \notin CheckActuation
           \/ \E r \in ChannelReadings(v) : ReadsBack(v, cur[a].action, r)
    /\ RecordSuccess(a)
    /\ UNCHANGED <<phys, settings, poll, calls>>

\* Not acknowledged, or not read back: the recorded state stays as it was.
ActuationFails(a) ==
    LET v == cur[a].valve
    IN  /\ \/ pc[a] = "noack"
           \/ /\ pc[a] = "moved" /\ v \in CheckActuation
              /\ \E r \in ChannelReadings(v) : ~ReadsBack(v, cur[a].action, r)
        /\ CallFails(a)
        /\ UNCHANGED <<state, phys, settings, shots, poll, calls>>

\* Mutant: the inversion of the channel is not undone.
IndicatorAsRead(v, reading) == reading = "true"

\* The update timer asks for the indicator state, with the inversion undone; no
\* answer becomes "closed".
IndicatorValue(v, reading) ==
    reading # "none" /\ Xor(reading = "true", v \in InvertedLogic)

\* The remote query records the channel's state as it comes.
ChannelValue(v, reading) == reading = "true"

ReadState(r, v) ==
    /\ poll[r] = NoReading /\ v \in QueryState \ ManualSwitches
    /\ \E reading \in ChannelReadings(v) :
         poll' = [poll EXCEPT ![r] =
            [valve |-> v,
             value |-> IF r = "update" THEN IndicatorValue(v, reading)
                       ELSE ChannelValue(v, reading)]]
    /\ r = "remote" => calls < MaxCalls
    /\ UNCHANGED <<state, phys, settings, shots, control, calls>>

\* Between the reading and its recording other threads run.
RecordState(r) ==
    /\ poll[r] # NoReading
    /\ state' = [state EXCEPT ![poll[r].valve] = poll[r].value]
    /\ poll' = [poll EXCEPT ![r] = NoReading]
    /\ UNCHANGED <<phys, settings, shots, control, calls>>

------------------------------------------------------------------------------
(* Locks, owners and the enabled flag *)

SetLock(v, on) ==
    /\ lock' = [lock EXCEPT ![v] = on]
    /\ UNCHANGED <<state, phys, enabled, owner, shots, control, poll, calls>>

SetOwner(v, o) ==
    /\ owner' = [owner EXCEPT ![v] = o]
    /\ UNCHANGED <<state, phys, lock, enabled, shots, control, poll, calls>>

\* Disabling first closes the switch under its prefixed name ("VALVE-A"),
\* which names no switch: only the flag changes.
SetEnabled(v, on) ==
    /\ enabled' = [enabled EXCEPT ![v] = on]
    /\ UNCHANGED <<state, phys, lock, owner, shots, control, poll, calls>>

Manage ==
    \E v \in Managed :
        \/ \E on \in BOOLEAN : SetLock(v, on) \/ SetEnabled(v, on)
        \/ \E o \in Addresses \cup {NoOwner} : SetOwner(v, o)

Step(a) ==
    \/ InterlockRefuses(a) \/ InterlockAllows(a)
    \/ NotEnabled(a) \/ SoftwareLocked(a) \/ SoftwareLockedRaises(a)
    \/ ActuateManual(a) \/ Command(a) \/ HardwareMoves(a)
    \/ ActuationSucceeds(a) \/ ActuationFails(a)
    \/ ShotsShown(a) \/ LoadShot(a) \/ PassShot(a)
    \/ FindShot(a) \/ CountShot(a) \/ ClearShot(a)

Next ==
    \/ \E a \in Actors :
        \/ \E v \in Switches, action \in Actions : Request(a, v, action)
        \/ Step(a)
    \/ \E r \in Readers : RecordState(r) \/ \E v \in Switches : ReadState(r, v)
    \/ Manage

\* A call runs to its end, and the update timer re-arms itself: it sweeps every
\* polled switch again and again.
Fairness ==
    /\ \A a \in Actors : WF_vars(Step(a))
    /\ \A r \in Readers : WF_vars(RecordState(r))
    /\ \A v \in Switches : SF_vars(ReadState("update", v))

Spec == Init /\ [][Next]_vars
FairSpec == Spec /\ Fairness

------------------------------------------------------------------------------
(* Properties *)

\* No two interlocked switches are ever physically open together.
InterlockSafety ==
    \A v \in Switches : \A w \in Interlocks[v] : ~(phys[v] /\ phys[w])

\* The program is wrong about a switch only while a call is between the move of
\* the switch and the recording of it.
RecordedState ==
    \A v \in Switches : state[v] # phys[v] =>
        \E a \in Actors : pc[a] = "moved" /\ cur[a].valve = v

\* The whole call protocol, with its check and its actuation steps apart, moves
\* the valves as if each call checked and moved in one step.
Line == INSTANCE ValveLine WITH phys <- phys
LineSpec == Line!Spec

\* A tracker counts no shot that was not loaded through its inner valve, and counts a
\* load twice only for openings of the outer valve that overlap: one finds the load
\* between the test and the clearing of another.
ShotAccounting ==
    \A i \in TrackerIds :
        counts[i] + (IF loaded[i] /\ Counting(i) = {} THEN 1 ELSE 0)
            <= loads[i] + doubled[i]

\* Once the callers fall quiet the update timer brings the recorded state of every
\* polled switch in line with the hardware, whatever faults came before.
PollHeals ==
    calls = MaxCalls ~> [](\A v \in QueryState \ ManualSwitches : state[v] = phys[v])

\* The openings that found the load of tracker i and have not yet counted it.
Uncounted(i) == {a \in Actors : pc[a] = "count" /\ shown[a] = i}

\* The accounting between the steps of an opening.
CountInv ==
    \A i \in TrackerIds :
        counts[i] + Cardinality(Uncounted(i))
                  + (IF loaded[i] /\ Counting(i) = {} THEN 1 ELSE 0)
            <= loads[i] + doubled[i]

------------------------------------------------------------------------------
(* Lines on which the interlock check is sound *)

\* Each caller has a group of switches to itself, closed under interlocks and
\* children, and the recorded states are neither polled nor spoilt by faults.
\* Nothing in the code sees to this: it is how a line has to be operated.
SeparateGroups ==
    /\ Faults \subseteq {"refuse"} /\ QueryState = {}
    /\ \A v \in Switches : v \notin Interlocks[v]
    /\ \A v, w \in Switches : w \in Interlocks[v] => v \in Interlocks[w]
    /\ \A a, b \in Actors : a # b => Operates[a] \cap Operates[b] = {}
    /\ \A a \in Actors : \A v \in Operates[a] :
        Interlocks[v] \cup PositiveInterlocks[v] \cup Children(v) \subseteq Operates[a]

\* The switches a thread's calls can move: those it operates, and their children.
Reach(a) == UNION {Children(v) \cup {v} : v \in Operates[a]}

\* The outer valve of a pipette is left to one thread.
OneOpener ==
    \A i \in TrackerIds : \A a, b \in Actors :
        a # b => Trackers[i].outer \notin Reach(a) \cap Reach(b)

\* A thread acts on switches of its own group.
OwnCalls ==
    \A a \in Actors :
        /\ todo[a] \subseteq Operates[a]
        /\ pc[a] # "idle" => cur[a].valve \in Operates[a]

\* An acknowledged switch is where the call wants it.
MovedAsAsked ==
    \A a \in Actors : pc[a] = "moved" => phys[cur[a].valve] = IsOpen(cur[a].action)

\* What the check found still holds when the switch moves.
StillClear ==
    \A a \in Actors : pc[a] \in {"act", "sent"} =>
        /\ \A w \in Interlocks[cur[a].valve] : ~phys[w]
        /\ IsOpen(cur[a].action) => \A w \in PositiveInterlocks[cur[a].valve] : phys[w]

NoPolling == \A r \in Readers : poll[r] = NoReading

GroupInv ==
    /\ TypeOK /\ NoPolling /\ OwnCalls /\ RecordedState /\ MovedAsAsked
    /\ StillClear /\ InterlockSafety
====
