---- MODULE SwitchManagerProofs ----
(***************************************************************************)
(* What holds of the switch manager for every extraction line: the types   *)
(* and the accounting of pipette shots without any assumption on callers   *)
(* or hardware, and the interlocks when no two threads share a group of    *)
(* interlocked switches.                                                   *)
(***************************************************************************)
EXTENDS SwitchManager, FiniteSetTheorems, TLAPS

------------------------------------------------------------------------------
(* Type correctness *)

\* NextCall leaves a thread idle or with a well-formed call.
LEMMA NextCallTyped ==
    ASSUME TypeOK, NEW a \in Actors, cur[a] \in Calls,
           NEW rest \in SUBSET Switches, NextCall(a, rest)
    PROVE  /\ pc' \in [Actors -> Places]
           /\ cur' \in [Actors -> Calls \cup {NoCall}]
           /\ \A b \in Actors : pc'[b] # "idle" => cur'[b] \in Calls
           /\ todo' \in [Actors -> SUBSET Switches]
           /\ pc'[a] \in {"idle", "check"}
           /\ \A b \in Actors : pc'[b] \in {"count", "clear"} => pc[b] = pc'[b]
<1>1. CASE rest = {} /\ pc' = [pc EXCEPT ![a] = "idle"]
             /\ cur' = [cur EXCEPT ![a] = NoCall] /\ todo' = [todo EXCEPT ![a] = {}]
  BY <1>1 DEF TypeOK, Places
<1>2. ASSUME NEW c \in rest, pc' = [pc EXCEPT ![a] = "check"],
             cur' = [cur EXCEPT ![a] =
                [valve |-> c, action |-> ChildAction(c, cur[a].root),
                 child |-> TRUE, root |-> cur[a].root]],
             todo' = [todo EXCEPT ![a] = rest \ {c}]
      PROVE  /\ pc' \in [Actors -> Places]
             /\ cur' \in [Actors -> Calls \cup {NoCall}]
             /\ \A b \in Actors : pc'[b] # "idle" => cur'[b] \in Calls
             /\ todo' \in [Actors -> SUBSET Switches]
             /\ pc'[a] \in {"idle", "check"}
             /\ \A b \in Actors : pc'[b] \in {"count", "clear"} => pc[b] = pc'[b]
  <2> DEFINE next == [valve |-> c, action |-> ChildAction(c, cur[a].root),
                      child |-> TRUE, root |-> cur[a].root]
  <2>1. ChildAction(c, cur[a].root) \in Actions
    BY DEF ChildAction, Opposite, Actions, Calls
  <2>2. next \in Calls
    BY <2>1 DEF Calls
  <2>3. cur' = [cur EXCEPT ![a] = next]
    BY <1>2
  <2> HIDE DEF next
  <2>4. pc' \in [Actors -> Places] /\ todo' \in [Actors -> SUBSET Switches]
    BY <1>2 DEF TypeOK, Places
  <2>5. pc'[a] = "check" /\ \A b \in Actors \ {a} : pc'[b] = pc[b]
    BY <1>2 DEF TypeOK
  <2>6. /\ cur' \in [Actors -> Calls \cup {NoCall}]
        /\ cur'[a] = next /\ \A b \in Actors \ {a} : cur'[b] = cur[b]
    BY <2>2, <2>3 DEF TypeOK
  <2> QED BY <2>2, <2>4, <2>5, <2>6 DEF TypeOK
<1> QED BY <1>1, <1>2 DEF NextCall

\* RecordSuccess keeps everything it writes well-typed.
LEMMA RecordSuccessTyped ==
    ASSUME TypeOK, NEW a \in Actors, cur[a] \in Calls, RecordSuccess(a)
    PROVE  /\ state' \in [Switches -> BOOLEAN] /\ UNCHANGED <<loaded, counts, loads, doubled>>
           /\ pc' \in [Actors -> Places]
           /\ cur' \in [Actors -> Calls \cup {NoCall}]
           /\ \A b \in Actors : pc'[b] # "idle" => cur'[b] \in Calls
           /\ todo' \in [Actors -> SUBSET Switches]
           /\ shown' \in [Actors -> Nat]
           /\ \A b \in Actors : pc'[b] \in {"count", "clear"} => shown'[b] \in TrackerIds
           /\ pc'[a] \in {"idle", "check", "shot"}
           /\ \A b \in Actors \ {a} : pc'[b] = pc[b] /\ shown'[b] = shown[b]
<1> DEFINE rest == IF cur[a].child THEN todo[a] ELSE Children(cur[a].valve)
<1>1. cur[a].valve \in Switches
  BY DEF Calls
<1>2. rest \in SUBSET Switches
  BY DEF TypeOK, Children
<1>3. state' \in [Switches -> BOOLEAN]
  BY <1>1 DEF TypeOK, RecordSuccess, IsOpen
<1>4. CASE NextCall(a, rest) /\ UNCHANGED shots
  <2> HIDE DEF rest
  <2>1. \A b \in Actors \ {a} : pc'[b] = pc[b]
    BY <1>4 DEF NextCall, TypeOK
  <2> QED BY <1>2, <1>3, <1>4, <2>1, NextCallTyped DEF TypeOK, shots
<1>5. CASE ShowShot(a)
  BY <1>3, <1>5 DEF ShowShot, TypeOK, Places
<1> QED BY <1>4, <1>5 DEF RecordSuccess, CallSucceeds

\* A thread that leaves the trackers turns to the next call.
LEMMA ShownTyped ==
    ASSUME TypeOK, NEW a \in Actors, cur[a] \in Calls, Shown(a)
    PROVE  /\ pc' \in [Actors -> Places]
           /\ cur' \in [Actors -> Calls \cup {NoCall}]
           /\ \A b \in Actors : pc'[b] # "idle" => cur'[b] \in Calls
           /\ todo' \in [Actors -> SUBSET Switches]
           /\ shown' \in [Actors -> Nat]
           /\ \A b \in Actors : pc'[b] \in {"count", "clear"} => shown'[b] \in TrackerIds
           /\ pc'[a] \in {"idle", "check"}
           /\ \A b \in Actors \ {a} : pc'[b] = pc[b] /\ shown'[b] = shown[b]
<1> DEFINE rest == IF cur[a].child THEN todo[a] ELSE Children(cur[a].valve)
<1>1. rest \in SUBSET Switches
  BY DEF TypeOK, Children
<1>2. NextCall(a, rest) /\ shown' = [shown EXCEPT ![a] = 0]
  BY DEF Shown, CallSucceeds
<1> HIDE DEF rest
<1>3. \A b \in Actors \ {a} : pc'[b] = pc[b]
  BY <1>2 DEF NextCall, TypeOK
<1> QED BY <1>1, <1>2, <1>3, NextCallTyped DEF TypeOK

TrackerStep(a) ==
    \/ ShotsShown(a) \/ LoadShot(a) \/ PassShot(a)
    \/ FindShot(a) \/ CountShot(a) \/ ClearShot(a)

\* The trackers keep their types.
LEMMA TrackerTyped ==
    ASSUME TypeOK, NEW a \in Actors, TrackerStep(a)
    PROVE  TypeOK'
<1>1. cur[a] \in Calls /\ pc[a] \in {"shot", "count", "clear"}
  BY DEF TypeOK, TrackerStep, ShotsShown, LoadShot, PassShot, FindShot, CountShot,
         ClearShot, AtTracker
<1>2. /\ UNCHANGED <<state, phys, lock, enabled, owner, poll, calls>>
  BY DEF TrackerStep, ShotsShown, LoadShot, PassShot, FindShot, CountShot, ClearShot,
         settings
<1>3. CASE ShotsShown(a)
  BY <1>1, <1>2, <1>3, ShownTyped DEF ShotsShown, TypeOK
<1>4. CASE LoadShot(a)
  <2>1. /\ loaded' \in [TrackerIds -> BOOLEAN] /\ loads' \in [TrackerIds -> Nat]
        /\ UNCHANGED <<counts, doubled>> /\ Shown(a)
    BY <1>4 DEF LoadShot, TypeOK
  <2> QED BY <1>1, <1>2, <2>1, ShownTyped DEF TypeOK
<1>5. CASE PassShot(a)
  <2> PICK i \in TrackerIds : AtTracker(a, i) /\ shown' = [shown EXCEPT ![a] = i + 1]
    BY <1>5 DEF PassShot
  <2>1. i + 1 \in Nat
    BY SwitchAssumption DEF TrackerIds
  <2> QED BY <1>2, <1>5, <2>1 DEF PassShot, AtTracker, TypeOK, control
<1>6. CASE FindShot(a)
  BY <1>2, <1>6 DEF FindShot, AtTracker, TypeOK, Places
<1>7. CASE CountShot(a)
  <2>1. counts' \in [TrackerIds -> Nat]
    BY <1>7 DEF CountShot, TypeOK
  <2> QED BY <1>2, <1>7, <2>1 DEF CountShot, TypeOK, Places
<1>8. CASE ClearShot(a)
  <2>1. loaded' \in [TrackerIds -> BOOLEAN]
    BY <1>8 DEF ClearShot, TypeOK
  <2> QED BY <1>1, <1>2, <1>8, <2>1, ShownTyped DEF ClearShot, TypeOK
<1> QED BY <1>3, <1>4, <1>5, <1>6, <1>7, <1>8 DEF TrackerStep

LEMMA InitTyped == Init => TypeOK
  BY SwitchAssumption DEF Init, TypeOK, TrackerIds, Places

LEMMA StepTyped ==
    ASSUME TypeOK, NEW a \in Actors, Step(a)
    PROVE  TypeOK'
<1>1. pc[a] # "idle" => cur[a] \in Calls
  BY DEF TypeOK
<1>2. ASSUME pc[a] # "idle", CallFails(a),
             UNCHANGED <<state, phys, settings, shots, poll, calls>>
      PROVE  TypeOK'
  <2>1. todo[a] \in SUBSET Switches
    BY DEF TypeOK
  <2>2. NextCall(a, todo[a])
    BY <1>2 DEF CallFails
  <2> QED BY <1>1, <1>2, <2>1, <2>2, NextCallTyped DEF TypeOK, settings, shots
<1>3. CASE InterlockRefuses(a) \/ NotEnabled(a) \/ SoftwareLocked(a) \/ ActuationFails(a)
  BY <1>2, <1>3 DEF InterlockRefuses, NotEnabled, SoftwareLocked, ActuationFails
<1>4. CASE SoftwareLockedRaises(a)
  BY <1>1, <1>4, NextCallTyped DEF SoftwareLockedRaises, TypeOK, settings, shots
<1>5. CASE InterlockAllows(a) \/ Command(a)
  BY <1>1, <1>5 DEF InterlockAllows, Command, TypeOK, Places, settings, shots
<1>6. CASE HardwareMoves(a)
  BY <1>1, <1>6 DEF HardwareMoves, TypeOK, Places, settings, shots, IsOpen, Calls
<1>7. CASE ActuateManual(a)
  <2>1. cur[a] \in Calls /\ RecordSuccess(a)
    BY <1>1, <1>7 DEF ActuateManual
  <2>2. phys' \in [Switches -> BOOLEAN]
    BY <1>7, <2>1 DEF ActuateManual, TypeOK, IsOpen, Calls
  <2> QED BY <1>7, <2>1, <2>2, RecordSuccessTyped DEF ActuateManual, TypeOK, settings
<1>8. CASE ActuationSucceeds(a)
  <2>1. cur[a] \in Calls /\ RecordSuccess(a)
    BY <1>1, <1>8 DEF ActuationSucceeds
  <2> QED BY <1>8, <2>1, RecordSuccessTyped DEF ActuationSucceeds, TypeOK, settings
<1>9. CASE TrackerStep(a)
  BY <1>9, TrackerTyped
<1> QED BY <1>3, <1>4, <1>5, <1>6, <1>7, <1>8, <1>9 DEF Step, TrackerStep

LEMMA NextTyped == TypeOK /\ [Next]_vars => TypeOK'
<1> SUFFICES ASSUME TypeOK, [Next]_vars PROVE TypeOK'
  OBVIOUS
<1>1. ASSUME NEW a \in Actors, NEW v \in Switches, NEW action \in Actions,
             Request(a, v, action)
      PROVE  TypeOK'
  <2> DEFINE new == [valve |-> v, action |-> action, child |-> FALSE, root |-> action]
  <2>1. new \in Calls
    BY DEF Calls
  <2>2. /\ pc' = [pc EXCEPT ![a] = "check"] /\ cur' = [cur EXCEPT ![a] = new]
        /\ calls' = calls + 1
        /\ UNCHANGED <<state, phys, lock, enabled, owner, loaded, counts, loads,
                       todo, shown, doubled, poll>>
    BY <1>1 DEF Request, settings, shots
  <2> HIDE DEF new
  <2> QED BY <2>1, <2>2 DEF TypeOK, Places
<1>2. ASSUME NEW a \in Actors, Step(a) PROVE TypeOK'
  BY <1>2, StepTyped
<1>3. ASSUME NEW r \in Readers, RecordState(r) PROVE TypeOK'
  BY <1>3 DEF RecordState, TypeOK, settings, shots, control, Readings
<1>4. ASSUME NEW r \in Readers, NEW v \in Switches, ReadState(r, v) PROVE TypeOK'
  <2> PICK reading \in ChannelReadings(v) :
         poll' = [poll EXCEPT ![r] =
            [valve |-> v,
             value |-> IF r = "update" THEN IndicatorValue(v, reading)
                       ELSE ChannelValue(v, reading)]]
    BY <1>4 DEF ReadState
  <2>1. poll'[r] \in Readings /\ poll' \in [Readers -> Readings \cup {NoReading}]
    BY DEF Readings, IndicatorValue, ChannelValue, Xor, TypeOK
  <2> QED BY <1>4, <2>1 DEF ReadState, TypeOK, settings, shots, control
<1>5. CASE Manage
  BY <1>5 DEF Manage, SetLock, SetOwner, SetEnabled, TypeOK, settings, shots, control
<1>6. CASE UNCHANGED vars
  BY <1>6 DEF vars, TypeOK, settings, shots, control
<1> QED BY <1>1, <1>2, <1>3, <1>4, <1>5, <1>6 DEF Next

\* Every variable keeps its type, whatever the line, the callers and the faults.
THEOREM TypeCorrect == Spec => []TypeOK
  BY InitTyped, NextTyped, PTL DEF Spec

------------------------------------------------------------------------------
(* Pipette shots *)

\* What a step can do to the openings that are at the trackers: nothing, unless it is
\* a step of one of them.
LEMMA OutsideTrackers ==
    ASSUME TypeOK, NEW a \in Actors, Step(a), ~TrackerStep(a)
    PROVE  /\ UNCHANGED <<loaded, counts, loads, doubled>>
           /\ pc[a] \notin {"idle", "shot", "count", "clear"}
           /\ pc'[a] \notin {"count", "clear"}
           /\ \A b \in Actors \ {a} : pc'[b] = pc[b] /\ shown'[b] = shown[b]
<1>1. ASSUME NEW rest, NextCall(a, rest)
      PROVE  pc'[a] \in {"idle", "check"} /\ \A b \in Actors \ {a} : pc'[b] = pc[b]
  BY <1>1 DEF NextCall, TypeOK
<1>2. CASE InterlockRefuses(a) \/ NotEnabled(a) \/ SoftwareLocked(a) \/ ActuationFails(a)
  BY <1>1, <1>2 DEF InterlockRefuses, NotEnabled, SoftwareLocked, ActuationFails,
                    CallFails, shots
<1>3. CASE SoftwareLockedRaises(a)
  BY <1>1, <1>3 DEF SoftwareLockedRaises, shots
<1>4. CASE InterlockAllows(a) \/ Command(a) \/ HardwareMoves(a)
  BY <1>4 DEF InterlockAllows, Command, HardwareMoves, shots, TypeOK
<1>5. CASE ActuateManual(a) \/ ActuationSucceeds(a)
  <2>1. pc[a] \in {"act", "moved"} /\ cur[a] \in Calls /\ RecordSuccess(a)
    BY <1>5 DEF ActuateManual, ActuationSucceeds, TypeOK
  <2> QED BY <2>1, RecordSuccessTyped
<1> QED BY <1>2, <1>3, <1>4, <1>5 DEF Step, TrackerStep

\* Steps outside the trackers keep the accounts.
LEMMA QuietAccounts ==
    ASSUME CountInv, UNCHANGED <<loaded, counts, loads, doubled>>,
           \A b \in Actors :
               pc[b] \in {"count", "clear"} \/ pc'[b] \in {"count", "clear"} =>
                   pc'[b] = pc[b] /\ shown'[b] = shown[b]
    PROVE  CountInv'
<1>1. \A i \in TrackerIds : Uncounted(i)' = Uncounted(i) /\ Counting(i)' = Counting(i)
  BY DEF Uncounted, Counting
<1> QED BY <1>1 DEF CountInv

LEMMA UncountedFinite ==
    \A i : IsFiniteSet(Uncounted(i)) /\ Cardinality(Uncounted(i)) \in Nat
<1> SUFFICES ASSUME NEW i
             PROVE  IsFiniteSet(Uncounted(i)) /\ Cardinality(Uncounted(i)) \in Nat
  OBVIOUS
<1>1. Uncounted(i) \subseteq Actors /\ IsFiniteSet(Actors)
  BY SwitchAssumption DEF Uncounted
<1> QED BY <1>1, FS_Subset, FS_CardinalityType

\* The opening of an outer valve that finds a load either takes it over or finds it
\* already taken.
LEMMA FindAccounts ==
    ASSUME TypeOK, CountInv, NEW a \in Actors, FindShot(a)
    PROVE  CountInv'
<1> PICK i \in TrackerIds :
        /\ pc[a] = "shot" /\ shown[a] = i /\ loaded[i]
        /\ pc' = [pc EXCEPT ![a] = "count"]
        /\ doubled' = [doubled EXCEPT ![i] = IF Counting(i) = {} THEN @ ELSE @ + 1]
        /\ UNCHANGED <<loaded, counts, shown, loads>>
  BY DEF FindShot, AtTracker
<1> SUFFICES ASSUME NEW j \in TrackerIds
             PROVE  counts'[j] + Cardinality(Uncounted(j)')
                        + (IF loaded'[j] /\ Counting(j)' = {} THEN 1 ELSE 0)
                      <= loads'[j] + doubled'[j]
  BY DEF CountInv
<1>1. /\ counts[j] \in Nat /\ loads[j] \in Nat /\ doubled[j] \in Nat
      /\ IsFiniteSet(Uncounted(j)) /\ Cardinality(Uncounted(j)) \in Nat
      /\ counts[j] + Cardinality(Uncounted(j))
           + (IF loaded[j] /\ Counting(j) = {} THEN 1 ELSE 0) <= loads[j] + doubled[j]
  BY UncountedFinite DEF TypeOK, CountInv
<1>2. CASE j # i
  <2>1. Uncounted(j)' = Uncounted(j) /\ Counting(j)' = Counting(j)
    BY <1>2 DEF Uncounted, Counting, TypeOK
  <2>2. doubled'[j] = doubled[j]
    BY <1>2 DEF TypeOK
  <2> QED BY <1>1, <2>1, <2>2
<1>3. CASE j = i
  <2>1. Uncounted(j)' = Uncounted(j) \cup {a} /\ a \notin Uncounted(j) /\ Counting(j)' # {}
    BY <1>3 DEF Uncounted, Counting, TypeOK
  <2>2. Cardinality(Uncounted(j)') = Cardinality(Uncounted(j)) + 1
    BY <1>1, <2>1, FS_AddElement
  <2>3. doubled'[j] = IF Counting(j) = {} THEN doubled[j] ELSE doubled[j] + 1
    BY <1>3 DEF TypeOK
  <2> QED BY <1>1, <1>3, <2>1, <2>2, <2>3
<1> QED BY <1>2, <1>3

\* Counting a found load moves it from the openings to the counts.
LEMMA CountAccounts ==
    ASSUME TypeOK, CountInv, NEW a \in Actors, CountShot(a)
    PROVE  CountInv'
<1> DEFINE i == shown[a]
<1>1. /\ i \in TrackerIds /\ pc[a] = "count"
      /\ pc' = [pc EXCEPT ![a] = "clear"]
      /\ counts' = [counts EXCEPT ![i] = @ + 1] \/ UNCHANGED counts
      /\ UNCHANGED <<loaded, shown, loads, doubled>>
  BY DEF CountShot, TypeOK
<1> SUFFICES ASSUME NEW j \in TrackerIds
             PROVE  counts'[j] + Cardinality(Uncounted(j)')
                        + (IF loaded'[j] /\ Counting(j)' = {} THEN 1 ELSE 0)
                      <= loads'[j] + doubled'[j]
  BY DEF CountInv
<1>2. /\ counts[j] \in Nat /\ loads[j] \in Nat /\ doubled[j] \in Nat
      /\ IsFiniteSet(Uncounted(j)) /\ Cardinality(Uncounted(j)) \in Nat
      /\ counts[j] + Cardinality(Uncounted(j))
           + (IF loaded[j] /\ Counting(j) = {} THEN 1 ELSE 0) <= loads[j] + doubled[j]
  BY UncountedFinite DEF TypeOK, CountInv
<1>3. Counting(j)' = Counting(j)
  BY <1>1 DEF Counting, TypeOK
<1>4. CASE j # i
  <2>1. Uncounted(j)' = Uncounted(j) /\ counts'[j] = counts[j]
    BY <1>1, <1>4 DEF Uncounted, TypeOK
  <2> QED BY <1>1, <1>2, <1>3, <2>1
<1>5. CASE j = i
  <2>1. Uncounted(j)' = Uncounted(j) \ {a} /\ a \in Uncounted(j)
    BY <1>1, <1>5 DEF Uncounted, TypeOK
  <2>2. Cardinality(Uncounted(j)') = Cardinality(Uncounted(j)) - 1
    BY <1>2, <2>1, FS_RemoveElement
  <2>3. counts'[j] \in {counts[j], counts[j] + 1}
    BY <1>1, <1>5 DEF TypeOK
  <2> QED BY <1>1, <1>2, <1>3, <2>2, <2>3
<1> QED BY <1>4, <1>5

LEMMA TrackerAccounts ==
    ASSUME TypeOK, CountInv, NEW a \in Actors, TrackerStep(a)
    PROVE  CountInv'
<1>1. pc[a] \in {"shot", "count", "clear"} => cur[a] \in Calls
  BY DEF TypeOK
<1>2. CASE ShotsShown(a)
  BY <1>1, <1>2, ShownTyped, QuietAccounts DEF ShotsShown
<1>3. CASE LoadShot(a)
  <2> PICK i \in TrackerIds :
         /\ pc[a] = "shot" /\ Shown(a)
         /\ loaded' = [loaded EXCEPT ![i] = TRUE]
         /\ loads' = [loads EXCEPT ![i] = @ + 1]
         /\ UNCHANGED <<counts, doubled>>
    BY <1>3 DEF LoadShot, AtTracker
  <2>1. /\ pc'[a] \in {"idle", "check"}
        /\ \A b \in Actors \ {a} : pc'[b] = pc[b] /\ shown'[b] = shown[b]
    BY <1>1, ShownTyped
  <2>2. \A j \in TrackerIds :
           Uncounted(j)' = Uncounted(j) /\ Counting(j)' = Counting(j)
    BY <2>1 DEF Uncounted, Counting
  <2> SUFFICES ASSUME NEW j \in TrackerIds
               PROVE  counts'[j] + Cardinality(Uncounted(j)')
                          + (IF loaded'[j] /\ Counting(j)' = {} THEN 1 ELSE 0)
                        <= loads'[j] + doubled'[j]
    BY DEF CountInv
  <2>3. /\ counts[j] \in Nat /\ loads[j] \in Nat /\ doubled[j] \in Nat
        /\ Cardinality(Uncounted(j)) \in Nat
        /\ counts[j] + Cardinality(Uncounted(j))
             + (IF loaded[j] /\ Counting(j) = {} THEN 1 ELSE 0) <= loads[j] + doubled[j]
    BY UncountedFinite DEF TypeOK, CountInv
  <2>4. \/ loaded'[j] = loaded[j] /\ loads'[j] = loads[j]
        \/ loads'[j] = loads[j] + 1
    BY DEF TypeOK
  <2>5. /\ counts'[j] = counts[j] /\ doubled'[j] = doubled[j]
        /\ Uncounted(j)' = Uncounted(j) /\ Counting(j)' = Counting(j)
    BY <2>2
  <2>6. CASE loaded'[j] = loaded[j] /\ loads'[j] = loads[j]
    BY <2>3, <2>5, <2>6
  <2>7. CASE loads'[j] = loads[j] + 1
    <3>1. counts[j] + Cardinality(Uncounted(j)) <= loads[j] + doubled[j]
      BY <2>3
    <3>2. counts'[j] + Cardinality(Uncounted(j)') <= loads[j] + doubled[j]
      BY <2>5, <3>1
    <3> QED BY <2>3, <2>5, <2>7, <3>2
  <2> QED BY <2>4, <2>6, <2>7
<1>4. CASE PassShot(a)
  <2>1. /\ pc[a] = "shot" /\ UNCHANGED <<loaded, counts, loads, doubled, pc>>
        /\ \A b \in Actors \ {a} : shown'[b] = shown[b]
    BY <1>4 DEF PassShot, AtTracker, control, TypeOK
  <2> QED BY <2>1, QuietAccounts
<1>5. CASE FindShot(a) \/ CountShot(a)
  BY <1>5, FindAccounts, CountAccounts
<1>6. CASE ClearShot(a)
  <2> DEFINE i == shown[a]
  <2>1. /\ pc[a] = "clear" /\ Shown(a) /\ i \in TrackerIds
        /\ loaded' = [loaded EXCEPT ![i] = FALSE]
        /\ UNCHANGED <<counts, loads, doubled>>
    BY <1>6 DEF ClearShot, TypeOK
  <2>2. /\ pc'[a] \in {"idle", "check"}
        /\ \A b \in Actors \ {a} : pc'[b] = pc[b] /\ shown'[b] = shown[b]
    BY <1>1, <2>1, ShownTyped
  <2> SUFFICES ASSUME NEW j \in TrackerIds
               PROVE  counts'[j] + Cardinality(Uncounted(j)')
                          + (IF loaded'[j] /\ Counting(j)' = {} THEN 1 ELSE 0)
                        <= loads'[j] + doubled'[j]
    BY DEF CountInv
  <2>3. /\ counts[j] \in Nat /\ loads[j] \in Nat /\ doubled[j] \in Nat
        /\ Cardinality(Uncounted(j)) \in Nat
        /\ counts[j] + Cardinality(Uncounted(j))
             + (IF loaded[j] /\ Counting(j) = {} THEN 1 ELSE 0) <= loads[j] + doubled[j]
    BY UncountedFinite DEF TypeOK, CountInv
  <2>4. Uncounted(j)' = Uncounted(j)
    BY <2>1, <2>2 DEF Uncounted
  <2>5. CASE j = i
    <3>1. ~loaded'[j]
      BY <2>1, <2>5, Zenon DEF TypeOK
    <3> QED BY <2>1, <2>3, <2>4, <3>1
  <2>6. CASE j # i
    <3>1. Counting(j)' = Counting(j)
      BY <2>1, <2>2, <2>6 DEF Counting
    <3>2. loaded'[j] = loaded[j]
      BY <2>1, <2>6 DEF TypeOK
    <3> QED BY <2>1, <2>3, <2>4, <3>1, <3>2
  <2> QED BY <2>5, <2>6
<1> QED BY <1>2, <1>3, <1>4, <1>5, <1>6 DEF TrackerStep

LEMMA NextAccounts == TypeOK /\ CountInv /\ [Next]_vars => CountInv'
<1> SUFFICES ASSUME TypeOK, CountInv, [Next]_vars PROVE CountInv'
  OBVIOUS
<1>1. ASSUME NEW a \in Actors, Step(a) PROVE CountInv'
  <2>1. CASE TrackerStep(a)
    BY <2>1, TrackerAccounts
  <2>2. CASE ~TrackerStep(a)
    BY <1>1, <2>2, OutsideTrackers, QuietAccounts
  <2> QED BY <2>1, <2>2
<1>2. ASSUME NEW a \in Actors, NEW v \in Switches, NEW action \in Actions,
             Request(a, v, action)
      PROVE  CountInv'
  <2>1. /\ UNCHANGED <<loaded, counts, loads, doubled, shown>> /\ pc[a] = "idle"
        /\ pc'[a] = "check" /\ \A b \in Actors \ {a} : pc'[b] = pc[b]
    BY <1>2 DEF Request, shots, TypeOK
  <2> QED BY <2>1, QuietAccounts
<1>3. CASE \/ \E r \in Readers : RecordState(r) \/ \E v \in Switches : ReadState(r, v)
           \/ Manage \/ UNCHANGED vars
  <2>1. UNCHANGED <<loaded, counts, loads, doubled, shown, pc>>
    BY <1>3 DEF RecordState, ReadState, Manage, SetLock, SetOwner, SetEnabled, vars,
                shots, control
  <2> QED BY <2>1, QuietAccounts
<1> QED BY <1>1, <1>2, <1>3 DEF Next

\* No pipette counts a shot it did not load, and none counts a load twice unless two
\* openings of its outer valve overlap: for any line, any callers, any faults of the
\* hardware.
THEOREM ShotsAccounted == Spec => []ShotAccounting
<1>1. Init => CountInv
  <2> SUFFICES ASSUME Init PROVE CountInv
    OBVIOUS
  <2>1. \A i \in TrackerIds : Uncounted(i) = {}
    BY DEF Init, Uncounted
  <2>2. \A i \in TrackerIds : counts[i] = 0 /\ loads[i] = 0 /\ doubled[i] = 0 /\ ~loaded[i]
    BY DEF Init
  <2> QED BY <2>1, <2>2, FS_EmptySet DEF CountInv
<1>2. TypeOK /\ CountInv => ShotAccounting
  <2> SUFFICES ASSUME TypeOK, CountInv, NEW i \in TrackerIds
               PROVE  counts[i] + (IF loaded[i] /\ Counting(i) = {} THEN 1 ELSE 0)
                        <= loads[i] + doubled[i]
    BY DEF ShotAccounting
  <2>1. /\ counts[i] \in Nat /\ loads[i] \in Nat /\ doubled[i] \in Nat
        /\ Cardinality(Uncounted(i)) \in Nat
    BY UncountedFinite DEF TypeOK
  <2> QED BY <2>1 DEF CountInv
<1> QED BY <1>1, <1>2, NextAccounts, TypeCorrect, PTL DEF Spec

\* Each thread's calls stay within its reach.
InReach ==
    \A a \in Actors :
        /\ todo[a] \subseteq Reach(a)
        /\ pc[a] # "idle" => cur[a].valve \in Reach(a)
        /\ pc[a] # "idle" /\ ~cur[a].child => cur[a].valve \in Operates[a]

NoneDoubled == \A i \in TrackerIds : doubled[i] = 0

\* A thread counts at a tracker only after its opening of the outer valve.
CountsOuter ==
    \A a \in Actors : pc[a] \in {"count", "clear"} =>
        cur[a].valve = Trackers[shown[a]].outer

LEMMA NextCallReach ==
    ASSUME TypeOK, InReach, NEW a \in Actors, NEW rest \in SUBSET Reach(a),
           NextCall(a, rest)
    PROVE  /\ todo'[a] \subseteq Reach(a)
           /\ pc'[a] # "idle" => cur'[a].valve \in Reach(a) /\ cur'[a].child
           /\ \A b \in Actors \ {a} :
                pc'[b] = pc[b] /\ cur'[b] = cur[b] /\ todo'[b] = todo[b]
<1>1. ASSUME NEW c \in rest, pc' = [pc EXCEPT ![a] = "check"],
             cur' = [cur EXCEPT ![a] =
                [valve |-> c, action |-> ChildAction(c, cur[a].root),
                 child |-> TRUE, root |-> cur[a].root]],
             todo' = [todo EXCEPT ![a] = rest \ {c}]
      PROVE  /\ todo'[a] \subseteq Reach(a)
             /\ cur'[a].valve \in Reach(a) /\ cur'[a].child
             /\ \A b \in Actors \ {a} :
                  pc'[b] = pc[b] /\ cur'[b] = cur[b] /\ todo'[b] = todo[b]
  BY <1>1 DEF TypeOK
<1>2. CASE rest = {} /\ pc' = [pc EXCEPT ![a] = "idle"]
             /\ cur' = [cur EXCEPT ![a] = NoCall] /\ todo' = [todo EXCEPT ![a] = {}]
  BY <1>2 DEF TypeOK
<1> QED BY <1>1, <1>2 DEF NextCall

\* A step of a call either turns to a next call within reach or stays with its own.
LEMMA StepReach ==
    ASSUME TypeOK, InReach, NEW a \in Actors, Step(a)
    PROVE  InReach'
<1>1. ASSUME NEW rest \in SUBSET Reach(a), NextCall(a, rest) PROVE InReach'
  BY <1>1, NextCallReach DEF InReach
<1>2. pc[a] # "idle"
  BY DEF Step, InterlockRefuses, InterlockAllows, NotEnabled, SoftwareLocked,
         SoftwareLockedRaises, ActuateManual, Command, HardwareMoves, ActuationSucceeds,
         ActuationFails, ShotsShown, LoadShot, PassShot, FindShot, CountShot, ClearShot,
         AtTracker
<1>3. (IF cur[a].child THEN todo[a] ELSE Children(cur[a].valve)) \in SUBSET Reach(a)
  BY <1>2 DEF InReach, Reach
<1>4. todo[a] \in SUBSET Reach(a)
  BY DEF InReach
<1>5. CASE \E rest \in SUBSET Reach(a) : NextCall(a, rest)
  BY <1>1, <1>5
<1>6. CASE UNCHANGED <<cur, todo>> /\ \A b \in Actors \ {a} : pc'[b] = pc[b]
  BY <1>2, <1>6 DEF InReach
<1>7. CASE InterlockRefuses(a) \/ NotEnabled(a) \/ SoftwareLocked(a) \/ ActuationFails(a)
           \/ SoftwareLockedRaises(a)
  BY <1>4, <1>5, <1>7 DEF InterlockRefuses, NotEnabled, SoftwareLocked, ActuationFails,
                          SoftwareLockedRaises, CallFails
<1>8. CASE InterlockAllows(a) \/ Command(a) \/ HardwareMoves(a) \/ PassShot(a)
           \/ FindShot(a) \/ CountShot(a)
  BY <1>6, <1>8 DEF InterlockAllows, Command, HardwareMoves, PassShot, FindShot,
                    CountShot, control, TypeOK
<1>9. CASE ShotsShown(a) \/ LoadShot(a) \/ ClearShot(a)
  BY <1>3, <1>5, <1>9 DEF ShotsShown, LoadShot, ClearShot, Shown, CallSucceeds
<1>10. CASE ActuateManual(a) \/ ActuationSucceeds(a)
  <2>1. CASE CallSucceeds(a)
    BY <1>3, <1>5, <2>1 DEF CallSucceeds
  <2>2. CASE ShowShot(a)
    BY <1>6, <2>2 DEF ShowShot, TypeOK
  <2> QED BY <1>10, <2>1, <2>2 DEF ActuateManual, ActuationSucceeds, RecordSuccess
<1> QED BY <1>7, <1>8, <1>9, <1>10 DEF Step

\* What the openings at the trackers are, through any step of a thread.
LEMMA StepCountsOuter ==
    ASSUME TypeOK, CountsOuter, NEW a \in Actors, Step(a)
    PROVE  CountsOuter'
<1>1. CASE ~TrackerStep(a)
  <2>1. \A b \in Actors \ {a} : cur'[b] = cur[b]
    BY DEF Step, InterlockRefuses, InterlockAllows, NotEnabled, SoftwareLocked,
           SoftwareLockedRaises, ActuateManual, Command, HardwareMoves,
           ActuationSucceeds, ActuationFails, CallFails, CallSucceeds, RecordSuccess,
           ShowShot, NextCall, ShotsShown, LoadShot, PassShot, FindShot, CountShot,
           ClearShot, Shown, control, TypeOK
  <2> QED BY <1>1, <2>1, OutsideTrackers DEF CountsOuter
<1>2. CASE ShotsShown(a) \/ LoadShot(a) \/ ClearShot(a)
  <2>1. Shown(a)
    BY <1>2 DEF ShotsShown, LoadShot, ClearShot
  <2>2. /\ pc'[a] \in {"idle", "check"}
        /\ \A b \in Actors \ {a} : pc'[b] = pc[b] /\ shown'[b] = shown[b] /\ cur'[b] = cur[b]
    BY <2>1 DEF Shown, CallSucceeds, NextCall, TypeOK
  <2> QED BY <2>2 DEF CountsOuter
<1>3. CASE PassShot(a)
  BY <1>3 DEF PassShot, AtTracker, CountsOuter, control, TypeOK
<1>4. CASE FindShot(a)
  BY <1>4 DEF FindShot, AtTracker, CountsOuter, TypeOK
<1>5. CASE CountShot(a)
  BY <1>5 DEF CountShot, CountsOuter, TypeOK
<1> QED BY <1>1, <1>2, <1>3, <1>4, <1>5 DEF TrackerStep

LEMMA StepNotDoubled ==
    ASSUME OneOpener, TypeOK, InReach, CountsOuter, NoneDoubled, NEW a \in Actors, Step(a)
    PROVE  NoneDoubled'
<1>1. CASE UNCHANGED doubled
  BY <1>1 DEF NoneDoubled
<1>2. CASE FindShot(a)
  <2> PICK i \in TrackerIds :
         /\ pc[a] = "shot" /\ cur[a].valve = Trackers[i].outer
         /\ doubled' = [doubled EXCEPT ![i] = IF Counting(i) = {} THEN @ ELSE @ + 1]
    BY <1>2 DEF FindShot, AtTracker
  <2>1. Counting(i) = {}
    <3> SUFFICES ASSUME NEW b \in Counting(i) PROVE FALSE
      OBVIOUS
    <3>1. /\ b \in Actors /\ b # a
          /\ Trackers[i].outer \in Reach(a) /\ Trackers[i].outer \in Reach(b)
      BY DEF Counting, InReach, CountsOuter
    <3> QED BY <3>1 DEF OneOpener
  <2> QED BY <2>1 DEF NoneDoubled, TypeOK
<1>3. CASE TrackerStep(a) /\ ~FindShot(a)
  BY <1>1, <1>3 DEF TrackerStep, ShotsShown, LoadShot, PassShot, CountShot, ClearShot
<1>4. CASE ~TrackerStep(a)
  BY <1>1, <1>4, OutsideTrackers
<1> QED BY <1>2, <1>3, <1>4

LEMMA NextReach ==
    /\ OneOpener /\ TypeOK /\ InReach /\ CountsOuter /\ NoneDoubled /\ [Next]_vars
    => InReach' /\ CountsOuter' /\ NoneDoubled'
<1> SUFFICES ASSUME OneOpener, TypeOK, InReach, CountsOuter, NoneDoubled, [Next]_vars
             PROVE  InReach' /\ CountsOuter' /\ NoneDoubled'
  OBVIOUS
<1>1. ASSUME NEW a \in Actors, Step(a) PROVE InReach' /\ CountsOuter' /\ NoneDoubled'
  BY <1>1, StepReach, StepCountsOuter, StepNotDoubled
<1>2. ASSUME NEW a \in Actors, NEW v \in Switches, NEW action \in Actions,
             Request(a, v, action)
      PROVE  InReach' /\ CountsOuter' /\ NoneDoubled'
  <2>1. /\ UNCHANGED <<doubled, shown, todo>> /\ pc[a] = "idle" /\ pc'[a] = "check"
        /\ v \in Operates[a] /\ cur'[a].valve = v
        /\ \A b \in Actors \ {a} : pc'[b] = pc[b] /\ cur'[b] = cur[b]
    BY <1>2 DEF Request, shots, TypeOK
  <2>2. v \in Reach(a)
    BY <2>1 DEF Reach
  <2> QED BY <2>1, <2>2 DEF InReach, CountsOuter, NoneDoubled
<1>3. CASE \/ \E r \in Readers : RecordState(r) \/ \E v \in Switches : ReadState(r, v)
           \/ Manage \/ UNCHANGED vars
  <2>1. UNCHANGED <<doubled, shown, pc, cur, todo>>
    BY <1>3 DEF RecordState, ReadState, Manage, SetLock, SetOwner, SetEnabled, vars,
                shots, control
  <2> QED BY <2>1 DEF InReach, CountsOuter, NoneDoubled
<1> QED BY <1>1, <1>2, <1>3 DEF Next

\* Where one thread alone opens the outer valve of a pipette, directly or as a child,
\* no load is ever counted twice.
THEOREM CountedOnce == OneOpener => (Spec => [](\A i \in TrackerIds : counts[i] <= loads[i]))
<1> SUFFICES ASSUME OneOpener
             PROVE  Spec => [](\A i \in TrackerIds : counts[i] <= loads[i])
  OBVIOUS
<1>1. Init => InReach /\ CountsOuter /\ NoneDoubled
  BY DEF Init, InReach, CountsOuter, NoneDoubled
<1>2. TypeOK /\ InReach /\ CountsOuter /\ NoneDoubled /\ [Next]_vars
        => InReach' /\ CountsOuter' /\ NoneDoubled'
  BY NextReach
<1>3. TypeOK /\ ShotAccounting /\ NoneDoubled => \A i \in TrackerIds : counts[i] <= loads[i]
  BY DEF TypeOK, ShotAccounting, NoneDoubled
<1> QED BY <1>1, <1>2, <1>3, ShotsAccounted, TypeCorrect, PTL DEF Spec

----------------------------------------------------------------------------
(***************************************************************************)
(* The interlocks of a line on which each thread has its own group of      *)
(* switches: no two interlocked switches are ever open together, and the   *)
(* calls implement the one-step opening and closing of ValveLine.          *)
(***************************************************************************)

\* A thread that turns to its next call is idle or checks a switch of its group.
LEMMA NextCallOwn ==
    ASSUME TypeOK, NEW a \in Actors, NEW rest \in SUBSET Operates[a],
           NextCall(a, rest)
    PROVE  /\ pc'[a] \in {"idle", "check"}
           /\ todo'[a] \subseteq Operates[a]
           /\ pc'[a] # "idle" => cur'[a].valve \in Operates[a]
           /\ \A b \in Actors \ {a} :
                pc'[b] = pc[b] /\ cur'[b] = cur[b] /\ todo'[b] = todo[b]
<1>1. ASSUME NEW c \in rest, pc' = [pc EXCEPT ![a] = "check"],
             cur' = [cur EXCEPT ![a] =
                [valve |-> c, action |-> ChildAction(c, cur[a].root),
                 child |-> TRUE, root |-> cur[a].root]],
             todo' = [todo EXCEPT ![a] = rest \ {c}]
      PROVE  /\ pc'[a] = "check"
             /\ cur'[a].valve \in Operates[a] /\ todo'[a] \subseteq Operates[a]
             /\ \A b \in Actors \ {a} :
                  pc'[b] = pc[b] /\ cur'[b] = cur[b] /\ todo'[b] = todo[b]
  BY <1>1 DEF TypeOK
<1>2. CASE rest = {} /\ pc' = [pc EXCEPT ![a] = "idle"]
             /\ cur' = [cur EXCEPT ![a] = NoCall] /\ todo' = [todo EXCEPT ![a] = {}]
  BY <1>2 DEF TypeOK
<1> QED BY <1>1, <1>2 DEF NextCall

\* While a thread is not at "moved", what the program records of its group is
\* where the group is.
LEMMA OwnGroupKnown ==
    ASSUME SeparateGroups, GroupInv, NEW a \in Actors, pc[a] # "moved",
           NEW w \in Operates[a]
    PROVE  state[w] = phys[w]
<1> SUFFICES ASSUME state[w] # phys[w] PROVE FALSE
  OBVIOUS
<1>1. w \in Switches
  BY SwitchAssumption
<1>2. PICK b \in Actors : pc[b] = "moved" /\ cur[b].valve = w
  BY <1>1 DEF GroupInv, RecordedState
<1>3. w \in Operates[b]
  BY <1>2 DEF GroupInv, OwnCalls
<1> QED BY <1>2, <1>3 DEF SeparateGroups

\* A switch that answers and is where it was sent reads back as wanted.
LEMMA ReadBackTrue ==
    ASSUME "blind" \notin Faults, NEW v, phys[v] \in BOOLEAN, NEW action \in Actions,
           phys[v] = IsOpen(action), NEW r \in ChannelReadings(v)
    PROVE  ReadsBack(v, action, r)
<1>1. r = IF Channel(v) THEN "true" ELSE "false"
  BY DEF ChannelReadings
<1>2. CASE v \in InvertedLogic
  BY <1>1, <1>2 DEF Channel, Xor, ReadsBack, ChannelCommand, IsOpen, Opposite, Actions
<1>3. CASE v \notin InvertedLogic
  BY <1>1, <1>3 DEF Channel, Xor, ReadsBack, ChannelCommand, IsOpen, Opposite, Actions
<1> QED BY <1>2, <1>3

LEMMA InitGroup == SeparateGroups /\ Init => GroupInv
<1> SUFFICES ASSUME SeparateGroups, Init PROVE GroupInv
  OBVIOUS
<1>1. TypeOK
  BY InitTyped
<1>2. NoPolling /\ OwnCalls /\ RecordedState /\ MovedAsAsked /\ StillClear
  BY DEF Init, NoPolling, OwnCalls, RecordedState, MovedAsAsked, StillClear
<1>3. InterlockSafety
  BY DEF Init, InterlockSafety
<1> QED BY <1>1, <1>2, <1>3 DEF GroupInv

\* A thread that gives up its call, for any reason but an actuation that did move.
LEMMA GiveUpGroup ==
    ASSUME SeparateGroups, GroupInv, TypeOK', NEW a \in Actors, pc[a] # "moved",
           NEW rest \in SUBSET Operates[a], NextCall(a, rest),
           UNCHANGED <<state, phys, poll>>
    PROVE  GroupInv'
<1> USE DEF GroupInv
<1>1. /\ pc'[a] \in {"idle", "check"}
      /\ todo'[a] \subseteq Operates[a]
      /\ pc'[a] # "idle" => cur'[a].valve \in Operates[a]
      /\ \A b \in Actors \ {a} :
           pc'[b] = pc[b] /\ cur'[b] = cur[b] /\ todo'[b] = todo[b]
  BY NextCallOwn
<1>2. OwnCalls' /\ NoPolling' /\ InterlockSafety'
  BY <1>1 DEF OwnCalls, NoPolling, InterlockSafety
<1>3. RecordedState'
  BY <1>1 DEF RecordedState
<1>4. MovedAsAsked' /\ StillClear'
  BY <1>1 DEF MovedAsAsked, StillClear
<1> QED BY <1>2, <1>3, <1>4

\* The check holds for the hardware, not only for what the program records of it.
LEMMA AllowGroup ==
    ASSUME SeparateGroups, GroupInv, TypeOK', NEW a \in Actors, InterlockAllows(a)
    PROVE  GroupInv'
<1> USE DEF GroupInv
<1>1. pc[a] = "check" /\ pc' = [pc EXCEPT ![a] = "act"]
        /\ UNCHANGED <<state, phys, poll, cur, todo>>
  BY DEF InterlockAllows
<1>2. cur[a] \in Calls /\ cur[a].valve \in Operates[a] /\ cur[a].valve \in Switches
  BY <1>1 DEF OwnCalls, TypeOK, Calls
<1>3. /\ \A w \in Interlocks[cur[a].valve] : ~phys[w]
      /\ IsOpen(cur[a].action) => \A w \in PositiveInterlocks[cur[a].valve] : phys[w]
  <2>1. /\ Interlocks[cur[a].valve] \subseteq Operates[a]
        /\ PositiveInterlocks[cur[a].valve] \subseteq Operates[a]
    BY <1>2 DEF SeparateGroups
  <2>2. \A w \in Operates[a] : state[w] = phys[w]
    BY <1>1, OwnGroupKnown
  <2> QED BY <2>1, <2>2 DEF InterlockAllows, Blocked, SoftInterlocked, PositiveInterlocked
<1>4. StillClear'
  BY <1>1, <1>3 DEF StillClear, TypeOK
<1>5. OwnCalls' /\ NoPolling' /\ RecordedState' /\ MovedAsAsked' /\ InterlockSafety'
  BY <1>1 DEF OwnCalls, NoPolling, RecordedState, MovedAsAsked, InterlockSafety, TypeOK
<1> QED BY <1>4, <1>5

LEMMA CommandGroup ==
    ASSUME SeparateGroups, GroupInv, TypeOK', NEW a \in Actors, Command(a)
    PROVE  GroupInv'
<1> USE DEF GroupInv
<1>1. pc[a] = "act" /\ pc' = [pc EXCEPT ![a] = "sent"]
        /\ UNCHANGED <<state, phys, poll, cur, todo>>
  BY DEF Command
<1>2. StillClear'
  BY <1>1 DEF StillClear, TypeOK
<1>3. OwnCalls' /\ NoPolling' /\ RecordedState' /\ MovedAsAsked' /\ InterlockSafety'
  BY <1>1 DEF OwnCalls, NoPolling, RecordedState, MovedAsAsked, InterlockSafety, TypeOK
<1> QED BY <1>2, <1>3

\* A switch that moves where a clear check sent it leaves the interlocks safe, and
\* no other thread's check is about it.
LEMMA MoveSafe ==
    ASSUME SeparateGroups, GroupInv, NEW a \in Actors, pc[a] \in {"act", "sent"},
           NEW v, v = cur[a].valve,
           phys' = [phys EXCEPT ![v] = IsOpen(cur[a].action)]
    PROVE  /\ InterlockSafety'
           /\ \A b \in Actors \ {a} : pc[b] # "idle" =>
                /\ phys'[cur[b].valve] = phys[cur[b].valve]
                /\ \A w \in Interlocks[cur[b].valve] : phys'[w] = phys[w]
                /\ \A w \in PositiveInterlocks[cur[b].valve] : phys'[w] = phys[w]
<1> USE DEF GroupInv
<1>1. v \in Switches /\ v \in Operates[a]
  BY DEF OwnCalls, TypeOK, Calls
<1>2. \A w \in Interlocks[v] : ~phys[w]
  BY DEF StillClear
<1>3. \A w \in Switches : w # v => phys'[w] = phys[w]
  BY DEF TypeOK
<1>4. InterlockSafety'
  <2> SUFFICES ASSUME NEW u \in Switches, NEW w \in Interlocks[u], phys'[u], phys'[w]
               PROVE  FALSE
    BY DEF InterlockSafety
  <2>1. w \in Switches
    BY SwitchAssumption
  <2>2. CASE u = v
    BY <2>1, <2>2, <1>2, <1>3 DEF SeparateGroups
  <2>3. CASE w = v
    BY <2>1, <2>3, <1>2, <1>3 DEF SeparateGroups
  <2>4. CASE u # v /\ w # v
    BY <2>1, <2>4, <1>3 DEF InterlockSafety
  <2> QED BY <2>2, <2>3, <2>4
<1>5. ASSUME NEW b \in Actors \ {a}, pc[b] # "idle"
      PROVE  /\ cur[b].valve \in Operates[b]
             /\ Interlocks[cur[b].valve] \subseteq Operates[b]
             /\ PositiveInterlocks[cur[b].valve] \subseteq Operates[b]
             /\ \A w \in Operates[b] : phys'[w] = phys[w]
  <2>1. cur[b].valve \in Operates[b]
    BY <1>5 DEF OwnCalls
  <2>2. \A w \in Operates[b] : w # v /\ w \in Switches
    BY <1>1, SwitchAssumption DEF SeparateGroups
  <2> QED BY <2>1, <2>2, <1>3 DEF SeparateGroups
<1> QED BY <1>4, <1>5

LEMMA MoveGroup ==
    ASSUME SeparateGroups, GroupInv, TypeOK', NEW a \in Actors, HardwareMoves(a)
    PROVE  GroupInv'
<1> USE DEF GroupInv
<1> DEFINE v == cur[a].valve
<1>1. pc[a] = "sent" /\ UNCHANGED <<state, poll, cur, todo>>
  BY DEF HardwareMoves
<1>2. v \in Switches /\ v \in Operates[a]
  BY <1>1 DEF OwnCalls, TypeOK, Calls
<1>3. "stuck" \notin Faults /\ "lost_ack" \notin Faults
  BY DEF SeparateGroups
<1>4. OwnCalls' /\ NoPolling'
  BY <1>1 DEF HardwareMoves, OwnCalls, NoPolling, TypeOK
<1>5. CASE phys' = phys /\ pc' = [pc EXCEPT ![a] = "noack"]
  <2>1. RecordedState' /\ MovedAsAsked' /\ StillClear' /\ InterlockSafety'
    BY <1>1, <1>5 DEF RecordedState, MovedAsAsked, StillClear, InterlockSafety, TypeOK
  <2> QED BY <1>4, <2>1
<1>6. CASE /\ phys' = [phys EXCEPT ![v] = IsOpen(cur[a].action)]
           /\ pc' = [pc EXCEPT ![a] = "moved"]
  <2>1. /\ InterlockSafety'
        /\ \A b \in Actors \ {a} : pc[b] # "idle" =>
             /\ phys'[cur[b].valve] = phys[cur[b].valve]
             /\ \A w \in Interlocks[cur[b].valve] : phys'[w] = phys[w]
             /\ \A w \in PositiveInterlocks[cur[b].valve] : phys'[w] = phys[w]
    BY <1>1, <1>6, MoveSafe
  <2>2. pc'[a] = "moved" /\ \A b \in Actors \ {a} : pc'[b] = pc[b]
    BY <1>6 DEF TypeOK
  <2>3. phys'[v] = IsOpen(cur[a].action) /\ \A w \in Switches : w # v => phys'[w] = phys[w]
    BY <1>2, <1>6 DEF TypeOK
  <2>4. RecordedState'
    BY <1>1, <2>2, <2>3 DEF RecordedState
  <2>5. MovedAsAsked'
    BY <1>1, <2>1, <2>2, <2>3 DEF MovedAsAsked
  <2>6. StillClear'
    BY <1>1, <2>1, <2>2 DEF StillClear
  <2> QED BY <1>4, <2>1, <2>4, <2>5, <2>6
<1> QED BY <1>3, <1>5, <1>6 DEF HardwareMoves

\* A thread that recorded its actuation is at the trackers or at its next call.
LEMMA SucceedOwn ==
    ASSUME SeparateGroups, GroupInv, NEW a \in Actors, pc[a] # "idle", CallSucceeds(a)
    PROVE  /\ pc'[a] \in {"idle", "check"}
           /\ todo'[a] \subseteq Operates[a]
           /\ pc'[a] # "idle" => cur'[a].valve \in Operates[a]
           /\ \A b \in Actors \ {a} :
                pc'[b] = pc[b] /\ cur'[b] = cur[b] /\ todo'[b] = todo[b]
<1> USE DEF GroupInv
<1> DEFINE rest == IF cur[a].child THEN todo[a] ELSE Children(cur[a].valve)
<1>1. rest \in SUBSET Operates[a]
  BY DEF OwnCalls, SeparateGroups
<1>2. NextCall(a, rest)
  BY DEF CallSucceeds
<1> HIDE DEF rest
<1> QED BY <1>1, <1>2, NextCallOwn

LEMMA RecordOwn ==
    ASSUME SeparateGroups, GroupInv, NEW a \in Actors, pc[a] # "idle", RecordSuccess(a)
    PROVE  /\ pc'[a] \in {"idle", "check", "shot"}
           /\ todo'[a] \subseteq Operates[a]
           /\ pc'[a] # "idle" => cur'[a].valve \in Operates[a]
           /\ \A b \in Actors \ {a} :
                pc'[b] = pc[b] /\ cur'[b] = cur[b] /\ todo'[b] = todo[b]
<1>1. CASE CallSucceeds(a)
  BY <1>1, SucceedOwn
<1>2. CASE ShowShot(a)
  BY <1>2 DEF ShowShot, GroupInv, OwnCalls, TypeOK
<1> QED BY <1>1, <1>2 DEF RecordSuccess

\* The steps at the trackers move no switch.
LEMMA TrackerGroup ==
    ASSUME SeparateGroups, GroupInv, TypeOK', NEW a \in Actors, TrackerStep(a)
    PROVE  GroupInv'
<1> USE DEF GroupInv
<1>1. pc[a] \in {"shot", "count", "clear"} /\ UNCHANGED <<state, phys, poll>>
  BY DEF TrackerStep, ShotsShown, LoadShot, PassShot, FindShot, CountShot, ClearShot,
         AtTracker
<1>2. /\ pc'[a] \in {"idle", "check", "shot", "count", "clear"}
      /\ todo'[a] \subseteq Operates[a]
      /\ pc'[a] # "idle" => cur'[a].valve \in Operates[a]
      /\ \A b \in Actors \ {a} :
           pc'[b] = pc[b] /\ cur'[b] = cur[b] /\ todo'[b] = todo[b]
  <2>1. CASE ShotsShown(a) \/ LoadShot(a) \/ ClearShot(a)
    BY <1>1, <2>1, SucceedOwn DEF ShotsShown, LoadShot, ClearShot, Shown
  <2>2. CASE PassShot(a) \/ FindShot(a) \/ CountShot(a)
    BY <1>1, <2>2 DEF PassShot, FindShot, CountShot, control, OwnCalls, TypeOK
  <2> QED BY <2>1, <2>2 DEF TrackerStep
<1>3. OwnCalls' /\ NoPolling' /\ InterlockSafety'
  BY <1>1, <1>2 DEF OwnCalls, NoPolling, InterlockSafety
<1>4. RecordedState'
  BY <1>1, <1>2 DEF RecordedState
<1>5. MovedAsAsked' /\ StillClear'
  BY <1>1, <1>2 DEF MovedAsAsked, StillClear
<1> QED BY <1>3, <1>4, <1>5

LEMMA ManualGroup ==
    ASSUME SeparateGroups, GroupInv, TypeOK', NEW a \in Actors, ActuateManual(a)
    PROVE  GroupInv'
<1> USE DEF GroupInv
<1> DEFINE v == cur[a].valve
<1>1. /\ pc[a] = "act" /\ UNCHANGED poll
      /\ phys' = [phys EXCEPT ![v] = IsOpen(cur[a].action)]
      /\ state' = [state EXCEPT ![v] = IsOpen(cur[a].action)]
      /\ RecordSuccess(a)
  BY DEF ActuateManual, RecordSuccess
<1>2. v \in Switches /\ v \in Operates[a]
  BY <1>1 DEF OwnCalls, TypeOK, Calls
<1>4. /\ pc'[a] \in {"idle", "check", "shot"}
      /\ todo'[a] \subseteq Operates[a]
      /\ pc'[a] # "idle" => cur'[a].valve \in Operates[a]
      /\ \A b \in Actors \ {a} :
           pc'[b] = pc[b] /\ cur'[b] = cur[b] /\ todo'[b] = todo[b]
  BY <1>1, RecordOwn
<1>5. /\ InterlockSafety'
      /\ \A b \in Actors \ {a} : pc[b] # "idle" =>
           /\ phys'[cur[b].valve] = phys[cur[b].valve]
           /\ \A w \in Interlocks[cur[b].valve] : phys'[w] = phys[w]
           /\ \A w \in PositiveInterlocks[cur[b].valve] : phys'[w] = phys[w]
  BY <1>1, MoveSafe
<1>6. /\ state'[v] = phys'[v]
      /\ \A w \in Switches : w # v => state'[w] = state[w] /\ phys'[w] = phys[w]
  BY <1>1, <1>2 DEF TypeOK
<1>7. OwnCalls' /\ NoPolling'
  BY <1>1, <1>4 DEF OwnCalls, NoPolling
<1>8. RecordedState'
  BY <1>1, <1>4, <1>6 DEF RecordedState
<1>9. MovedAsAsked' /\ StillClear'
  BY <1>4, <1>5 DEF MovedAsAsked, StillClear
<1> QED BY <1>5, <1>7, <1>8, <1>9

LEMMA SuccessGroup ==
    ASSUME SeparateGroups, GroupInv, TypeOK', NEW a \in Actors, ActuationSucceeds(a)
    PROVE  GroupInv'
<1> USE DEF GroupInv
<1> DEFINE v == cur[a].valve
<1>1. /\ pc[a] = "moved" /\ UNCHANGED <<phys, poll>>
      /\ state' = [state EXCEPT ![v] = IsOpen(cur[a].action)]
      /\ RecordSuccess(a)
  BY DEF ActuationSucceeds, RecordSuccess
<1>2. v \in Switches /\ v \in Operates[a]
  BY <1>1 DEF OwnCalls, TypeOK, Calls
<1>4. /\ pc'[a] \in {"idle", "check", "shot"}
      /\ todo'[a] \subseteq Operates[a]
      /\ pc'[a] # "idle" => cur'[a].valve \in Operates[a]
      /\ \A b \in Actors \ {a} :
           pc'[b] = pc[b] /\ cur'[b] = cur[b] /\ todo'[b] = todo[b]
  BY <1>1, RecordOwn
<1>5. /\ state'[v] = phys'[v]
      /\ \A w \in Switches : w # v => state'[w] = state[w] /\ phys'[w] = phys[w]
  BY <1>1, <1>2 DEF TypeOK, MovedAsAsked
<1>6. OwnCalls' /\ NoPolling' /\ InterlockSafety'
  BY <1>1, <1>4 DEF OwnCalls, NoPolling, InterlockSafety
<1>7. RecordedState'
  BY <1>1, <1>4, <1>5 DEF RecordedState
<1>8. MovedAsAsked' /\ StillClear'
  BY <1>1, <1>4 DEF MovedAsAsked, StillClear
<1> QED BY <1>6, <1>7, <1>8

\* A switch that was moved reads back as wanted: only an unacknowledged actuation
\* fails.
LEMMA FailureUnacknowledged ==
    ASSUME SeparateGroups, GroupInv, NEW a \in Actors, ActuationFails(a)
    PROVE  pc[a] = "noack"
<1> SUFFICES ASSUME pc[a] = "moved" PROVE FALSE
  BY DEF ActuationFails
<1> USE DEF GroupInv
<1>1. PICK r \in ChannelReadings(cur[a].valve) :
         ~ReadsBack(cur[a].valve, cur[a].action, r)
  BY DEF ActuationFails
<1>2. /\ "blind" \notin Faults /\ phys[cur[a].valve] = IsOpen(cur[a].action)
      /\ cur[a].valve \in Switches /\ cur[a].action \in Actions
  BY DEF SeparateGroups, MovedAsAsked, TypeOK, Calls
<1>3. phys[cur[a].valve] \in BOOLEAN
  BY <1>2 DEF TypeOK
<1> QED BY <1>1, <1>2, <1>3, ReadBackTrue

LEMMA StepGroup ==
    ASSUME SeparateGroups, GroupInv, NEW a \in Actors, Step(a)
    PROVE  GroupInv'
<1>1. TypeOK'
  BY StepTyped DEF GroupInv
<1>2. todo[a] \in SUBSET Operates[a]
  BY DEF GroupInv, OwnCalls
<1>3. CASE InterlockRefuses(a) \/ NotEnabled(a) \/ SoftwareLocked(a)
  <2>1. /\ pc[a] \in {"check", "act"} /\ NextCall(a, todo[a])
        /\ UNCHANGED <<state, phys, poll>>
    BY <1>3 DEF InterlockRefuses, NotEnabled, SoftwareLocked, CallFails
  <2> QED BY <1>1, <1>2, <2>1, GiveUpGroup
<1>4. CASE ActuationFails(a)
  <2>1. pc[a] = "noack"
    BY <1>4, FailureUnacknowledged
  <2>2. NextCall(a, todo[a]) /\ UNCHANGED <<state, phys, poll>>
    BY <1>4 DEF ActuationFails, CallFails
  <2> QED BY <1>1, <1>2, <2>1, <2>2, GiveUpGroup
<1>5. CASE SoftwareLockedRaises(a)
  <2>1. pc[a] = "act" /\ NextCall(a, {}) /\ UNCHANGED <<state, phys, poll>>
    BY <1>5 DEF SoftwareLockedRaises
  <2> QED BY <1>1, <2>1, GiveUpGroup
<1>6. CASE InterlockAllows(a) \/ Command(a) \/ HardwareMoves(a)
  BY <1>1, <1>6, AllowGroup, CommandGroup, MoveGroup
<1>7. CASE ActuateManual(a) \/ ActuationSucceeds(a)
  BY <1>1, <1>7, ManualGroup, SuccessGroup
<1>8. CASE TrackerStep(a)
  BY <1>1, <1>8, TrackerGroup
<1> QED BY <1>3, <1>4, <1>5, <1>6, <1>7, <1>8 DEF Step, TrackerStep

LEMMA RequestGroup ==
    ASSUME SeparateGroups, GroupInv, TypeOK', NEW a \in Actors, NEW v \in Switches,
           NEW action \in Actions, Request(a, v, action)
    PROVE  GroupInv'
<1> USE DEF GroupInv
<1>1. /\ pc[a] = "idle" /\ v \in Operates[a] /\ UNCHANGED <<state, phys, poll, todo>>
      /\ pc' = [pc EXCEPT ![a] = "check"]
      /\ cur' = [cur EXCEPT ![a] =
            [valve |-> v, action |-> action, child |-> FALSE, root |-> action]]
  BY DEF Request
<1>2. /\ pc'[a] = "check" /\ cur'[a].valve = v
      /\ \A b \in Actors \ {a} : pc'[b] = pc[b] /\ cur'[b] = cur[b]
  BY <1>1 DEF TypeOK
<1>4. OwnCalls'
  BY <1>1, <1>2 DEF OwnCalls
<1>5. NoPolling' /\ RecordedState' /\ MovedAsAsked' /\ StillClear' /\ InterlockSafety'
  BY <1>1, <1>2 DEF NoPolling, RecordedState, MovedAsAsked, StillClear, InterlockSafety
<1> QED BY <1>4, <1>5

LEMMA NextGroup == SeparateGroups /\ GroupInv /\ [Next]_vars => GroupInv'
<1> SUFFICES ASSUME SeparateGroups, GroupInv, [Next]_vars PROVE GroupInv'
  OBVIOUS
<1>1. TypeOK'
  BY NextTyped DEF GroupInv
<1>2. ASSUME NEW a \in Actors, NEW v \in Switches, NEW action \in Actions,
             Request(a, v, action)
      PROVE  GroupInv'
  BY <1>1, <1>2, RequestGroup
<1>3. ASSUME NEW a \in Actors, Step(a) PROVE GroupInv'
  BY <1>3, StepGroup
<1>4. CASE \E r \in Readers : RecordState(r) \/ \E v \in Switches : ReadState(r, v)
  BY <1>4 DEF SeparateGroups, GroupInv, NoPolling, RecordState, ReadState
<1>5. CASE Manage \/ UNCHANGED vars
  <2>1. UNCHANGED <<state, phys, pc, cur, todo, poll>>
    BY <1>5 DEF Manage, SetLock, SetOwner, SetEnabled, vars, control
  <2> QED BY <1>1, <2>1 DEF GroupInv, NoPolling, OwnCalls, RecordedState,
             MovedAsAsked, StillClear, InterlockSafety
<1> QED BY <1>2, <1>3, <1>4, <1>5 DEF Next

\* On a line whose threads have separate groups no two interlocked switches are
\* ever open together, for any number of switches, threads and pipettes.
THEOREM InterlocksSafe == SeparateGroups => (Spec => []InterlockSafety)
<1> SUFFICES ASSUME SeparateGroups PROVE Spec => []InterlockSafety
  OBVIOUS
<1>1. Init => GroupInv
  BY InitGroup
<1>2. GroupInv /\ [Next]_vars => GroupInv'
  BY NextGroup
<1>3. GroupInv => InterlockSafety
  BY DEF GroupInv
<1> QED BY <1>1, <1>2, <1>3, PTL DEF Spec

\* On such a line the recorded state is wrong only while a call is between moving
\* a switch and recording it.
THEOREM RecordsRight == SeparateGroups => (Spec => []RecordedState)
<1> SUFFICES ASSUME SeparateGroups PROVE Spec => []RecordedState
  OBVIOUS
<1>1. Init => GroupInv
  BY InitGroup
<1>2. GroupInv /\ [Next]_vars => GroupInv'
  BY NextGroup
<1>3. GroupInv => RecordedState
  BY DEF GroupInv
<1> QED BY <1>1, <1>2, <1>3, PTL DEF Spec

------------------------------------------------------------------------------
(* The calls implement ValveLine *)

LEMMA MovesLine ==
    ASSUME GroupInv, NEW a \in Actors, pc[a] \in {"act", "sent"},
           phys' = [phys EXCEPT ![cur[a].valve] = IsOpen(cur[a].action)]
    PROVE  Line!Next
<1> USE DEF GroupInv
<1>1. cur[a].valve \in Switches
  BY DEF TypeOK, Calls
<1>2. CASE IsOpen(cur[a].action)
  <2>1. Line!Open(cur[a].valve)
    BY <1>2 DEF StillClear, Line!Open, Line!Clear, Line!Enabled
  <2> QED BY <1>1, <2>1 DEF Line!Next
<1>3. CASE ~IsOpen(cur[a].action)
  <2>1. Line!Close(cur[a].valve)
    BY <1>3 DEF StillClear, Line!Close, Line!Clear, IsOpen
  <2> QED BY <1>1, <2>1 DEF Line!Next
<1> QED BY <1>2, <1>3

LEMMA NextLine == SeparateGroups /\ GroupInv /\ [Next]_vars => [Line!Next]_phys
<1> SUFFICES ASSUME SeparateGroups, GroupInv, [Next]_vars, phys' # phys
             PROVE  Line!Next
  OBVIOUS
<1>1. PICK a \in Actors : ActuateManual(a) \/ HardwareMoves(a)
  BY DEF Next, Step, Request, InterlockRefuses, InterlockAllows, NotEnabled,
         SoftwareLocked, SoftwareLockedRaises, Command, ActuationSucceeds,
         ActuationFails, RecordState, ReadState, Manage, SetLock, SetOwner,
         SetEnabled, ShotsShown, LoadShot, PassShot, FindShot, CountShot, ClearShot, vars
<1>2. /\ pc[a] \in {"act", "sent"}
      /\ phys' = [phys EXCEPT ![cur[a].valve] = IsOpen(cur[a].action)]
  BY <1>1 DEF ActuateManual, HardwareMoves
<1> QED BY <1>2, MovesLine

\* On such a line every call, cut into its steps and interleaved with the others,
\* implements the one-step moves of the valve line.
THEOREM ImplementsLine == SeparateGroups => (Spec => LineSpec)
<1> SUFFICES ASSUME SeparateGroups PROVE Spec => LineSpec
  OBVIOUS
<1>1. Init => GroupInv
  BY InitGroup
<1>2. GroupInv /\ [Next]_vars => GroupInv'
  BY NextGroup
<1>3. Init => Line!Init
  BY DEF Init, Line!Init
<1>4. GroupInv /\ [Next]_vars => [Line!Next]_phys
  BY NextLine
<1> QED BY <1>1, <1>2, <1>3, <1>4, PTL DEF Spec, LineSpec, Line!Spec
====
