---- MODULE StatusMonitorProofs ----
(***************************************************************************)
(* Type correctness of the status monitor, for any callers, frequencies    *)
(* and number of calls; and that the monitor runs while it is wanted, as   *)
(* long as calls do not overlap.                                           *)
(*                                                                         *)
(* A thread is launched by a call, and by each call at most once: the      *)
(* events that were made and the calls that may still make one are not     *)
(* more than the calls so far.                                             *)
(***************************************************************************)
EXTENDS StatusMonitor, FiniteSetTheorems, TLAPS

(* The calls that have not made an event and may yet                       *)
Before == {"remove", "alone", "look", "launch"}
Pending == {c \in Callers : pc[c] \in Before}

CountInv == IsFiniteSet(Pending) /\ evt + Cardinality(Pending) <= calls

TInv == MonitorTypeOK /\ CountInv

LEMMA InitTyped == MonitorInit => TInv
<1> SUFFICES ASSUME MonitorInit PROVE TInv OBVIOUS
<1>a. overlap \in BOOLEAN
  BY DEF MonitorInit
<1>b. at \in [Threads -> {"none", "sleep", "end", "over"} \cup Kinds]
      /\ i \in [Threads -> 0..(Wrap + 1)]
  BY MonitorAssumption DEF MonitorInit
<1>c. pc \in [Callers -> {"idle", "remove", "alone", "look", "launch", "enlist",
                         "append"} \cup Kinds]
      /\ job \in [Callers -> {"start", "stop", "setup"}]
  BY DEF MonitorInit
<1>1. MonitorTypeOK
  BY <1>a, <1>b, <1>c, MonitorAssumption DEF MonitorInit, MonitorTypeOK, Threads
<1>2. Pending = {}
  BY DEF MonitorInit, Pending, Before
<1>3. IsFiniteSet(Pending) /\ Cardinality(Pending) = 0
  BY <1>2, FS_EmptySet
<1> QED BY <1>1, <1>3 DEF TInv, CountInv, MonitorInit

\* A caller that stays on its side of the launch leaves the count as it is.
LEMMA SameCount ==
    ASSUME TInv, NEW c \in Callers, NEW label, pc' = [pc EXCEPT ![c] = label],
           pc[c] \in Before <=> label \in Before,
           UNCHANGED <<evt, calls>>
    PROVE  CountInv'
<1>1. Pending' = Pending
  BY DEF Pending, TInv, MonitorTypeOK
<1> QED BY <1>1 DEF TInv, CountInv

\* One that leaves it makes at most one event.
LEMMA LessCount ==
    ASSUME TInv, NEW c \in Callers, NEW label, pc' = [pc EXCEPT ![c] = label],
           pc[c] \in Before, label \notin Before,
           evt' \in {evt, evt + 1}, UNCHANGED calls
    PROVE  CountInv'
<1>1. Pending' = Pending \ {c} /\ c \in Pending
  BY DEF Pending, TInv, MonitorTypeOK
<1>2. IsFiniteSet(Pending')
      /\ Cardinality(Pending') = Cardinality(Pending) - 1
      /\ Cardinality(Pending) \in Nat
  BY <1>1, FS_RemoveElement, FS_CardinalityType DEF TInv, CountInv
<1> QED BY <1>2 DEF TInv, CountInv, MonitorTypeOK

\* Before a launch there are fewer events than calls.
LEMMA RoomForOne ==
    ASSUME TInv, NEW c \in Callers, pc[c] \in Before
    PROVE  evt < calls
<1>1. c \in Pending
  BY DEF Pending
<1>2. Cardinality(Pending) \in Nat /\ Cardinality(Pending) # 0
  BY <1>1, FS_CardinalityType, FS_EmptySet DEF TInv, CountInv
<1> QED BY <1>2 DEF TInv, CountInv, MonitorTypeOK

LEMMA CallTyped ==
    ASSUME TInv, NEW c \in Callers,
           Call(c) \/ Refresh(c) \/ \E j \in Jobs[c] : Request(c, j)
    PROVE  TInv'
<1> USE DEF Goto, Before
<1>1. ASSUME NEW j \in Jobs[c], Request(c, j) PROVE TInv'
  <2>1. PICK label \in {"look", "remove"} : pc' = [pc EXCEPT ![c] = label]
    BY <1>1 DEF Request
  <2>2. Pending' = Pending \cup {c} /\ c \notin Pending
    BY <1>1, <2>1 DEF Request, Pending, TInv, MonitorTypeOK
  <2>3. IsFiniteSet(Pending') /\ Cardinality(Pending') = Cardinality(Pending) + 1
        /\ Cardinality(Pending) \in Nat
    BY <2>2, FS_AddElement, FS_CardinalityType DEF TInv, CountInv
  <2>4. calls' = calls + 1 /\ calls < MaxCalls /\ evt' = evt
    BY <1>1 DEF Request, monitor
  <2>5. CountInv'
    BY <2>3, <2>4 DEF TInv, CountInv, MonitorTypeOK
  <2>6. j \in {"start", "stop", "setup"}
    BY MonitorAssumption
  <2>7. MonitorTypeOK'
    BY <1>1, <2>1, <2>4, <2>6, MonitorAssumption DEF Request, monitor, TInv, MonitorTypeOK
  <2> QED BY <2>5, <2>7 DEF TInv
<1>2. CASE TakeOff(c)
  <2>1. MonitorTypeOK'
    BY <1>2 DEF TakeOff, TInv, MonitorTypeOK
  <2> QED BY <1>2, <2>1, SameCount DEF TakeOff, TInv
<1>3. CASE Alone(c)
  <2>1. MonitorTypeOK'
    BY <1>3 DEF Alone, TInv, MonitorTypeOK
  <2>2. CASE job[c] = "setup"
    BY <1>3, <2>1, <2>2, SameCount DEF Alone, TInv
  <2>3. CASE job[c] # "setup"
    BY <1>3, <2>1, <2>3, LessCount DEF Alone, TInv
  <2> QED BY <2>2, <2>3
<1>4. CASE Look(c)
  <2>c. evt' = evt /\ isSet' \in {isSet, isSet \cup ({evt} \ {0})}
    BY <1>4 DEF Look
  <2>d. evt \in Nat /\ isSet \subseteq 1..evt
    BY MonitorAssumption DEF TInv, MonitorTypeOK
  <2>a. isSet' \subseteq 1..evt'
    BY <2>c, <2>d
  <2>b. pc' \in [Callers -> {"idle", "remove", "alone", "look", "launch", "enlist",
                            "append"} \cup Kinds]
    BY <1>4 DEF Look, TInv, MonitorTypeOK
  <2>1. MonitorTypeOK'
    BY <1>4, <2>a, <2>b DEF Look, TInv, MonitorTypeOK
  <2>2. CASE clients = 0
    BY <1>4, <2>1, <2>2, SameCount DEF Look, TInv
  <2>3. CASE clients # 0
    BY <1>4, <2>1, <2>3, LessCount DEF Look, TInv
  <2> QED BY <2>2, <2>3
<1>5. CASE Launch(c)
  <2>1. evt < calls /\ evt \in Nat /\ calls <= MaxCalls /\ calls \in Nat
    BY <1>5, RoomForOne, MonitorAssumption DEF Launch, TInv, MonitorTypeOK
  <2>2. evt' = evt + 1 /\ evt' \in 1..MaxCalls
    BY <1>5, <2>1, MonitorAssumption DEF Launch
  <2>3. at' = [at EXCEPT ![evt'] = "sleep"] /\ evt' \in Threads
    BY <1>5, <2>2 DEF Launch, Threads
  <2>4. \A t \in Threads : at'[t] = "none" <=> t > evt'
    BY <2>1, <2>2, <2>3 DEF TInv, MonitorTypeOK, Threads
  <2>5. MonitorTypeOK'
    BY <1>5, <2>2, <2>3, <2>4 DEF Launch, TInv, MonitorTypeOK
  <2> QED BY <1>5, <2>2, <2>5, LessCount DEF Launch, TInv
<1>6. CASE Enlist(c)
  <2>1. MonitorTypeOK'
    BY <1>6 DEF Enlist, AfterStart, Kinds, monitor, TInv, MonitorTypeOK
  <2> QED BY <1>6, <2>1, SameCount DEF Enlist, AfterStart, monitor, TInv
<1>7. CASE PutOn(c)
  <2>1. MonitorTypeOK'
    BY <1>7 DEF PutOn, AfterStart, Kinds, TInv, MonitorTypeOK
  <2> QED BY <1>7, <2>1, SameCount DEF PutOn, AfterStart, TInv
<1>8. ASSUME NEW kind \in Kinds, Refreshed(c, kind) PROVE TInv'
  <2>a. [owner |-> "lock", lock |-> "state", state |-> "idle"][kind] \in {"lock", "state", "idle"}
    BY DEF Kinds
  <2>1. PICK label \in {"lock", "state", "idle"} : pc' = [pc EXCEPT ![c] = label]
    BY <1>8, <2>a DEF Refreshed
  <2>2. MonitorTypeOK'
    BY <1>8, <2>1 DEF Refreshed, Kinds, monitor, TInv, MonitorTypeOK
  <2> QED BY <1>8, <2>1, <2>2, SameCount DEF Refreshed, Kinds, monitor, TInv
<1> QED BY <1>1, <1>2, <1>3, <1>4, <1>5, <1>6, <1>7, <1>8 DEF Call, Refresh

LEMMA ThreadTyped ==
    ASSUME TInv, NEW t \in Threads, Turn(t) \/ Load(t)
    PROVE  TInv'
<1>1. CASE Wake(t)
  BY <1>1 DEF Wake, Step, Kinds, monitor, TInv, MonitorTypeOK, CountInv, Pending
<1>2. ASSUME NEW kind \in Kinds, Past(t, kind) PROVE TInv'
  BY <1>2 DEF Past, Step, Kinds, monitor, TInv, MonitorTypeOK, CountInv, Pending
<1>3. CASE EndIteration(t)
  <2>1. NextCount(i[t]) \in 0..(Wrap + 1)
    BY MonitorAssumption DEF NextCount, TInv, MonitorTypeOK
  <2> QED BY <1>3, <2>1 DEF EndIteration, Step, monitor, TInv, MonitorTypeOK, CountInv, Pending
<1> QED BY <1>1, <1>2, <1>3 DEF Turn, Load, Skip

LEMMA NextTyped == TInv /\ [MonitorNext]_monitorVars => TInv'
<1> SUFFICES ASSUME TInv, [MonitorNext]_monitorVars PROVE TInv' OBVIOUS
<1>1. CASE UNCHANGED monitorVars
  BY <1>1 DEF monitorVars, monitor, TInv, MonitorTypeOK, CountInv, Pending
<1> QED BY <1>1, CallTyped, ThreadTyped DEF MonitorNext

(* Callers and threads are where they can be, whatever the callers do: an  *)
(* event is set only after it was made, and there is one thread for each.  *)
THEOREM TypeCorrect == MonitorSpec => []MonitorTypeOK
<1>1. TInv => MonitorTypeOK BY DEF TInv
<1> QED BY <1>1, InitTyped, NextTyped, PTL DEF MonitorSpec

----------------------------------------------------------------------------
(* The monitor when nobody wants it                                        *)

(* Nobody is on the list, the last event is not set: then a caller is on   *)
(* the way that will set it, or one that made it will be on the list.      *)
OnTheWay == {"alone", "enlist", "append"}

SInv == clients = 0 => evt = 0 \/ Stopped \/ \E c \in Callers : pc[c] \in OnTheWay

LEMMA InitSilenced == MonitorInit => SInv
BY DEF MonitorInit, SInv

LEMMA CallSilenced ==
    ASSUME TInv, SInv, NEW c \in Callers,
           Call(c) \/ Refresh(c) \/ \E j \in Jobs[c] : Request(c, j)
    PROVE  SInv'
<1>a. \A label : Goto(c, label) => pc'[c] = label /\ \A d \in Callers \ {c} : pc'[d] = pc[d]
  BY DEF Goto, TInv, MonitorTypeOK
<1>1. CASE TakeOff(c)
  BY <1>1, <1>a DEF TakeOff, SInv, OnTheWay
<1>2. CASE Alone(c)
  BY <1>2, <1>a DEF Alone, SInv, Stopped, OnTheWay
<1>3. CASE Look(c)
  BY <1>3, <1>a DEF Look, SInv, Stopped, OnTheWay
<1>4. CASE Launch(c)
  BY <1>4, <1>a DEF Launch, SInv, OnTheWay
<1>5. CASE Enlist(c)
  BY <1>5, <1>a DEF Enlist, AfterStart, monitor, SInv, OnTheWay
<1>6. CASE PutOn(c)
  <2>1. clients' # 0
    BY <1>6 DEF PutOn, TInv, MonitorTypeOK
  <2> QED BY <2>1 DEF SInv
<1>7. ASSUME pc[c] \notin OnTheWay, UNCHANGED monitor, NEW label, Goto(c, label)
      PROVE  SInv'
  BY <1>7, <1>a DEF monitor, SInv, Stopped
<1>8. ASSUME NEW kind \in Kinds, Refreshed(c, kind) PROVE SInv'
  BY <1>7, <1>8 DEF Refreshed, Kinds, OnTheWay
<1>9. ASSUME NEW j \in Jobs[c], Request(c, j) PROVE SInv'
  BY <1>7, <1>9 DEF Request, OnTheWay
<1> QED BY <1>1, <1>2, <1>3, <1>4, <1>5, <1>6, <1>8, <1>9 DEF Call, Refresh

LEMMA NextSilenced == TInv /\ SInv /\ [MonitorNext]_monitorVars => SInv'
<1> SUFFICES ASSUME TInv, SInv, [MonitorNext]_monitorVars PROVE SInv' OBVIOUS
<1>1. CASE UNCHANGED monitorVars
  BY <1>1 DEF monitorVars, monitor, SInv, Stopped
<1>2. ASSUME NEW t \in Threads, Turn(t) \/ Load(t) PROVE SInv'
  <2>1. UNCHANGED <<pc, clients, evt, isSet>>
    BY <1>2 DEF Turn, Load, Wake, Skip, Past, EndIteration, monitor
  <2> QED BY <2>1 DEF SInv, Stopped
<1> QED BY <1>1, <1>2, CallSilenced DEF MonitorNext

(* When the last client has left, the event that the threads look at is    *)
(* set, for any callers that start and stop the monitor at the same time:  *)
(* of two that leave, the one that comes to the list last sets it, and a   *)
(* start between them will be on the list.                                 *)
THEOREM SilencedAlways == MonitorSpec => []Silenced
<1>1. SInv => Silenced
  BY DEF SInv, Silenced, Quiet, OnTheWay
<1> QED BY <1>1, InitTyped, NextTyped, InitSilenced, NextSilenced, PTL DEF MonitorSpec

----------------------------------------------------------------------------
(* The monitor while calls do not overlap                                  *)

\* The thread of the last event runs, and the event is not set.
Live == evt \in Threads /\ evt \notin isSet /\ Running(evt)

(* One caller is at work at a time.  The monitor is live while there is a  *)
(* client and from the launch on; nobody else changes the list between a   *)
(* caller's look at it and its next step.                                  *)
WInv ==
    /\ \A c, d \in Callers : pc[c] # "idle" /\ pc[d] # "idle" => c = d
    /\ clients \in {0, 1}
    /\ clients = 1 => Live
    /\ \A c \in Callers : pc[c] \in {"enlist", "append"} => Live
    /\ \A c \in Callers : pc[c] \in {"alone", "launch", "append"} => clients = 0

LEMMA InitWatched == MonitorInit => WInv
BY DEF MonitorInit, WInv

\* No step of a thread ends that of an event that is not set.
LEMMA ThreadWatched ==
    ASSUME TInv, WInv, NEW t \in Threads, Turn(t) \/ Load(t)
    PROVE  WInv'
<1>1. UNCHANGED <<pc, clients, evt, isSet>>
  BY DEF Turn, Load, Wake, Skip, Past, EndIteration, monitor
<1>2. Live => Running(evt)'
  <2> SUFFICES ASSUME Live PROVE at'[evt] \notin {"none", "over"}
    BY <1>1 DEF Running
  <2>1. at \in [Threads -> {"none", "sleep", "end", "over"} \cup Kinds] /\ ~Stopped
    BY DEF TInv, MonitorTypeOK, Live, Stopped
  <2>2. CASE Wake(t)
    BY <2>1, <2>2 DEF Wake, Step, Live, Running
  <2>3. ASSUME NEW kind \in Kinds, Past(t, kind) PROVE at'[evt] \notin {"none", "over"}
    BY <2>1, <2>3 DEF Past, Step, Live, Running, Kinds
  <2>4. CASE EndIteration(t)
    BY <2>1, <2>4 DEF EndIteration, Step, Live, Running
  <2> QED BY <2>2, <2>3, <2>4 DEF Turn, Load, Skip
<1>3. Live => Live'
  BY <1>1, <1>2 DEF Live
<1> QED BY <1>1, <1>3 DEF WInv

LEMMA CallWatched ==
    ASSUME TInv, WInv, NEW c \in Callers, ~overlap',
           Call(c) \/ Refresh(c) \/ \E j \in Jobs[c] : Request(c, j)
    PROVE  WInv'
<1>d. \A d \in Callers \ {c} : pc[d] = "idle"
  BY DEF WInv, Call, Refresh, Request, TakeOff, Alone, Look, Launch, Enlist, PutOn, Refreshed, Kinds
<1>e. \A d \in Callers \ {c} : pc'[d] = pc[d]
  BY DEF Call, Refresh, Request, TakeOff, Alone, Look, Launch, Enlist, PutOn, Refreshed,
         AfterStart, Goto, TInv, MonitorTypeOK
<1>a. \A d \in Callers \ {c} : pc'[d] = "idle"
  BY <1>d, <1>e
<1>b. \A label : Goto(c, label) => pc'[c] = label
  BY DEF Goto, TInv, MonitorTypeOK
<1>c. UNCHANGED <<evt, isSet, at>> => (Live => Live')
  BY DEF Live, Running
<1>1. ASSUME NEW j \in Jobs[c], Request(c, j) PROVE WInv'
  BY <1>1, <1>a, <1>b, <1>c DEF Request, monitor, WInv
<1>2. CASE TakeOff(c)
  BY <1>2, <1>a, <1>b, <1>c DEF TakeOff, WInv
<1>3. CASE Alone(c)
  BY <1>3, <1>a, <1>b DEF Alone, WInv
<1>4. CASE Look(c)
  <2>1. CASE clients = 0
    BY <1>4, <2>1, <1>a, <1>b DEF Look, WInv
  <2>2. CASE clients # 0
    BY <1>4, <2>2, <1>a, <1>b, <1>c DEF Look, WInv
  <2> QED BY <2>1, <2>2
<1>5. CASE Launch(c)
  <2>1. evt < calls /\ evt \in Nat /\ calls <= MaxCalls /\ calls \in Nat /\ MaxCalls \in Nat
    BY <1>5, RoomForOne, MonitorAssumption DEF Launch, Before, TInv, MonitorTypeOK
  <2>2. evt' = evt + 1 /\ evt' \in Threads /\ isSet' = isSet /\ isSet \subseteq 1..evt
    BY <1>5, <2>1 DEF Launch, Threads, TInv, MonitorTypeOK
  <2>3. at'[evt'] = "sleep"
    BY <1>5, <2>2 DEF Launch, TInv, MonitorTypeOK
  <2>4. Live'
    BY <2>1, <2>2, <2>3 DEF Live, Running
  <2> QED BY <1>5, <2>4, <1>a, <1>b DEF Launch, WInv
<1>6. CASE Enlist(c)
  BY <1>6, <1>a, <1>b, <1>c DEF Enlist, AfterStart, monitor, WInv
<1>7. CASE PutOn(c)
  BY <1>7, <1>a, <1>b, <1>c DEF PutOn, AfterStart, WInv
<1>8. ASSUME NEW kind \in Kinds, Refreshed(c, kind) PROVE WInv'
  BY <1>8, <1>a, <1>b, <1>c DEF Refreshed, Kinds, monitor, WInv
<1> QED BY <1>1, <1>2, <1>3, <1>4, <1>5, <1>6, <1>7, <1>8 DEF Call, Refresh

LEMMA NextWatched ==
    ASSUME TInv, ~overlap => WInv, [MonitorNext]_monitorVars
    PROVE  (~overlap => WInv)'
<1>1. CASE UNCHANGED monitorVars
  BY <1>1 DEF monitorVars, monitor, WInv, Live, Running
<1>2. ASSUME NEW t \in Threads, Turn(t) \/ Load(t) PROVE (~overlap => WInv)'
  <2>1. overlap' = overlap
    BY <1>2 DEF Turn, Load, Wake, Skip, Past, EndIteration
  <2> QED BY <1>2, <2>1, ThreadWatched
<1>3. ASSUME NEW c \in Callers,
             Call(c) \/ Refresh(c) \/ \E j \in Jobs[c] : Request(c, j)
      PROVE  (~overlap => WInv)'
  <2>1. overlap => overlap'
    BY <1>3 DEF Call, Refresh, Request, TakeOff, Alone, Look, Launch, Enlist, PutOn, Refreshed
  <2> QED BY <1>3, <2>1, CallWatched
<1> QED BY <1>1, <1>2, <1>3 DEF MonitorNext

(* As long as calls do not overlap, start leaves a monitor that runs, and  *)
(* one that is there when start finds a client: for any callers and number *)
(* of calls, and however long the threads of earlier starts take to end.   *)
THEOREM WatchedInTurn == MonitorSpec => []Watched
<1>1. MonitorInit => (~overlap => WInv)
  BY InitWatched
<1>2. TInv /\ (~overlap => WInv) /\ [MonitorNext]_monitorVars => TInv' /\ (~overlap => WInv)'
  BY NextTyped, NextWatched
<1>3. (~overlap => WInv) => Watched
  BY DEF WInv, Live, Watched, Stopped
<1> QED BY <1>1, <1>2, <1>3, InitTyped, PTL DEF MonitorSpec
====
