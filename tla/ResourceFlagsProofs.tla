---- MODULE ResourceFlagsProofs ----
(***************************************************************************)
(* Proof that a flag stays set while a script holds it, for any number of  *)
(* systems, flags and runs and any scripts in which each system acquires   *)
(* and releases flags of its own, whatever dies and whatever is canceled,  *)
(* as long as fewer pings in a row get lost than the timeout allows.       *)
(*                                                                         *)
(* What makes it inductive is that the time a held flag was not pinged is  *)
(* at most the number of pings its holder lost in a row, that no timer     *)
(* counts for it, and that a script holds, pings and remembers only flags  *)
(* of its own system.                                                      *)
(***************************************************************************)
EXTENDS ResourceFlags, TLAPS

(* The flags that the scripts of s acquire or release                      *)
Own(s) == {f \in Flags :
    \E p \in {Extraction[s], Post[s]} : \E n \in 1..Len(p) :
        \E name \in {"acquire", "claim", "release"} : p[n] = <<name, f>>}

(* No script sets such a flag for a time, no two systems have one in       *)
(* common, and the monitor is more patient than the network is bad.        *)
SeparateFlags ==
    /\ MaxLost <= Timeout
    /\ \A s, t \in Systems : s # t => Own(s) \cap Own(t) = {}
    /\ \A s, t \in Systems : \A f \in Own(s) :
         \A p \in {Extraction[t], Post[t]} : \A n \in 1..Len(p) : p[n] # <<"pump", f>>

Typed ==
    /\ isSet \in [Flags -> BOOLEAN] /\ quiet \in [Flags -> Nat]
    /\ DOMAIN timers = Flags
    /\ DOMAIN script = Systems
    /\ lost \in [Systems -> 0..MaxLost]
    /\ resource \in [Systems -> SUBSET Flags] /\ pinging \in [Systems -> SUBSET Flags]
    /\ holds \in [Systems -> SUBSET Flags]

(* A held flag is set, pinged by its holder, and no longer unpinged than   *)
(* its holder has lost pings.                                              *)
Held ==
    \A s \in Systems : \A f \in holds[s] :
        isSet[f] = TRUE /\ f \in pinging[s] /\ quiet[f] <= lost[s]

Owned ==
    \A s \in Systems :
        /\ holds[s] \subseteq Own(s) /\ resource[s] \subseteq Own(s)
        /\ \A f \in Own(s) : timers[f] = {}

IInv == Typed /\ Held /\ Owned

(* The place of a script in its program                                    *)
Places == pc \in [Systems -> Nat \ {0}]

LEMMA InitPlaces == Init => Places
  BY DEF Init, Places

LEMMA NextPlaces == Places /\ [Next]_vars => Places'
<1> SUFFICES ASSUME Places, [Next]_vars PROVE Places'
  OBVIOUS
<1>1. ASSUME NEW s \in Systems, Script(s) PROVE Places'
  <2>1. CASE EndScript(s)
    BY <2>1 DEF EndScript, Places
  <2>2. ASSUME NEW f \in Flags,
               WaitOver(s, f) \/ Acquire(s, f) \/ Claim(s, f) \/ Release(s, f) \/ SetPump(s, f)
        PROVE  Places'
    <3>1. Advance(s)
      BY <2>2 DEF WaitOver, Acquire, Claim, TakeFlag, Release, SetPump
    <3> QED BY <3>1 DEF Advance, Places
  <2>3. ASSUME NEW f \in Flags, KeepWaiting(s, f) \/ AskFlag(s, f)
        PROVE  Places'
    BY <2>3 DEF KeepWaiting, AskFlag, Places
  <2>4. ASSUME NEW f \in Flags, Unless(s, f)
        PROVE  Places'
    <3>1. Len(Program(s)) \in Nat
      BY FlagsAssumption DEF Program
    <3>2. \/ pc' = [pc EXCEPT ![s] = @ + 1]
          \/ pc' = [pc EXCEPT ![s] = Len(Program(s)) + 1]
      BY <2>4 DEF Unless, Advance
    <3> QED BY <3>1, <3>2 DEF Places
  <2> QED BY <1>1, <2>1, <2>2, <2>3, <2>4 DEF Script
<1>2. ASSUME NEW s \in Systems, StartRun(s) \/ Cancel(s) \/ Die(s) PROVE Places'
  BY <1>2 DEF StartRun, Cancel, Die, Places
<1>3. ASSUME NEW f \in Flags, MonitorFires(f) \/ TimerFires(f) PROVE Places'
  BY <1>3 DEF MonitorFires, TimerFires, Places
<1>4. CASE Tick \/ UNCHANGED vars
  BY <1>4 DEF Tick, vars, Places
<1> QED BY <1>1, <1>2, <1>3, <1>4 DEF Next

(* A command at which a script stands is one of its system's scripts.      *)
LEMMA AtCommand ==
    ASSUME Places, NEW s \in Systems, NEW f \in Flags, NEW name, At(s, name, f)
    PROVE  /\ name \in {"acquire", "claim", "release"} => f \in Own(s)
           /\ name = "pump" /\ SeparateFlags => \A t \in Systems : f \notin Own(t)
<1>1. Program(s) \in {Extraction[s], Post[s]}
  BY DEF Program
<1>2. Program(s)[pc[s]] = <<name, f>> /\ pc[s] \in 1..Len(Program(s))
  <2>1. Len(Program(s)) \in Nat
    BY FlagsAssumption DEF Program
  <2> QED BY <2>1 DEF At, Places
<1> QED BY <1>1, <1>2 DEF Own, SeparateFlags

LEMMA InitInv == Init => IInv
<1> SUFFICES ASSUME Init PROVE IInv
  OBVIOUS
<1>1. Typed
  BY FlagsAssumption DEF Init, Typed
<1>2. Held
  BY DEF Init, Held
<1>3. Owned
  BY DEF Init, Owned, Own
<1> QED BY <1>1, <1>2, <1>3 DEF IInv

(* The ways the flags are set and cleared                                  *)
LEMMA SetKeeps ==
    ASSUME IInv, NEW f \in Flags, SetFlag(f)
    PROVE  /\ isSet' \in [Flags -> BOOLEAN] /\ quiet' \in [Flags -> Nat]
           /\ isSet'[f] = TRUE /\ quiet'[f] = 0
           /\ \A g \in Flags : isSet[g] = TRUE => isSet'[g] = TRUE /\ quiet'[g] <= quiet[g]
  BY DEF IInv, Typed, SetFlag

LEMMA ClearKeeps ==
    ASSUME IInv, NEW f \in Flags, ClearFlag(f)
    PROVE  /\ isSet' \in [Flags -> BOOLEAN] /\ quiet' = quiet
           /\ \A g \in Flags \ {f} : isSet'[g] = isSet[g]
  BY DEF IInv, Typed, ClearFlag

(* A script takes a flag of its own, ...                                   *)
LEMMA TakeKeeps ==
    ASSUME SeparateFlags, IInv, NEW s \in Systems, NEW f \in Own(s), TakeFlag(s, f)
    PROVE  IInv'
<1>f. f \in Flags
  BY DEF Own
<1>1. /\ isSet' \in [Flags -> BOOLEAN] /\ quiet' \in [Flags -> Nat]
      /\ isSet'[f] = TRUE /\ quiet'[f] = 0
      /\ \A g \in Flags : isSet[g] = TRUE => isSet'[g] = TRUE /\ quiet'[g] <= quiet[g]
  BY <1>f, SetKeeps DEF TakeFlag
<1>2. Typed'
  BY <1>1, <1>f DEF TakeFlag, IInv, Typed, bounds
<1>3. Owned'
  <2>1. UNCHANGED timers /\ \A t \in Systems : \A g \in Own(t) : timers[g] = {}
    BY DEF TakeFlag, IInv, Owned
  <2>2. \A t \in Systems : holds'[t] \subseteq Own(t) /\ resource'[t] \subseteq Own(t)
    BY DEF TakeFlag, IInv, Typed, Owned
  <2> QED BY <2>1, <2>2 DEF Owned, Own
<1>4. Held'
  <2> SUFFICES ASSUME NEW t \in Systems, NEW g \in holds'[t]
               PROVE  isSet'[g] = TRUE /\ g \in pinging'[t] /\ quiet'[g] <= lost'[t]
    BY DEF Held
  <2>1. lost' = lost /\ lost[t] \in Nat
    BY FlagsAssumption DEF TakeFlag, bounds, IInv, Typed
  <2>2. CASE g \in holds[t]
    <3>1. isSet[g] = TRUE /\ g \in pinging[t] /\ quiet[g] <= lost[t] /\ g \in Flags
      BY <2>2 DEF IInv, Held, Typed
    <3>2. g \in pinging'[t]
      BY <3>1 DEF TakeFlag, IInv, Typed
    <3> QED BY <3>1, <3>2, <1>1, <2>1 DEF IInv, Typed
  <2>3. CASE g \notin holds[t]
    <3>1. t = s /\ g = f
      BY <2>3 DEF TakeFlag, IInv, Typed
    <3> QED BY <3>1, <1>1, <2>1 DEF TakeFlag, IInv, Typed
  <2> QED BY <2>2, <2>3
<1> QED BY <1>2, <1>3, <1>4 DEF IInv

(* ... and gives one of its own away, ...                                  *)
LEMMA DropKeeps ==
    ASSUME SeparateFlags, IInv, NEW s \in Systems, NEW f \in Own(s), DropFlag(s, f),
           UNCHANGED <<timers, resource, bounds>>, DOMAIN script' = Systems
    PROVE  IInv'
<1>f. f \in Flags
  BY DEF Own
<1>1. /\ isSet' \in [Flags -> BOOLEAN] /\ quiet' = quiet
      /\ \A g \in Flags \ {f} : isSet'[g] = isSet[g]
  BY <1>f, ClearKeeps DEF DropFlag
<1>2. Typed'
  BY <1>1, <1>f DEF DropFlag, IInv, Typed, bounds
<1>3. Owned'
  BY DEF DropFlag, IInv, Typed, Owned, Own
<1>4. Held'
  <2> SUFFICES ASSUME NEW t \in Systems, NEW g \in holds'[t]
               PROVE  isSet'[g] = TRUE /\ g \in pinging'[t] /\ quiet'[g] <= lost'[t]
    BY DEF Held
  <2>1. g \in holds[t] /\ ~(t = s /\ g = f)
    BY DEF DropFlag, IInv, Typed
  <2>2. g # f
    BY <2>1 DEF IInv, Owned, SeparateFlags
  <2>3. isSet[g] = TRUE /\ g \in pinging[t] /\ quiet[g] <= lost[t] /\ g \in Flags
    BY <2>1 DEF IInv, Held, Typed
  <2>4. g \in pinging'[t]
    BY <2>2, <2>3 DEF DropFlag, IInv, Typed
  <2> QED BY <1>1, <2>2, <2>3, <2>4 DEF bounds
<1> QED BY <1>2, <1>3, <1>4 DEF IInv

(* A step that leaves the flags, the pings and what is held.               *)
LEMMA QuietKeeps ==
    ASSUME IInv, UNCHANGED <<isSet, quiet, timers, resource, pinging, holds, lost>>,
           DOMAIN script' = Systems
    PROVE  IInv'
  BY DEF IInv, Typed, Held, Owned

LEMMA ScriptKeeps ==
    ASSUME SeparateFlags, Places, IInv, NEW s \in Systems, Script(s)
    PROVE  IInv'
<1>d. DOMAIN script = Systems
  BY DEF IInv, Typed
<1>1. CASE EndScript(s)
  <2>1. /\ UNCHANGED <<isSet, quiet, timers, pinging, holds, lost>> /\ DOMAIN script' = Systems
        /\ resource' = resource \/ resource' = [resource EXCEPT ![s] = {}]
    BY <1>1, <1>d DEF EndScript, RunOver, server, bounds
  <2> QED BY <2>1 DEF IInv, Typed, Held, Owned
<1>2. ASSUME NEW f \in Flags, KeepWaiting(s, f) \/ WaitOver(s, f) \/ AskFlag(s, f) \/ Unless(s, f)
      PROVE  IInv'
  BY <1>2, <1>d, QuietKeeps
     DEF KeepWaiting, WaitOver, AskFlag, Unless, Others, server, bounds
<1>3. ASSUME NEW f \in Flags, Acquire(s, f) \/ Claim(s, f)
      PROVE  IInv'
  <2>1. f \in Own(s) /\ TakeFlag(s, f)
    BY <1>3, AtCommand DEF Acquire, Claim
  <2> QED BY <2>1, TakeKeeps
<1>4. ASSUME NEW f \in Flags, Release(s, f)
      PROVE  IInv'
  <2>1. f \in Own(s) /\ DropFlag(s, f)
    BY <1>4, AtCommand DEF Release
  <2> QED BY <1>4, <1>d, <2>1, DropKeeps DEF Release
<1>5. ASSUME NEW f \in Flags, SetPump(s, f)
      PROVE  IInv'
  <2>1. \A t \in Systems : f \notin Own(t)
    BY <1>5, AtCommand DEF SetPump
  <2>2. /\ SetFlag(f) /\ timers' = [timers EXCEPT ![f] = @ \cup {Duration}]
        /\ UNCHANGED <<script, resource, pinging, holds, lost>>
    BY <1>5 DEF SetPump, SetTimed, Others, bounds
  <2>3. /\ isSet' \in [Flags -> BOOLEAN] /\ quiet' \in [Flags -> Nat]
        /\ \A g \in Flags : isSet[g] = TRUE => isSet'[g] = TRUE /\ quiet'[g] <= quiet[g]
    BY <2>2, SetKeeps
  <2>4. Typed'
    BY <2>2, <2>3 DEF IInv, Typed
  <2>5. Owned'
    <3>1. \A t \in Systems : \A g \in Own(t) : timers'[g] = {}
      <4> SUFFICES ASSUME NEW t \in Systems, NEW g \in Own(t) PROVE timers'[g] = {}
        OBVIOUS
      <4>1. g # f /\ timers[g] = {}
        BY <2>1 DEF IInv, Owned
      <4> QED BY <4>1, <2>2
    <3>2. \A t \in Systems : holds'[t] \subseteq Own(t) /\ resource'[t] \subseteq Own(t)
      BY <2>2 DEF IInv, Owned
    <3> QED BY <3>1, <3>2 DEF Owned, Own
  <2>6. Held'
    <3> SUFFICES ASSUME NEW t \in Systems, NEW g \in holds[t]
                 PROVE  isSet'[g] = TRUE /\ g \in pinging[t] /\ quiet'[g] <= lost[t]
      BY <2>2 DEF Held
    <3>1. isSet[g] = TRUE /\ g \in pinging[t] /\ quiet[g] <= lost[t] /\ g \in Flags
      BY DEF IInv, Held, Typed
    <3>2. quiet[g] \in Nat /\ quiet'[g] \in Nat /\ lost[t] \in Nat
      BY <2>3, <3>1, FlagsAssumption DEF IInv, Typed
    <3> QED BY <2>3, <3>1, <3>2
  <2> QED BY <2>4, <2>5, <2>6 DEF IInv
<1> QED BY <1>1, <1>2, <1>3, <1>4, <1>5 DEF Script

LEMMA CancelKeeps ==
    ASSUME SeparateFlags, IInv, NEW s \in Systems, Cancel(s)
    PROVE  IInv'
<1>1. CASE resource[s] = {} /\ UNCHANGED <<isSet, quiet, monitor, orphan, pinging, holds>>
  BY <1>1, QuietKeeps DEF Cancel, bounds, IInv, Typed
<1>2. CASE \E f \in resource[s] : DropFlag(s, f)
  <2>1. PICK f \in Own(s) : DropFlag(s, f)
    BY <1>2 DEF IInv, Owned
  <2>2. UNCHANGED <<timers, resource, bounds>> /\ script' = script
    BY DEF Cancel
  <2> QED BY <2>1, <2>2, DropKeeps DEF IInv, Typed
<1> QED BY <1>1, <1>2 DEF Cancel

LEMMA DieKeeps ==
    ASSUME IInv, NEW s \in Systems, Die(s)
    PROVE  IInv'
<1>1. /\ UNCHANGED <<isSet, quiet, timers, lost>> /\ DOMAIN script' = Systems
      /\ pinging' = [pinging EXCEPT ![s] = {}] /\ holds' = [holds EXCEPT ![s] = {}]
      /\ resource' = [resource EXCEPT ![s] = {}]
  BY DEF Die, RunOver, server, IInv, Typed
<1> QED BY <1>1 DEF IInv, Typed, Held, Owned

(* The monitor and the timers leave held flags alone.                      *)
LEMMA ServerKeeps ==
    ASSUME SeparateFlags, IInv, NEW f \in Flags, MonitorFires(f) \/ TimerFires(f)
    PROVE  IInv'
<1>1. \A s \in Systems : f \notin holds[s]
  <2>1. ASSUME NEW s \in Systems, f \in holds[s] PROVE FALSE
    <3>1. quiet[f] <= lost[s] /\ timers[f] = {} /\ f \in Own(s)
      BY <2>1 DEF IInv, Held, Owned
    <3>2. quiet[f] \in Nat /\ lost[s] \in 0..MaxLost
      BY DEF IInv, Typed
    <3>3. ~(quiet[f] > Timeout)
      BY <3>1, <3>2, FlagsAssumption DEF SeparateFlags
    <3> QED BY <3>1, <3>3 DEF MonitorFires, TimerFires
  <2> QED BY <2>1
<1>2. /\ isSet' = [isSet EXCEPT ![f] = FALSE] /\ quiet' = quiet
      /\ timers' = timers \/ timers' = [timers EXCEPT ![f] = @ \ {0}]
      /\ UNCHANGED <<script, resource, pinging, holds, lost>>
  BY DEF MonitorFires, TimerFires, ClearFlag, bounds
<1>3. Typed'
  BY <1>2 DEF IInv, Typed
<1>4. Held'
  BY <1>1, <1>2 DEF IInv, Typed, Held
<1>5. Owned'
  <2>1. \A g \in Flags : timers[g] = {} => timers'[g] = {}
    BY <1>2 DEF IInv, Typed
  <2> QED BY <1>2, <2>1 DEF IInv, Owned, Own
<1> QED BY <1>3, <1>4, <1>5 DEF IInv

(* In a tick a flag that is not pinged is one whose holder lost a ping.    *)
LEMMA TickKeeps ==
    ASSUME IInv, Tick
    PROVE  IInv'
<1>1. PICK L \in SUBSET Systems :
         /\ \A s \in L : lost[s] < MaxLost /\ pinging[s] # {}
         /\ lost' = [s \in Systems |-> IF s \in L THEN lost[s] + 1 ELSE 0]
         /\ quiet' = [f \in Flags |->
               IF \E s \in Systems \ L : f \in pinging[s] THEN 0
               ELSE IF ~(monitor[f] \/ orphan[f]) THEN 0
               ELSE IF quiet[f] > Timeout THEN quiet[f] ELSE quiet[f] + 1]
  BY DEF Tick
<1>2. /\ UNCHANGED <<isSet, script, resource, pinging, holds>>
      /\ timers' = [f \in Flags |-> {t - 1 : t \in timers[f]}]
  BY DEF Tick
<1>3. lost' \in [Systems -> 0..MaxLost] /\ quiet' \in [Flags -> Nat]
  BY <1>1, FlagsAssumption DEF IInv, Typed
<1>4. Typed'
  BY <1>2, <1>3 DEF IInv, Typed
<1>5. Owned'
  BY <1>2 DEF IInv, Owned, Own
<1>6. Held'
  <2> SUFFICES ASSUME NEW s \in Systems, NEW f \in holds[s]
               PROVE  isSet[f] = TRUE /\ f \in pinging[s] /\ quiet'[f] <= lost'[s]
    BY <1>2 DEF Held
  <2>1. /\ isSet[f] = TRUE /\ f \in pinging[s] /\ quiet[f] <= lost[s] /\ f \in Flags
        /\ quiet[f] \in Nat /\ lost[s] \in Nat
    BY FlagsAssumption DEF IInv, Held, Typed
  <2>2. CASE s \notin L
    BY <1>1, <2>1, <2>2
  <2>3. CASE s \in L
    BY <1>1, <2>1, <2>3
  <2> QED BY <2>1, <2>2, <2>3
<1> QED BY <1>4, <1>5, <1>6 DEF IInv

LEMMA NextInv == SeparateFlags /\ Places /\ IInv /\ [Next]_vars => IInv'
<1> SUFFICES ASSUME SeparateFlags, Places, IInv, [Next]_vars PROVE IInv'
  OBVIOUS
<1>1. ASSUME NEW s \in Systems, StartRun(s) PROVE IInv'
  BY <1>1, QuietKeeps DEF StartRun, server, IInv, Typed
<1>2. CASE UNCHANGED vars
  BY <1>2 DEF vars, bounds, IInv, Typed, Held, Owned
<1> QED BY <1>1, <1>2, ScriptKeeps, CancelKeeps, DieKeeps, ServerKeeps, TickKeeps DEF Next

(* Where each system acquires and releases flags of its own and fewer      *)
(* pings get lost than the timeout allows, a flag stays set while a script *)
(* holds it, for any scripts, systems, cancels, deaths and timers.         *)
THEOREM FlagsKept == SeparateFlags => (Spec => []KeptWhileHeld)
<1> SUFFICES ASSUME SeparateFlags PROVE Spec => []KeptWhileHeld
  OBVIOUS
<1>1. IInv => KeptWhileHeld
  BY DEF IInv, Held, KeptWhileHeld
<1>2. Places /\ IInv /\ [Next]_vars => IInv'
  BY NextInv
<1> QED BY <1>1, <1>2, InitInv, InitPlaces, NextPlaces, PTL DEF Spec

----------------------------------------------------------------------------
(* The types: what is set for a time clears itself, wherever the scripts   *)
(* do so to timed flags only.                                              *)
PumpsTimed ==
    \A s \in Systems : \A p \in {Extraction[s], Post[s]} : \A n \in 1..Len(p) :
        \A f \in Flags \ TimedFlags : p[n] # <<"pump", f>>

FlagsTyped ==
    /\ isSet \in [Flags -> BOOLEAN] /\ quiet \in [Flags -> 0..(Timeout + 1)]
    /\ monitor \in [Flags -> BOOLEAN] /\ orphan \in [Flags -> BOOLEAN]
    /\ timers \in [Flags -> SUBSET (0..Duration)]
    /\ \A f \in Flags \ TimedFlags : timers[f] = {}

(* A system without a script will start one at its first command.          *)
ScriptsTyped ==
    /\ script \in [Systems -> {"none", "extraction", "post"}]
    /\ \A s \in Systems : IF script[s] = "none" THEN pc[s] = 1
                          ELSE pc[s] \in 1..(Len(Program(s)) + 1)
    /\ looping \in [Systems -> BOOLEAN] /\ canceled \in [Systems -> BOOLEAN]

HoldsTyped ==
    /\ resource \in [Systems -> SUBSET Flags] /\ pinging \in [Systems -> SUBSET Flags]
    /\ holds \in [Systems -> SUBSET Flags]
    /\ \A s \in Systems : holds[s] \subseteq pinging[s]

BoundsTyped == lost \in [Systems -> 0..MaxLost] /\ runs \in 0..MaxRuns /\ deaths \in 0..MaxDeaths

LeftTyped == left \subseteq Flags

TInv == Places /\ FlagsTyped /\ ScriptsTyped /\ HoldsTyped /\ BoundsTyped /\ LeftTyped

LEMMA ProgramLength == \A s \in Systems : Len(Program(s)) \in Nat
  BY FlagsAssumption DEF Program

LEMMA InitTyped == Init => TInv
<1> SUFFICES ASSUME Init PROVE TInv
  OBVIOUS
<1>1. FlagsTyped
  BY FlagsAssumption DEF Init, FlagsTyped
<1>2. ScriptsTyped
  BY DEF Init, ScriptsTyped
<1>3. HoldsTyped
  BY DEF Init, HoldsTyped
<1>4. BoundsTyped
  BY FlagsAssumption DEF Init, BoundsTyped
<1>5. LeftTyped
  BY DEF Init, LeftTyped
<1> QED BY <1>1, <1>2, <1>3, <1>4, <1>5, InitPlaces DEF TInv

(* The flags, set, set for a time, cleared by a script or by the server    *)
LEMMA NextFlagsTyped == PumpsTimed /\ TInv /\ [Next]_vars => FlagsTyped'
<1> SUFFICES ASSUME PumpsTimed, TInv, [Next]_vars PROVE FlagsTyped'
  OBVIOUS
<1>0. FlagsTyped /\ Timeout \in Nat /\ Duration \in Nat
  BY FlagsAssumption DEF TInv
<1>a. ASSUME NEW f \in Flags, SetFlag(f), UNCHANGED timers PROVE FlagsTyped'
  BY <1>0, <1>a DEF SetFlag, FlagsTyped
<1>b. ASSUME NEW f \in Flags, ClearFlag(f), UNCHANGED timers PROVE FlagsTyped'
  BY <1>0, <1>b DEF ClearFlag, FlagsTyped
<1>c. ASSUME UNCHANGED server PROVE FlagsTyped'
  BY <1>0, <1>c DEF server, FlagsTyped
<1>1. ASSUME NEW s \in Systems, Script(s) PROVE FlagsTyped'
  <2>1. CASE EndScript(s)
    BY <2>1, <1>c DEF EndScript
  <2>2. ASSUME NEW f \in Flags, KeepWaiting(s, f) \/ WaitOver(s, f) \/ AskFlag(s, f) \/ Unless(s, f)
        PROVE  FlagsTyped'
    BY <2>2, <1>c DEF KeepWaiting, WaitOver, AskFlag, Unless
  <2>3. ASSUME NEW f \in Flags, Acquire(s, f) \/ Claim(s, f) PROVE FlagsTyped'
    BY <2>3, <1>a DEF Acquire, Claim, TakeFlag
  <2>4. ASSUME NEW f \in Flags, Release(s, f) PROVE FlagsTyped'
    BY <2>4, <1>b DEF Release, DropFlag
  <2>5. ASSUME NEW f \in Flags, SetPump(s, f) PROVE FlagsTyped'
    <3>1. f \in TimedFlags
      <4>1. Program(s) \in {Extraction[s], Post[s]} /\ Len(Program(s)) \in Nat
        BY ProgramLength DEF Program
      <4>2. Program(s)[pc[s]] = <<"pump", f>> /\ pc[s] \in 1..Len(Program(s))
        BY <2>5, <4>1 DEF SetPump, At, TInv, Places
      <4> QED BY <4>1, <4>2 DEF PumpsTimed
    <3>2. SetFlag(f) /\ timers' = [timers EXCEPT ![f] = @ \cup {Duration}]
      BY <2>5 DEF SetPump, SetTimed
    <3> QED BY <1>0, <3>1, <3>2 DEF SetFlag, FlagsTyped
  <2> QED BY <1>1, <2>1, <2>2, <2>3, <2>4, <2>5 DEF Script
<1>2. ASSUME NEW s \in Systems, StartRun(s) \/ Die(s) PROVE FlagsTyped'
  BY <1>2, <1>c DEF StartRun, Die
<1>3. ASSUME NEW s \in Systems, Cancel(s) PROVE FlagsTyped'
  <2>1. CASE UNCHANGED <<isSet, quiet, monitor, orphan>>
    BY <1>3, <1>c, <2>1 DEF Cancel, server
  <2>2. CASE \E f \in resource[s] : DropFlag(s, f)
    BY <1>3, <1>b, <2>2 DEF Cancel, DropFlag, TInv, HoldsTyped
  <2> QED BY <1>3, <2>1, <2>2 DEF Cancel
<1>4. ASSUME NEW f \in Flags, MonitorFires(f) PROVE FlagsTyped'
  BY <1>0, <1>4 DEF MonitorFires, FlagsTyped
<1>5. ASSUME NEW f \in Flags, TimerFires(f) PROVE FlagsTyped'
  BY <1>0, <1>5 DEF TimerFires, ClearFlag, FlagsTyped
<1>6. CASE Tick
  <2>1. quiet' \in [Flags -> 0..(Timeout + 1)] /\ UNCHANGED <<isSet, monitor, orphan>>
    BY <1>0, <1>6 DEF Tick, FlagsTyped
  <2>2. timers' = [f \in Flags |-> {t - 1 : t \in timers[f]}] /\ \A f \in Flags : 0 \notin timers[f]
    BY <1>6 DEF Tick
  <2>3. \A f \in Flags : {t - 1 : t \in timers[f]} \in SUBSET (0..Duration)
    BY <1>0, <2>2 DEF FlagsTyped
  <2> QED BY <1>0, <2>1, <2>2, <2>3 DEF FlagsTyped
<1>7. CASE UNCHANGED vars
  BY <1>7, <1>c DEF vars, server
<1> QED BY <1>1, <1>2, <1>3, <1>4, <1>5, <1>6, <1>7 DEF Next

(* The place of a script is one of its program, or just past it.           *)
LEMMA NextScriptsTyped == TInv /\ [Next]_vars => ScriptsTyped'
<1> SUFFICES ASSUME TInv, [Next]_vars PROVE ScriptsTyped'
  OBVIOUS
<1>0. ScriptsTyped /\ Places
  BY DEF TInv
<1>1. ASSUME NEW s \in Systems, Script(s) PROVE ScriptsTyped'
  <2>0. \A t \in Systems : Len(Program(t)) \in Nat
    BY ProgramLength
  <2>1. CASE EndScript(s)
    <3>1. pc' = [pc EXCEPT ![s] = 1] /\ UNCHANGED looping
      BY <2>1 DEF EndScript
    <3>2. /\ \/ script' = [script EXCEPT ![s] = "post"]
             \/ script' = [script EXCEPT ![s] = "none"]
          /\ canceled' = canceled \/ canceled' = [canceled EXCEPT ![s] = FALSE]
      BY <2>1 DEF EndScript, RunOver
    <3>3. Len(Post[s]) \in Nat
      BY FlagsAssumption
    <3>4. /\ script' \in [Systems -> {"none", "extraction", "post"}]
          /\ looping' \in [Systems -> BOOLEAN] /\ canceled' \in [Systems -> BOOLEAN]
      BY <1>0, <3>1, <3>2 DEF ScriptsTyped
    <3>5. \A t \in Systems \ {s} : script'[t] = script[t] /\ pc'[t] = pc[t]
      BY <1>0, <3>1, <3>2 DEF ScriptsTyped, Places
    <3>6. pc'[s] = 1 /\ script'[s] \in {"none", "post"}
      BY <1>0, <3>1, <3>2 DEF ScriptsTyped, Places
    <3> QED BY <1>0, <3>3, <3>4, <3>5, <3>6 DEF ScriptsTyped, Program
  <2>2. ASSUME NEW f \in Flags,
               WaitOver(s, f) \/ Acquire(s, f) \/ Claim(s, f) \/ Release(s, f) \/ SetPump(s, f)
        PROVE  ScriptsTyped'
    <3>1. /\ Advance(s) /\ UNCHANGED <<script, canceled>>
          /\ looping' = looping \/ looping' = [looping EXCEPT ![s] = FALSE]
      BY <2>2 DEF WaitOver, Acquire, Claim, TakeFlag, Release, SetPump, Others
    <3>2. script[s] # "none" /\ pc[s] <= Len(Program(s))
      BY <2>2 DEF WaitOver, Acquire, Claim, Release, SetPump, At, InLoop
    <3>3. looping' \in [Systems -> BOOLEAN]
      BY <1>0, <3>1 DEF ScriptsTyped
    <3>4. /\ \A t \in Systems \ {s} : pc'[t] = pc[t]
          /\ pc'[s] = pc[s] + 1 /\ pc[s] \in Nat \ {0}
      BY <1>0, <3>1 DEF Advance, Places
    <3> QED BY <1>0, <2>0, <3>1, <3>2, <3>3, <3>4 DEF ScriptsTyped, Program
  <2>3. ASSUME NEW f \in Flags, KeepWaiting(s, f) PROVE ScriptsTyped'
    BY <1>0, <2>3 DEF KeepWaiting, Others, ScriptsTyped, Program
  <2>4. ASSUME NEW f \in Flags, AskFlag(s, f) PROVE ScriptsTyped'
    <3>1. CASE UNCHANGED looping
      <4>1. Len(Post[s]) \in Nat
        BY FlagsAssumption
      <4>2. /\ UNCHANGED <<looping, canceled>>
            /\ \/ UNCHANGED <<script, pc>>
               \/ script' = [script EXCEPT ![s] = "post"] /\ pc' = [pc EXCEPT ![s] = 1]
        BY <2>4, <3>1 DEF AskFlag
      <4> QED BY <1>0, <4>1, <4>2 DEF ScriptsTyped, Places, Program
    <3>2. CASE UNCHANGED <<script, pc>> /\ looping' = [looping EXCEPT ![s] = TRUE]
      BY <1>0, <2>4, <3>2 DEF AskFlag, ScriptsTyped, Program
    <3> QED BY <2>4, <3>1, <3>2 DEF AskFlag
  <2>5. ASSUME NEW f \in Flags, Unless(s, f) PROVE ScriptsTyped'
    <3>1. /\ script[s] # "none" /\ pc[s] <= Len(Program(s))
          /\ UNCHANGED <<script, canceled, looping>>
          /\ \/ pc' = [pc EXCEPT ![s] = @ + 1]
             \/ pc' = [pc EXCEPT ![s] = Len(Program(s)) + 1]
      BY <2>5 DEF Unless, At, Others, Advance
    <3> QED BY <1>0, <2>0, <3>1 DEF ScriptsTyped, Places, Program
  <2> QED BY <1>1, <2>1, <2>2, <2>3, <2>4, <2>5 DEF Script
<1>2. ASSUME NEW s \in Systems, StartRun(s) PROVE ScriptsTyped'
  <2>1. Len(Extraction[s]) \in Nat
    BY FlagsAssumption
  <2> QED BY <1>0, <1>2, <2>1 DEF StartRun, ScriptsTyped, Program
<1>3. ASSUME NEW s \in Systems, Die(s) PROVE ScriptsTyped'
  BY <1>0, <1>3 DEF Die, RunOver, ScriptsTyped, Places, Program
<1>4. ASSUME NEW s \in Systems, Cancel(s) PROVE ScriptsTyped'
  <2>1. /\ UNCHANGED <<script, pc>> /\ canceled' = [canceled EXCEPT ![s] = TRUE]
        /\ looping' = [looping EXCEPT ![s] = @ /\ \E f \in Flags : InLoop(s, f)]
    BY <1>4 DEF Cancel
  <2>2. looping' \in [Systems -> BOOLEAN]
    BY <1>0, <2>1, Zenon DEF ScriptsTyped
  <2> QED BY <1>0, <2>1, <2>2 DEF ScriptsTyped, Program
<1>5. ASSUME UNCHANGED <<script, pc, looping, canceled>> PROVE ScriptsTyped'
  BY <1>0, <1>5 DEF ScriptsTyped, Program
<1>6. ASSUME NEW f \in Flags, MonitorFires(f) \/ TimerFires(f) PROVE ScriptsTyped'
  BY <1>5, <1>6 DEF MonitorFires, TimerFires
<1>7. CASE Tick \/ UNCHANGED vars
  BY <1>5, <1>7 DEF Tick, vars
<1> QED BY <1>1, <1>2, <1>3, <1>4, <1>6, <1>7 DEF Next

LEMMA NextHoldsTyped == TInv /\ [Next]_vars => HoldsTyped' /\ BoundsTyped'
<1> SUFFICES ASSUME TInv, [Next]_vars PROVE HoldsTyped' /\ BoundsTyped'
  OBVIOUS
<1>0. /\ HoldsTyped /\ BoundsTyped
      /\ MaxLost \in Nat /\ MaxRuns \in Nat /\ MaxDeaths \in Nat
  BY FlagsAssumption DEF TInv
<1>a. ASSUME UNCHANGED bounds PROVE BoundsTyped'
  BY <1>0, <1>a DEF bounds, BoundsTyped
<1>b. ASSUME UNCHANGED <<resource, pinging, holds>> PROVE HoldsTyped'
  BY <1>0, <1>b DEF HoldsTyped
<1>c. ASSUME NEW s \in Systems, NEW f \in Flags, DropFlag(s, f), UNCHANGED resource
      PROVE  HoldsTyped'
  BY <1>0, <1>c DEF DropFlag, HoldsTyped
<1>1. ASSUME NEW s \in Systems, Script(s) PROVE HoldsTyped' /\ BoundsTyped'
  <2>1. CASE EndScript(s)
    <3>1. /\ UNCHANGED <<pinging, holds, bounds>>
          /\ resource' = resource \/ resource' = [resource EXCEPT ![s] = {}]
      BY <2>1 DEF EndScript, RunOver
    <3> QED BY <1>0, <1>a, <3>1 DEF HoldsTyped
  <2>2. ASSUME NEW f \in Flags,
               KeepWaiting(s, f) \/ WaitOver(s, f) \/ AskFlag(s, f) \/ Unless(s, f) \/ SetPump(s, f)
        PROVE  HoldsTyped' /\ BoundsTyped'
    BY <2>2, <1>a, <1>b DEF KeepWaiting, WaitOver, AskFlag, Unless, SetPump, Others
  <2>3. ASSUME NEW f \in Flags, Acquire(s, f) \/ Claim(s, f) PROVE HoldsTyped' /\ BoundsTyped'
    BY <1>0, <1>a, <2>3 DEF Acquire, Claim, TakeFlag, HoldsTyped
  <2>4. ASSUME NEW f \in Flags, Release(s, f) PROVE HoldsTyped' /\ BoundsTyped'
    BY <1>a, <1>c, <2>4 DEF Release
  <2> QED BY <1>1, <2>1, <2>2, <2>3, <2>4 DEF Script
<1>2. ASSUME NEW s \in Systems, StartRun(s) PROVE HoldsTyped' /\ BoundsTyped'
  BY <1>0, <1>b, <1>2 DEF StartRun, BoundsTyped
<1>3. ASSUME NEW s \in Systems, Cancel(s) PROVE HoldsTyped' /\ BoundsTyped'
  <2>1. CASE UNCHANGED <<pinging, holds>>
    BY <1>3, <1>a, <1>b, <2>1 DEF Cancel
  <2>2. CASE \E f \in resource[s] : DropFlag(s, f)
    BY <1>0, <1>3, <1>a, <1>c, <2>2 DEF Cancel, HoldsTyped
  <2> QED BY <1>3, <2>1, <2>2 DEF Cancel
<1>4. ASSUME NEW s \in Systems, Die(s) PROVE HoldsTyped' /\ BoundsTyped'
  BY <1>0, <1>4 DEF Die, RunOver, HoldsTyped, BoundsTyped
<1>5. ASSUME NEW f \in Flags, MonitorFires(f) \/ TimerFires(f) PROVE HoldsTyped' /\ BoundsTyped'
  BY <1>a, <1>b, <1>5 DEF MonitorFires, TimerFires
<1>6. CASE Tick
  <2>1. lost' \in [Systems -> 0..MaxLost]
    BY <1>0, <1>6 DEF Tick, BoundsTyped
  <2> QED BY <1>0, <1>b, <1>6, <2>1 DEF Tick, BoundsTyped
<1>7. CASE UNCHANGED vars
  BY <1>a, <1>b, <1>7 DEF vars, bounds
<1> QED BY <1>1, <1>2, <1>3, <1>4, <1>5, <1>6, <1>7 DEF Next

LEMMA NextLeftTyped == TInv /\ [Next]_vars => LeftTyped'
<1> SUFFICES ASSUME TInv, [Next]_vars PROVE LeftTyped'
  OBVIOUS
<1>0. LeftTyped
  BY DEF TInv
<1>a. ASSUME NEW f \in Flags, ClearFlag(f) PROVE LeftTyped'
  BY <1>0, <1>a DEF ClearFlag, LeftTyped
<1>1. ASSUME NEW s \in Systems, Script(s) PROVE LeftTyped'
  <2>1. ASSUME NEW f \in Flags, Acquire(s, f) \/ Claim(s, f) \/ Unless(s, f) PROVE LeftTyped'
    BY <1>0, <2>1 DEF Acquire, Claim, TakeFlag, Unless, LeftTyped
  <2>2. ASSUME NEW f \in Flags, Release(s, f) PROVE LeftTyped'
    BY <1>a, <2>2 DEF Release, DropFlag
  <2>3. ASSUME NEW f \in Flags, KeepWaiting(s, f) \/ WaitOver(s, f) \/ AskFlag(s, f) \/ SetPump(s, f)
        PROVE  LeftTyped'
    BY <1>0, <2>3 DEF KeepWaiting, WaitOver, AskFlag, SetPump, LeftTyped
  <2>4. CASE EndScript(s)
    BY <1>0, <2>4 DEF EndScript, LeftTyped
  <2> QED BY <1>1, <2>1, <2>2, <2>3, <2>4 DEF Script
<1>2. ASSUME NEW s \in Systems, Cancel(s) PROVE LeftTyped'
  <2>1. CASE left' = left
    BY <1>0, <2>1 DEF LeftTyped
  <2>2. CASE \E f \in resource[s] : DropFlag(s, f)
    BY <1>a, <2>2 DEF DropFlag, TInv, HoldsTyped
  <2> QED BY <1>2, <2>1, <2>2 DEF Cancel
<1>3. ASSUME NEW f \in Flags, MonitorFires(f) \/ TimerFires(f) PROVE LeftTyped'
  BY <1>0, <1>a, <1>3 DEF MonitorFires, TimerFires, LeftTyped
<1>4. ASSUME NEW s \in Systems, StartRun(s) \/ Die(s) PROVE LeftTyped'
  BY <1>0, <1>4 DEF StartRun, Die, LeftTyped
<1>5. CASE Tick \/ UNCHANGED vars
  BY <1>0, <1>5 DEF Tick, vars, LeftTyped
<1> QED BY <1>1, <1>2, <1>3, <1>4, <1>5 DEF Next

(* Every state has its type: no timer outlives its time, no flag is        *)
(* unpinged beyond its timeout without the monitor firing, and a script    *)
(* pings whatever it holds.                                                *)
THEOREM TypeCorrect == PumpsTimed => (Spec => []TypeOK)
<1> SUFFICES ASSUME PumpsTimed PROVE Spec => []TypeOK
  OBVIOUS
<1>1. TInv => TypeOK
  BY DEF TInv, FlagsTyped, ScriptsTyped, HoldsTyped, BoundsTyped, LeftTyped, TypeOK
<1>2. TInv /\ [Next]_vars => TInv'
  BY NextPlaces, NextFlagsTyped, NextScriptsTyped, NextHoldsTyped, NextLeftTyped DEF TInv
<1> QED BY <1>1, <1>2, InitTyped, PTL DEF Spec
====
