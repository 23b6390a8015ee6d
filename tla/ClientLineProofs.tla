---- MODULE ClientLineProofs ----
(***************************************************************************)
(* Proofs for a client's copy of the line, for any switches, owners, words *)
(* and number of changes: the types, that what the copy adds leaves the    *)
(* status monitor as it is, and so that the monitor runs while it is       *)
(* wanted also here.                                                       *)
(*                                                                         *)
(* The load of the states goes through the switches one after another, and *)
(* each may change others: that the copy is still one of the line is shown *)
(* by the first switch after which it would not be.                        *)
(***************************************************************************)
EXTENDS ClientLine, StatusMonitorProofs, SequenceTheorems, WellFoundedInduction

(* What holds of the first number and is handed on holds of all, up to n:  *)
(* the set of those it holds of is told, for want of a predicate.          *)
LEMMA UpTo ==
    ASSUME NEW n \in Nat, NEW H \in SUBSET (0..n), 0 \in H,
           \A m \in 1..n : m - 1 \in H => m \in H
    PROVE  H = 0..n
<1> DEFINE R == {p \in Nat \X Nat : p[1] < p[2]}
           T == (0..n) \ H
<1>1. R = OpToRel(<, Nat)
  BY Zenon DEF OpToRel
<1>2. IsWellFoundedOn(R, Nat)
  BY <1>1, NatLessThanWellFounded
<1>3. \A k, m \in Nat : k < m => <<k, m>> \in R
  OBVIOUS
<1>4. T \subseteq Nat
  OBVIOUS
<1> HIDE DEF R
<1> SUFFICES ASSUME T # {} PROVE FALSE
  OBVIOUS
<1>5. PICK m \in T : \A k \in T : ~(<<k, m>> \in R)
  <2> HIDE DEF T
  <2> QED BY <1>2, <1>4, WFMin
<1>6. m \in 0..n /\ m \notin H /\ m # 0
  OBVIOUS
<1>7. m \in 1..n /\ m - 1 \in 0..n /\ m - 1 < m /\ m - 1 \in Nat /\ m \in Nat
  BY <1>6
<1>8. m - 1 \notin H
  BY <1>6, <1>7
<1>9. m - 1 \in T
  BY <1>7, <1>8
<1> QED BY <1>3, <1>5, <1>7, <1>9

----------------------------------------------------------------------------
(* The words                                                               *)
ValueOf(kind) == IF kind = "owner" THEN Range(Owners) ELSE BOOLEAN

IsWord(w, kind) == DOMAIN w \subseteq Switches /\ \A k \in DOMAIN w : w[k] \in ValueOf(kind)

LEMMA OrderType ==
    /\ Len(Order) \in Nat /\ DOMAIN Order = 1..Len(Order)
    /\ \A n \in 1..Len(Order) : Order[n] \in Switches
  BY LineAssumption, LenProperties, ElementOfSeq

LEMMA FreeType == Free \in Range(Owners)
<1>1. DOMAIN Owners = 1..Len(Owners) /\ 1 \in 1..Len(Owners)
  BY LineAssumption, LenProperties
<1> QED BY <1>1 DEF Free, Range

LEMMA NoWord == \A kind : IsWord(<<>>, kind)
  BY DEF IsWord

LEMMA WordTypes ==
    ASSUME line \in [Switches -> Values], NEW kind \in Kinds
    PROVE  /\ IsWord(Whole(kind), kind)
           /\ kind # "owner" => \A n \in 1..Len(Order) : IsWord(Parse(Named(kind, n)), kind)
<1>1. ASSUME kind # "owner", NEW n \in 0..Len(Order) PROVE IsWord(Parse(Named(kind, n)), kind)
  <2>1. kind \in {"state", "lock"}
    BY <1>1 DEF Kinds
  <2>2. \A k \in Switches : line[k][kind] \in BOOLEAN
    BY <2>1 DEF Values
  <2>3. \A m \in 1..n : Order[m] \in Switches
    BY OrderType
  <2>4. IsWord(Named(kind, n), kind)
    BY <1>1, <2>2, <2>3 DEF Named, IsWord, ValueOf
  <2> QED BY <2>4, NoWord DEF Parse
<1>2. IsWord(Heard, "owner")
  BY FreeType DEF Heard, IsWord, ValueOf, Values
<1> QED BY <1>1, <1>2, OrderType DEF Whole

----------------------------------------------------------------------------
(* load_valve_states: what the recursion computes, and of what type        *)
Copies == [Switches -> Values]

LEMMA MoveType ==
    ASSUME NEW st \in Copies, NEW k \in Switches, NEW w, IsWord(w, "state")
    PROVE  Move(st, k, w) \in Copies
<1>1. CASE k \in DOMAIN w /\ w[k] # st[k].state
  <2>1. w[k] \in BOOLEAN
    BY <1>1 DEF IsWord, ValueOf
  <2>2. \A j \in Switches : [st[j] EXCEPT !.state = w[k]] \in Values
    BY <2>1 DEF Copies, Values
  <2> QED BY <1>1, <2>2 DEF Move, Copies
<1>2. CASE ~(k \in DOMAIN w /\ w[k] # st[k].state)
  BY <1>2 DEF Move
<1> QED BY <1>1, <1>2

(* There is a function that goes through the first n switches.             *)
Through(c, w, n) ==
    {g \in [0..n -> Copies] : g[0] = c /\ \A m \in 1..n : g[m] = Move(g[m - 1], Order[m], w)}

LEMMA ThroughExists ==
    ASSUME NEW c \in Copies, NEW w, IsWord(w, "state")
    PROVE  Through(c, w, Len(Order)) # {}
<1> DEFINE N == Len(Order)
           H == {n \in 0..N : Through(c, w, n) # {}}
<1>0. N \in Nat
  BY OrderType
<1>1. 0 \in H
  <2>1. [m \in 0..0 |-> c] \in Through(c, w, 0)
    BY DEF Through
  <2> QED BY <1>0, <2>1
<1>2. ASSUME NEW n \in 1..N, n - 1 \in H PROVE n \in H
  <2>1. PICK g : g \in Through(c, w, n - 1)
    BY <1>2
  <2>2. /\ g \in [0..(n - 1) -> Copies] /\ g[0] = c
        /\ \A m \in 1..(n - 1) : g[m] = Move(g[m - 1], Order[m], w)
    BY <2>1 DEF Through
  <2> DEFINE v == Move(g[n - 1], Order[n], w)
             h == [m \in 0..n |-> IF m = n THEN v ELSE g[m]]
  <2>3. n - 1 \in 0..(n - 1) /\ Order[n] \in Switches
    BY <1>0, OrderType
  <2>4. v \in Copies
    BY <2>2, <2>3, MoveType
  <2>5. h \in [0..n -> Copies] /\ h[0] = c
    <3> HIDE DEF v
    <3> QED BY <1>0, <2>2, <2>4
  <2>6. ASSUME NEW m \in 1..n PROVE h[m] = Move(h[m - 1], Order[m], w)
    <3>1. m \in 0..n /\ m - 1 \in 0..(n - 1) /\ m - 1 # n
      BY <1>0
    <3>2. h[m - 1] = g[m - 1]
      BY <3>1
    <3>3. CASE m = n
      BY <3>1, <3>2, <3>3
    <3>4. CASE m # n
      <4>1. m \in 1..(n - 1)
        BY <1>0, <3>4
      <4>2. h[m] = g[m]
        BY <3>1, <3>4
      <4>3. g[m] = Move(g[m - 1], Order[m], w)
        BY <2>2, <4>1
      <4> QED BY <3>2, <4>2, <4>3
    <3> QED BY <3>3, <3>4
  <2> HIDE DEF h
  <2>7. h \in Through(c, w, n)
    BY <2>5, <2>6 DEF Through
  <2> QED BY <1>0, <2>7
<1> HIDE DEF N
<1>3. H \in SUBSET (0..N)
  OBVIOUS
<1> HIDE DEF H
<1>4. H = 0..N
  BY <1>0, <1>1, <1>2, <1>3, UpTo
<1>5. N \in H
  BY <1>0, <1>4
<1> QED BY <1>5 DEF H, N

LEMMA MovedThrough ==
    ASSUME NEW c \in Copies, NEW w, IsWord(w, "state")
    PROVE  \E g \in Through(c, w, Len(Order)) : Moved(c, w) = g[Len(Order)]
<1> DEFINE N == Len(Order)
           Goes(g) == g = [n \in 0..N |-> IF n = 0 THEN c ELSE Move(g[n - 1], Order[n], w)]
           after == CHOOSE g : Goes(g)
<1>0. N \in Nat
  BY OrderType
<1>1. Moved(c, w) = after[N]
  BY Zenon DEF Moved
<1>2. PICK g : g \in Through(c, w, N)
  BY ThroughExists
<1>3. /\ g \in [0..N -> Copies] /\ g[0] = c
      /\ \A m \in 1..N : g[m] = Move(g[m - 1], Order[m], w)
  BY <1>2 DEF Through
<1> HIDE DEF N
<1>4. Goes(g)
  <2>1. \A n \in 0..N : g[n] = IF n = 0 THEN c ELSE Move(g[n - 1], Order[n], w)
    <3> TAKE n \in 0..N
    <3>1. n = 0 \/ n \in 1..N
      BY <1>0
    <3>2. n = 0 => g[n] = c
      BY <1>3
    <3>3. n # 0 => g[n] = Move(g[n - 1], Order[n], w)
      BY <1>3, <3>1
    <3> QED BY <3>2, <3>3
  <2>2. DOMAIN g = 0..N /\ g = [n \in DOMAIN g |-> g[n]]
    BY <1>3
  <2> QED BY <2>1, <2>2
<1>5. Goes(after)
  BY <1>4, Zenon
<1> HIDE DEF after
<1>6. /\ after[0] = c
      /\ \A n \in 1..N : after[n] = Move(after[n - 1], Order[n], w)
  <2>1. \A n \in 0..N : after[n] = IF n = 0 THEN c ELSE Move(after[n - 1], Order[n], w)
    BY <1>5, Zenon
  <2>2. 0 \in 0..N /\ \A n \in 1..N : n \in 0..N /\ n # 0
    BY <1>0
  <2>3. after[0] = c
    BY <2>1, <2>2
  <2>4. ASSUME NEW n \in 1..N PROVE after[n] = Move(after[n - 1], Order[n], w)
    BY <2>1, <2>2, Zenon
  <2> QED BY <2>3, <2>4
<1> HIDE DEF Goes
<1> DEFINE H == {n \in 0..N : after[n] \in Copies}
<1>7. 0 \in H
  BY <1>0, <1>6
<1>8. ASSUME NEW n \in 1..N, n - 1 \in H PROVE n \in H
  <2>1. Order[n] \in Switches /\ n \in 0..N
    BY <1>0, OrderType DEF N
  <2>2. after[n - 1] \in Copies
    BY <1>8
  <2>3. Move(after[n - 1], Order[n], w) \in Copies
    BY <2>1, <2>2, MoveType
  <2> QED BY <1>6, <2>1, <2>3
<1>9. H \in SUBSET (0..N)
  OBVIOUS
<1> HIDE DEF H
<1>10. H = 0..N
  BY <1>0, <1>7, <1>8, <1>9, UpTo
<1>11. after \in [0..N -> Copies]
  <2>1. DOMAIN after = 0..N /\ after = [n \in DOMAIN after |-> after[n]]
    BY <1>5 DEF Goes
  <2>2. \A n \in 0..N : after[n] \in Copies
    BY <1>10 DEF H
  <2> QED BY <2>1, <2>2
<1>12. after \in Through(c, w, N)
  BY <1>6, <1>11 DEF Through
<1> QED BY <1>1, <1>12 DEF N

LEMMA MovedType ==
    ASSUME NEW c \in Copies, NEW w, IsWord(w, "state")
    PROVE  Moved(c, w) \in Copies
  BY MovedThrough, OrderType DEF Through

(* What a whole word of the states makes right, of a copy whatever was     *)
(* recorded or taken over in it: every switch without a parent, and every  *)
(* one whose parent was right; and what was right stays so, parents and    *)
(* all.  A copy is thus right after as many loads as parents are above one *)
(* another, though a load may take a child's own state away again.         *)
THEOREM LoadHeals ==
    ASSUME NEW c \in Copies, NEW w, IsWord(w, "state"), DOMAIN w = Switches,
           NEW G \in SUBSET Switches,
           \A k \in G : c[k].state = w[k] /\ Parent[k] \in G
    PROVE  \A k \in Switches : Parent[k] \in G \cup {k} => Moved(c, w)[k].state = w[k]
<1> DEFINE N == Len(Order)
<1>0. N \in Nat
  BY OrderType
<1>1. PICK g \in Through(c, w, N) : Moved(c, w) = g[N]
  BY MovedThrough
<1>2. /\ g \in [0..N -> Copies] /\ g[0] = c
      /\ \A m \in 1..N : g[m] = Move(g[m - 1], Order[m], w)
  BY <1>1 DEF Through
<1> DEFINE Right(m) == \A k \in Switches :
               k \in G \/ (Parent[k] \in G \cup {k} /\ \E l \in 1..m : Order[l] = k)
                   => g[m][k].state = w[k]
           H == {m \in 0..N : Right(m)}
<1>3. 0 \in H
  BY <1>0, <1>2
<1>4. ASSUME NEW m \in 1..N, m - 1 \in H PROVE m \in H
  <2> DEFINE st == g[m - 1]
             o == Order[m]
  <2>1. /\ st \in Copies /\ o \in Switches /\ g[m] = Move(st, o, w) /\ m \in 0..N
    BY <1>0, <1>2, OrderType
  <2>2. Right(m - 1)
    BY <1>4
  <2>3. ASSUME NEW k \in Switches PROVE
          g[m][k].state = IF st[o].state # w[o] /\ (k = o \/ Parent[k] = o) THEN w[o] ELSE st[k].state
    <3> HIDE DEF st, o
    <3>1. st[k] \in Values
      BY <2>1 DEF Copies
    <3>2. o \in DOMAIN w
      BY <2>1
    <3>3. CASE st[o].state # w[o]
      BY <2>1, <3>1, <3>2, <3>3 DEF Move, Values
    <3>4. CASE st[o].state = w[o]
      BY <2>1, <3>4 DEF Move
    <3> QED BY <3>3, <3>4
  <2>4. ASSUME NEW k \in Switches,
               k \in G \/ (Parent[k] \in G \cup {k} /\ \E l \in 1..m : Order[l] = k)
        PROVE  g[m][k].state = w[k]
    <3>1. CASE k = o
      BY <2>3, <3>1
    <3>2. CASE k # o
      <4>1. k \in G \/ (Parent[k] \in G \cup {k} /\ \E l \in 1..(m - 1) : Order[l] = k)
        <5>1. ASSUME NEW l \in 1..m, Order[l] = k PROVE l \in 1..(m - 1)
          BY <1>0, <3>2, <5>1
        <5> QED BY <2>4, <5>1
      <4>2. st[k].state = w[k]
        BY <2>2, <4>1
      <4>3. CASE Parent[k] = o
        <5>1. o \in G
          BY <2>4, <3>2, <4>3
        <5>2. st[o].state = w[o]
          BY <2>1, <2>2, <5>1
        <5> QED BY <2>3, <4>2, <5>2
      <4>4. CASE Parent[k] # o
        BY <2>3, <3>2, <4>2, <4>4
      <4> QED BY <4>3, <4>4
    <3> QED BY <3>1, <3>2
  <2> QED BY <2>1, <2>4
<1> HIDE DEF N
<1>5. H \in SUBSET (0..N)
  OBVIOUS
<1>6. H = 0..N
  <2> HIDE DEF H
  <2> QED BY <1>0, <1>3, <1>4, <1>5, UpTo
<1>7. Right(N)
  <2>1. N \in H
    BY <1>0, <1>6
  <2> QED BY <2>1
<1>8. ASSUME NEW k \in Switches PROVE \E l \in 1..N : Order[l] = k
  BY OrderType DEF Switches, Range, N
<1> QED BY <1>1, <1>7, <1>8

----------------------------------------------------------------------------
(* Types.  Who has a word is still at the load he asked it for, so that    *)
(* owners are never taken for states.                                      *)
LineType ==
    /\ line \in [Switches -> Values] /\ copy \in [Switches -> Values]
    /\ sent \subseteq [switch : Switches, to : BOOLEAN]
    /\ changes \in 0..MaxChanges

WordType ==
    /\ asked \subseteq Readers /\ DOMAIN word = Readers
    /\ \A r \in Readers \ asked : word[r] = <<>>
    /\ \A r \in asked : \E kind \in Kinds : At(r, kind) /\ IsWord(word[r], kind)

LineInv == TInv /\ LineType /\ WordType

LEMMA LineInvTypeOK == LineInv => TypeOK
<1> SUFFICES ASSUME LineInv PROVE TypeOK
  OBVIOUS
<1>1. \A r \in Readers : DOMAIN word[r] \subseteq Switches
  BY NoWord DEF LineInv, WordType, IsWord
<1> QED BY <1>1 DEF LineInv, LineType, WordType, TInv, TypeOK

LEMMA InitLine == Init => LineInv
<1> SUFFICES ASSUME Init PROVE LineInv
  OBVIOUS
<1>1. TInv
  BY InitTyped DEF Init
<1>2. Rest \in Values
  BY FreeType DEF Rest, Values
<1>3. LineType
  BY <1>2, LineAssumption DEF Init, LineType
<1>4. WordType
  BY DEF Init, WordType
<1> QED BY <1>1, <1>3, <1>4 DEF LineInv

(* A reader is at one load.                                                *)
LEMMA AtOne ==
    ASSUME NEW r, NEW k \in Kinds, NEW l \in Kinds, At(r, k), At(r, l)
    PROVE  k = l
  BY DEF At

(* Every step is one of the monitor or leaves it alone.                    *)
LEMMA UseMonitor ==
    ASSUME NEW r \in Readers, NEW kind \in Kinds, Use(r, kind)
    PROVE  MonitorNext
<1>1. CASE r \in Callers
  <2>1. Refreshed(r, kind)
    BY <1>1 DEF Use
  <2> QED BY <1>1, <2>1 DEF MonitorNext, Refresh
<1>2. CASE r \notin Callers
  <2>1. Past(r, kind) /\ Due(r, kind) /\ r \in Threads
    BY <1>2 DEF Use, At, Readers
  <2> QED BY <2>1 DEF MonitorNext, Load
<1> QED BY <1>1, <1>2

LEMMA StepMonitor == [Next]_vars => [MonitorNext]_monitorVars
<1> SUFFICES ASSUME [Next]_vars PROVE MonitorNext \/ UNCHANGED monitorVars
  OBVIOUS
<1>1. ASSUME NEW c \in Callers, Call(c) \/ \E j \in Jobs[c] : Request(c, j) PROVE MonitorNext
  BY <1>1 DEF MonitorNext
<1>2. ASSUME NEW t \in Threads, Turn(t) PROVE MonitorNext
  BY <1>2 DEF MonitorNext
<1>3. ASSUME NEW r \in Readers, NEW kind \in Kinds, AskWhole(r, kind) \/ AskPart(r, kind)
      PROVE  UNCHANGED monitorVars
  BY <1>3 DEF AskWhole, AskPart, Answer
<1>4. ASSUME NEW k \in Switches, Command(k) \/ LockHere(k) PROVE UNCHANGED monitorVars
  BY <1>4 DEF Command, LockHere
<1>5. ASSUME NEW k \in Switches, NEW field, Change(k, field) PROVE UNCHANGED monitorVars
  BY <1>5 DEF Change
<1>6. CASE Record
  BY <1>6 DEF Record
<1>7. CASE UNCHANGED vars
  BY <1>7 DEF vars
<1> QED
  BY <1>1, <1>2, <1>3, <1>4, <1>5, <1>6, <1>7, UseMonitor DEF Next

(* A call or a turn of a monitor thread moves no reader that is at a load. *)
LEMMA CallStays ==
    ASSUME TInv, NEW c \in Callers, Call(c) \/ \E j \in Jobs[c] : Request(c, j),
           NEW r \in Readers, NEW kind \in Kinds, At(r, kind)
    PROVE  At(r, kind)'
<1>1. CASE r \in Callers
  <2>1. pc[r] = kind
    BY <1>1 DEF At
  <2>2. PICK label : pc' = [pc EXCEPT ![c] = label]
    BY DEF Call, Request, TakeOff, Alone, Look, Launch, Enlist, PutOn, AfterStart, Goto
  <2>3. pc[c] \notin Kinds
    BY DEF Call, Request, TakeOff, Alone, Look, Launch, Enlist, PutOn, Kinds
  <2>4. pc'[r] = pc[r]
    BY <1>1, <2>1, <2>2, <2>3 DEF TInv, MonitorTypeOK
  <2> QED BY <1>1, <2>1, <2>4 DEF At
<1>2. CASE r \notin Callers
  <2>1. at[r] = kind /\ Due(r, kind) /\ r \in Threads
    BY <1>2 DEF At, Readers
  <2>2. i' = i
    BY DEF Call, Request, TakeOff, Alone, Look, Launch, Enlist, PutOn
  <2>3. at'[r] = at[r]
    <3>1. CASE Launch(c)
      <4>1. at' = [at EXCEPT ![evt + 1] = "sleep"]
        BY <3>1 DEF Launch
      <4>2. ~(r > evt)
        BY <2>1 DEF TInv, MonitorTypeOK, Kinds
      <4>3. r # evt + 1
        BY <2>1, <4>2, MonitorAssumption DEF TInv, MonitorTypeOK, Threads
      <4> QED BY <2>1, <4>1, <4>3 DEF TInv, MonitorTypeOK
    <3>2. CASE at' = at
      BY <3>2
    <3> QED BY <3>1, <3>2 DEF Call, Request, TakeOff, Alone, Look, Enlist, PutOn
  <2> QED BY <1>2, <2>1, <2>2, <2>3 DEF At, Due
<1> QED BY <1>1, <1>2

LEMMA TurnStays ==
    ASSUME TInv, NEW t \in Threads, Turn(t),
           NEW r \in Readers, NEW kind \in Kinds, At(r, kind)
    PROVE  At(r, kind)'
<1>1. CASE r \in Callers
  <2>1. pc' = pc
    BY DEF Turn, Wake, EndIteration, Skip, Past
  <2> QED BY <1>1, <2>1 DEF At
<1>2. CASE r \notin Callers
  <2>1. at[r] = kind /\ Due(r, kind) /\ r \in Threads
    BY <1>2 DEF At, Readers
  <2>2. r # t
    BY <2>1 DEF Turn, Wake, EndIteration, Skip, Past, Kinds
  <2>3. at'[r] = at[r]
    BY <2>1, <2>2 DEF Turn, Wake, EndIteration, Skip, Past, Step, TInv, MonitorTypeOK
  <2>4. i'[r] = i[r]
    BY <2>1, <2>2 DEF Turn, Wake, EndIteration, Skip, Past, TInv, MonitorTypeOK
  <2> QED BY <1>2, <2>1, <2>3, <2>4 DEF At, Due
<1> QED BY <1>1, <1>2

(* The use of a word moves nobody but its reader.                          *)
LEMMA UseStays ==
    ASSUME TInv, NEW s \in Readers, NEW k \in Kinds, Use(s, k),
           NEW r \in Readers \ {s}, NEW kind \in Kinds, At(r, kind)
    PROVE  At(r, kind)'
<1>1. /\ i' = i
      /\ \/ s \in Callers /\ at' = at /\ \E label : pc' = [pc EXCEPT ![s] = label]
         \/ s \notin Callers /\ pc' = pc /\ \E label : at' = [at EXCEPT ![s] = label]
  BY DEF Use, Refreshed, Past, Goto, Step
<1>2. CASE r \in Callers
  <2>1. pc'[r] = pc[r]
    BY <1>1, <1>2 DEF TInv, MonitorTypeOK
  <2> QED BY <1>2, <2>1 DEF At
<1>3. CASE r \notin Callers
  <2>1. r \in Threads
    BY <1>3 DEF Readers
  <2>2. at'[r] = at[r]
    BY <1>1, <2>1 DEF TInv, MonitorTypeOK
  <2> QED BY <1>1, <1>3, <2>2 DEF At, Due
<1> QED BY <1>2, <1>3

LEMMA AnswerWords ==
    ASSUME LineInv, NEW r \in Readers, NEW kind \in Kinds, NEW w, IsWord(w, kind),
           Answer(r, kind, w)
    PROVE  WordType'
<1>1. /\ At(r, kind) /\ asked' = asked \cup {r} /\ word' = [word EXCEPT ![r] = w]
      /\ UNCHANGED monitorVars
  BY DEF Answer
<1>2. \A s, k : At(s, k)' = At(s, k)
  BY <1>1 DEF At, Due, monitorVars
<1>3. DOMAIN word = Readers
  BY DEF LineInv, WordType
<1>4. word'[r] = w /\ \A s \in Readers \ {r} : word'[s] = word[s]
  BY <1>1, <1>3
<1>5. ASSUME NEW s \in asked' PROVE \E k \in Kinds : At(s, k)' /\ IsWord(word[s], k)'
  <2>1. CASE s = r
    BY <1>1, <1>2, <1>4, <2>1 DEF IsWord, ValueOf
  <2>2. CASE s # r
    <3>1. s \in asked /\ s \in Readers
      BY <1>1, <1>5, <2>2 DEF LineInv, WordType
    <3>2. PICK k \in Kinds : At(s, k) /\ IsWord(word[s], k)
      BY <3>1 DEF LineInv, WordType
    <3> QED BY <1>2, <1>4, <2>2, <3>1, <3>2 DEF IsWord, ValueOf
  <2> QED BY <2>1, <2>2
<1> QED BY <1>1, <1>3, <1>4, <1>5 DEF LineInv, WordType

LEMMA UseWords ==
    ASSUME LineInv, NEW r \in Readers, NEW kind \in Kinds, Use(r, kind)
    PROVE  WordType'
<1>1. asked' = asked \ {r} /\ word' = [word EXCEPT ![r] = <<>>]
  BY DEF Use
<1>2. DOMAIN word = Readers
  BY DEF LineInv, WordType
<1>3. word'[r] = <<>> /\ \A s \in Readers \ {r} : word'[s] = word[s]
  BY <1>1, <1>2
<1>4. ASSUME NEW s \in asked' PROVE \E k \in Kinds : At(s, k)' /\ IsWord(word[s], k)'
  <2>1. s \in asked /\ s \in Readers \ {r}
    BY <1>1 DEF LineInv, WordType
  <2>2. PICK k \in Kinds : At(s, k) /\ IsWord(word[s], k)
    BY <2>1 DEF LineInv, WordType
  <2>3. At(s, k)'
    BY <2>1, <2>2, UseStays DEF LineInv
  <2> QED BY <1>3, <2>1, <2>2, <2>3 DEF IsWord, ValueOf
<1> QED BY <1>1, <1>2, <1>3, <1>4 DEF LineInv, WordType

(* What is used is a word of the kind that is loaded.                      *)
LEMMA UseCopy ==
    ASSUME LineInv, NEW r \in Readers, NEW kind \in Kinds, Use(r, kind)
    PROVE  copy' \in Copies
<1>1. At(r, kind) /\ r \in asked
  BY DEF Use
<1>2. IsWord(word[r], kind)
  <2>1. PICK k \in Kinds : At(r, k) /\ IsWord(word[r], k)
    BY <1>1 DEF LineInv, WordType
  <2> QED BY <1>1, <2>1, AtOne
<1>3. copy \in Copies
  BY DEF LineInv, LineType, Copies
<1>4. CASE kind = "state"
  <2>1. copy' = Moved(copy, word[r])
    BY <1>4 DEF Use
  <2> QED BY <1>2, <1>3, <1>4, <2>1, MovedType
<1>5. CASE kind # "state"
  <2>1. copy' = Set(copy, word[r], kind)
    BY <1>5 DEF Use
  <2>2. ASSUME NEW k \in Switches, k \in DOMAIN word[r]
        PROVE  [copy[k] EXCEPT ![kind] = word[r][k]] \in Values
    <3>1. copy[k] \in Values /\ word[r][k] \in ValueOf(kind)
      BY <1>2, <1>3, <2>2 DEF IsWord, Copies
    <3>2. CASE kind = "lock"
      BY <3>1, <3>2 DEF Values, ValueOf
    <3>3. CASE kind = "owner"
      BY <3>1, <3>3 DEF Values, ValueOf
    <3> QED BY <1>5, <3>2, <3>3 DEF Kinds
  <2> QED BY <1>3, <2>1, <2>2 DEF Set, Copies
<1> QED BY <1>4, <1>5

LEMMA NextLine == LineInv /\ [Next]_vars => LineInv'
<1> SUFFICES ASSUME LineInv, [Next]_vars PROVE LineInv'
  OBVIOUS
<1>0. TInv'
  BY StepMonitor, NextTyped DEF LineInv
<1> SUFFICES LineType' /\ WordType'
  BY <1>0 DEF LineInv
<1>a. ASSUME Bounded PROVE changes' \in 0..MaxChanges
  BY <1>a, LineAssumption DEF Bounded, LineInv, LineType
<1>b. ASSUME UNCHANGED <<monitorVars, asked, word>> PROVE WordType'
  <2>1. \A s, k : At(s, k)' = At(s, k)
    BY <1>b DEF At, Due, monitorVars
  <2> QED BY <1>b, <2>1 DEF LineInv, WordType, IsWord, ValueOf
<1>1. ASSUME NEW c \in Callers, Call(c) \/ (\E j \in Jobs[c] : Request(c, j)), UNCHANGED lineVars
      PROVE  LineType' /\ WordType'
  <2>1. LineType'
    BY <1>1 DEF LineInv, LineType, lineVars
  <2>2. ASSUME NEW r \in asked PROVE \E k \in Kinds : At(r, k)' /\ IsWord(word[r], k)'
    <3>1. PICK k \in Kinds : At(r, k) /\ IsWord(word[r], k)
      BY DEF LineInv, WordType
    <3>2. r \in Readers
      BY DEF LineInv, WordType
    <3>3. At(r, k)'
      BY <1>1, <3>1, <3>2, CallStays DEF LineInv
    <3> QED BY <1>1, <3>1, <3>3 DEF IsWord, ValueOf, lineVars
  <2> QED BY <1>1, <2>1, <2>2 DEF LineInv, WordType, lineVars
<1>2. ASSUME NEW t \in Threads, Turn(t), UNCHANGED lineVars PROVE LineType' /\ WordType'
  <2>1. LineType'
    BY <1>2 DEF LineInv, LineType, lineVars
  <2>2. ASSUME NEW r \in asked PROVE \E k \in Kinds : At(r, k)' /\ IsWord(word[r], k)'
    <3>1. PICK k \in Kinds : At(r, k) /\ IsWord(word[r], k)
      BY DEF LineInv, WordType
    <3>2. r \in Readers
      BY DEF LineInv, WordType
    <3>3. At(r, k)'
      BY <1>2, <3>1, <3>2, TurnStays DEF LineInv
    <3> QED BY <1>2, <3>1, <3>3 DEF IsWord, ValueOf, lineVars
  <2> QED BY <1>2, <2>1, <2>2 DEF LineInv, WordType, lineVars
<1>3. ASSUME NEW r \in Readers, NEW kind \in Kinds, AskWhole(r, kind) \/ AskPart(r, kind)
      PROVE  LineType' /\ WordType'
  <2>1. line \in [Switches -> Values]
    BY DEF LineInv, LineType
  <2>2. PICK w : IsWord(w, kind) /\ Answer(r, kind, w)
    BY <1>3, <2>1, WordTypes, NoWord DEF AskWhole, AskPart
  <2>3. LineType'
    BY <2>2 DEF Answer, LineInv, LineType
  <2> QED BY <2>2, <2>3, AnswerWords
<1>4. ASSUME NEW r \in Readers, NEW kind \in Kinds, Use(r, kind) PROVE LineType' /\ WordType'
  <2>1. LineType'
    BY <1>4, UseCopy DEF Use, LineInv, LineType, Copies
  <2> QED BY <1>4, <2>1, UseWords
<1>5. ASSUME NEW k \in Switches, Command(k) PROVE LineType' /\ WordType'
  <2>1. PICK s \in BOOLEAN : line' = [line EXCEPT ![k].state = s] /\ sent' = {[switch |-> k, to |-> s]}
    BY <1>5 DEF Command
  <2>2. line' \in [Switches -> Values]
    BY <2>1 DEF LineInv, LineType, Values
  <2>3. LineType'
    BY <1>5, <1>a, <2>1, <2>2 DEF Command, LineInv, LineType
  <2> QED BY <1>5, <1>b, <2>3 DEF Command
<1>6. ASSUME NEW k \in Switches, LockHere(k) PROVE LineType' /\ WordType'
  <2>1. copy' = [copy EXCEPT ![k].lock = ~@]
    BY <1>6 DEF LockHere
  <2>2. copy' \in [Switches -> Values]
    BY <2>1 DEF LineInv, LineType, Values
  <2>3. LineType'
    BY <1>6, <1>a, <2>2 DEF LockHere, LineInv, LineType
  <2> QED BY <1>6, <1>b, <2>3 DEF LockHere
<1>7. ASSUME NEW k \in Switches, NEW field \in DOMAIN Rest, Change(k, field)
      PROVE  LineType' /\ WordType'
  <2>1. field \in {"state", "lock", "owner"}
    BY DEF Rest
  <2>2. PICK v \in (IF field = "owner" THEN Range(Owners) ELSE BOOLEAN) :
          line' = [line EXCEPT ![k][field] = v]
    BY <1>7 DEF Change
  <2>3. line' \in [Switches -> Values]
    <3>1. line \in [Switches -> Values]
      BY DEF LineInv, LineType
    <3>2. [line[k] EXCEPT ![field] = v] \in Values
      <4>1. line[k] \in Values
        BY <3>1
      <4>2. CASE field = "state" BY <2>2, <4>1, <4>2 DEF Values
      <4>3. CASE field = "lock" BY <2>2, <4>1, <4>3 DEF Values
      <4>4. CASE field = "owner" BY <2>2, <4>1, <4>4 DEF Values
      <4> QED BY <2>1, <4>2, <4>3, <4>4
    <3> HIDE DEF Values
    <3> QED BY <2>2, <3>1, <3>2
  <2>4. LineType'
    BY <1>7, <1>a, <2>3 DEF Change, LineInv, LineType
  <2> QED BY <1>7, <1>b, <2>4 DEF Change
<1>8. CASE Record
  <2>1. PICK c \in sent : copy' = [copy EXCEPT ![c.switch].state = c.to]
    BY <1>8 DEF Record
  <2>2. c.to \in BOOLEAN
    BY DEF LineInv, LineType
  <2>3. copy' \in [Switches -> Values]
    BY <2>1, <2>2 DEF LineInv, LineType, Values
  <2>4. LineType'
    BY <1>8, <2>3 DEF Record, LineInv, LineType
  <2> QED BY <1>8, <1>b, <2>4 DEF Record
<1>9. CASE UNCHANGED vars
  BY <1>9, <1>b DEF vars, lineVars, LineInv, LineType
<1> QED
  BY <1>1, <1>2, <1>3, <1>4, <1>5, <1>6, <1>7, <1>8, <1>9 DEF Next

(* Line and copy are of the same kind, and a word names switches and is    *)
(* held only by who is at a load, whatever gets lost and however the loads *)
(* of callers and monitor threads meet: a word of owners is never used as  *)
(* one of states.                                                          *)
THEOREM CopyTyped == Spec => []TypeOK
  BY InitLine, NextLine, LineInvTypeOK, PTL DEF Spec

(* The copy, the words and the commands leave the monitor what it is.      *)
THEOREM MonitorImplemented == Spec => MonitorInit /\ [][MonitorNext]_monitorVars
<1>1. Init => MonitorInit
  BY DEF Init
<1> QED BY <1>1, StepMonitor, PTL DEF Spec

(* So what holds of the monitor by itself holds of it beside the copy: it  *)
(* runs while there is a client, as long as no calls have overlapped.      *)
THEOREM WatchedBesideCopy == Spec => []Watched
<1>1. Init => TInv /\ (~overlap => WInv)
  BY InitTyped, InitWatched DEF Init
<1>2. TInv /\ (~overlap => WInv) /\ [Next]_vars => TInv' /\ (~overlap => WInv)'
  BY StepMonitor, NextTyped, NextWatched
<1>3. (~overlap => WInv) => Watched
  BY DEF WInv, Live, Watched, Stopped
<1> QED BY <1>1, <1>2, <1>3, PTL DEF Spec
====
