---- MODULE ScriptWaitsProofs ----
(***************************************************************************)
(* Proofs for the waits of the scripts, for any number of scripts, waits,  *)
(* gosubs and acts of the operator: the types, that a script that was      *)
(* canceled is never reported as completed, that a script that waits can   *)
(* be reached, and that the group of the waits keeps a control.            *)
(*                                                                         *)
(* The last two are about the group, a list that every script and the end  *)
(* of every run change, with looks and changes in steps of their own.      *)
(* What carries them: until one of the races is run, no two scripts are at *)
(* one control, and whoever is about to take a control out is alone in     *)
(* that, so that the number he saw is still right.                         *)
(***************************************************************************)
EXTENDS ScriptWaits, Integers, SequenceTheorems, WellFoundedInduction, TLAPS

----------------------------------------------------------------------------
(* A set of numbers that is not empty has a least element.                 *)
LEMMA LeastExists ==
    ASSUME NEW T, T \subseteq Nat, T # {}
    PROVE  Min(T) \in T /\ \A n \in T : Min(T) <= n
<1> DEFINE R == {p \in Nat \X Nat : p[1] < p[2]}
<1>1. R = OpToRel(<, Nat)
  BY Zenon DEF OpToRel
<1>2. IsWellFoundedOn(R, Nat)
  BY <1>1, NatLessThanWellFounded
<1>3. \A n, m \in Nat : n < m => <<n, m>> \in R
  OBVIOUS
<1> HIDE DEF R
<1>4. PICK m \in T : \A n \in T : ~(<<n, m>> \in R)
  BY <1>2, WFMin
<1>5. ASSUME NEW n \in T PROVE m <= n
  <2>1. m \in Nat /\ n \in Nat /\ ~(n < m)
    BY <1>3, <1>4
  <2> QED BY <2>1
<1> QED BY <1>5 DEF Min

(* RemoveAt, RemoveFirst, Front and Append, of sequences without repetition *)
(* as far as it matters to the group.                                      *)
LEMMA RemoveAtOf ==
    ASSUME NEW S, NEW s \in Seq(S), NEW i \in 1..Len(s)
    PROVE  /\ RemoveAt(s, i) \in Seq(S)
           /\ Len(RemoveAt(s, i)) = Len(s) - 1
           /\ \A n \in 1..(Len(s) - 1) : RemoveAt(s, i)[n] = IF n < i THEN s[n] ELSE s[n + 1]
<1> DEFINE a == SubSeq(s, 1, i - 1)
           b == SubSeq(s, i + 1, Len(s))
<1>1. /\ a \in Seq(S) /\ Len(a) = i - 1 /\ \A n \in 1..(i - 1) : a[n] = s[n]
  BY SubSeqProperties, ElementOfSeq, LenProperties
<1>2. /\ b \in Seq(S) /\ Len(b) = Len(s) - i /\ \A n \in 1..(Len(s) - i) : b[n] = s[i + n]
  <2>1. Len(s) \in Nat /\ \A n \in (i + 1)..Len(s) : s[n] \in S
    BY ElementOfSeq, LenProperties
  <2>2. /\ b \in Seq(S) /\ Len(b) = (IF i + 1 <= Len(s) THEN Len(s) - (i + 1) + 1 ELSE 0)
        /\ \A n \in 1..(Len(s) - (i + 1) + 1) : b[n] = s[(i + 1) + n - 1]
    BY <2>1, SubSeqProperties
  <2> QED BY <2>1, <2>2
<1> HIDE DEF a, b
<1>3. /\ a \o b \in Seq(S) /\ Len(a \o b) = Len(a) + Len(b)
      /\ \A n \in 1..(Len(a) + Len(b)) :
            (a \o b)[n] = IF n <= Len(a) THEN a[n] ELSE b[n - Len(a)]
  BY <1>1, <1>2, ConcatProperties
<1>4. Len(s) \in Nat
  BY LenProperties
<1>5. \A n \in 1..(Len(s) - 1) : (a \o b)[n] = IF n < i THEN s[n] ELSE s[n + 1]
  BY <1>1, <1>2, <1>3, <1>4
<1>6. RemoveAt(s, i) = a \o b
  BY DEF RemoveAt, a, b
<1>7. Len(a \o b) = Len(s) - 1
  BY <1>1, <1>2, <1>3, <1>4
<1> QED BY <1>3, <1>5, <1>6, <1>7

LEMMA RemoveFirstOf ==
    ASSUME NEW S, NEW s \in Seq(S), IsInjective(s), NEW e
    PROVE  /\ RemoveFirst(s, e) \in Seq(S) /\ IsInjective(RemoveFirst(s, e))
           /\ Range(RemoveFirst(s, e)) = Range(s) \ {e}
           /\ Len(RemoveFirst(s, e)) >= Len(s) - 1
<1>0. Len(s) \in Nat /\ DOMAIN s = 1..Len(s)
  BY LenProperties
<1>1. CASE ~\E i \in 1..Len(s) : s[i] = e
  BY <1>0, <1>1 DEF RemoveFirst, Range
<1>2. CASE \E i \in 1..Len(s) : s[i] = e
  <2> DEFINE T == {i \in 1..Len(s) : s[i] = e}
             k == Min(T)
             r == RemoveAt(s, k)
  <2>1. k \in 1..Len(s) /\ s[k] = e
    <3>1. T \subseteq Nat /\ T # {}
      BY <1>0, <1>2
    <3>2. Min(T) \in T
      BY <3>1, LeastExists
    <3> QED BY <3>2
  <2>2. RemoveFirst(s, e) = r
    BY <1>2 DEF RemoveFirst, SelectInSeq
  <2> HIDE DEF T, k
  <2>3. /\ r \in Seq(S) /\ Len(r) = Len(s) - 1
        /\ \A n \in 1..(Len(s) - 1) : r[n] = IF n < k THEN s[n] ELSE s[n + 1]
    BY <2>1, RemoveAtOf
  <2> HIDE DEF r
  <2>4. DOMAIN r = 1..(Len(s) - 1)
    BY <2>3, LenProperties
  <2>5. IsInjective(r)
    <3> SUFFICES ASSUME NEW a \in DOMAIN r, NEW b \in DOMAIN r, r[a] = r[b] PROVE a = b
      BY DEF IsInjective
    <3>1. PICK x \in DOMAIN s : r[a] = s[x] /\ x = IF a < k THEN a ELSE a + 1
      BY <1>0, <2>1, <2>3, <2>4
    <3>2. PICK y \in DOMAIN s : r[b] = s[y] /\ y = IF b < k THEN b ELSE b + 1
      BY <1>0, <2>1, <2>3, <2>4
    <3>3. x = y
      BY <3>1, <3>2 DEF IsInjective
    <3> QED BY <1>0, <2>1, <2>4, <3>1, <3>2, <3>3
  <2>6. \A n \in DOMAIN r : r[n] \in Range(s) \ {e}
    BY <1>0, <2>1, <2>3, <2>4 DEF IsInjective, Range
  <2>7. ASSUME NEW n \in 1..Len(s), s[n] # e PROVE s[n] \in Range(r)
    <3>1. CASE n < k
      BY <3>1, <1>0, <2>1, <2>3, <2>4 DEF Range
    <3>2. CASE n > k
      <4>1. n - 1 \in DOMAIN r /\ r[n - 1] = s[n]
        BY <3>2, <1>0, <2>1, <2>3, <2>4
      <4> QED BY <4>1 DEF Range
    <3> QED BY <2>1, <2>7, <3>1, <3>2, <1>0
  <2>8. Range(r) = Range(s) \ {e}
    BY <1>0, <2>6, <2>7 DEF Range
  <2> QED BY <1>0, <2>2, <2>3, <2>5, <2>8
<1> QED BY <1>1, <1>2

(* An element that is not taken out keeps its place, or moves one ahead if *)
(* what was taken out stood before it.                                     *)
LEMMA RemoveFirstAt ==
    ASSUME NEW S, NEW s \in Seq(S), NEW e, NEW i \in 1..Len(s), s[i] # e
    PROVE  \E j \in 1..Len(RemoveFirst(s, e)) :
              /\ RemoveFirst(s, e)[j] = s[i]
              /\ j = i \/ (j = i - 1 /\ \E k \in 1..Len(s) : k < i /\ s[k] = e)
<1>0. Len(s) \in Nat
  BY LenProperties
<1>1. CASE ~\E k \in 1..Len(s) : s[k] = e
  BY <1>1 DEF RemoveFirst
<1>2. CASE \E k \in 1..Len(s) : s[k] = e
  <2> DEFINE T == {k \in 1..Len(s) : s[k] = e}
             m == Min(T)
             r == RemoveAt(s, m)
  <2>1. m \in 1..Len(s) /\ s[m] = e
    <3>1. T \subseteq Nat /\ T # {}
      BY <1>0, <1>2
    <3>2. Min(T) \in T
      BY <3>1, LeastExists
    <3> QED BY <3>2
  <2>2. RemoveFirst(s, e) = r
    BY <1>2 DEF RemoveFirst, SelectInSeq
  <2> HIDE DEF T, m
  <2>3. /\ Len(r) = Len(s) - 1
        /\ \A n \in 1..(Len(s) - 1) : r[n] = IF n < m THEN s[n] ELSE s[n + 1]
    BY <2>1, RemoveAtOf
  <2> HIDE DEF r
  <2>4. CASE i < m
    BY <1>0, <2>1, <2>2, <2>3, <2>4
  <2>5. CASE m < i
    <3>1. i - 1 \in 1..(Len(s) - 1) /\ ~(i - 1 < m) /\ i - 1 + 1 = i
      BY <1>0, <2>1, <2>5
    <3>2. r[i - 1] = s[i]
      BY <2>3, <3>1
    <3> QED BY <2>1, <2>2, <2>3, <2>5, <3>1, <3>2
  <2> QED BY <1>0, <2>1, <2>4, <2>5
<1> QED BY <1>1, <1>2

LEMMA LenOfFront ==
    ASSUME NEW L \in Nat, L > 0
    PROVE  /\ (IF 1 <= L - 1 THEN L - 1 - 1 + 1 ELSE 0) = L - 1
           /\ \A n \in 1..(L - 1) : n \in 1..(L - 1 - 1 + 1) /\ n \in 1..L /\ 1 + n - 1 = n
  OBVIOUS

LEMMA FrontOf ==
    ASSUME NEW S, NEW s \in Seq(S), IsInjective(s), Len(s) > 0
    PROVE  /\ Front(s) \in Seq(S) /\ IsInjective(Front(s))
           /\ Range(Front(s)) = Range(s) \ {Last(s)}
           /\ Len(Front(s)) = Len(s) - 1 /\ Last(s) \in Range(s)
           /\ \A n \in 1..(Len(s) - 1) : Front(s)[n] = s[n]
<1> DEFINE f == Front(s)
<1>0. Len(s) \in Nat /\ Len(s) > 0 /\ DOMAIN s = 1..Len(s)
  BY LenProperties
<1>1. /\ f \in Seq(S) /\ Len(f) = Len(s) - 1
      /\ \A n \in 1..(Len(s) - 1) : f[n] = s[n]
  <2>1. \A n \in 1..(Len(s) - 1) : s[n] \in S
    BY <1>0, ElementOfSeq
  <2>2. /\ f \in Seq(S) /\ Len(f) = (IF 1 <= Len(s) - 1 THEN Len(s) - 1 - 1 + 1 ELSE 0)
        /\ \A n \in 1..(Len(s) - 1 - 1 + 1) : f[n] = s[1 + n - 1]
    BY <1>0, <2>1, SubSeqProperties DEF Front
  <2> HIDE DEF f
  <2>3. /\ (IF 1 <= Len(s) - 1 THEN Len(s) - 1 - 1 + 1 ELSE 0) = Len(s) - 1
        /\ \A n \in 1..(Len(s) - 1) : n \in 1..(Len(s) - 1 - 1 + 1) /\ 1 + n - 1 = n
    BY <1>0, LenOfFront
  <2>4. Len(f) = Len(s) - 1
    BY ONLY <2>2, <2>3
  <2>5. ASSUME NEW n \in 1..(Len(s) - 1) PROVE f[n] = s[n]
    <3>1. n \in 1..(Len(s) - 1 - 1 + 1) /\ 1 + n - 1 = n
      BY <2>3
    <3>2. f[n] = s[1 + n - 1]
      BY <2>2, <3>1, Zenon
    <3> QED BY <3>1, <3>2, Zenon
  <2> QED BY <2>2, <2>4, <2>5
<1> HIDE DEF f
<1>2. DOMAIN f = 1..(Len(s) - 1)
  BY <1>1, LenProperties
<1>3. IsInjective(f)
  BY <1>0, <1>1, <1>2 DEF IsInjective
<1>4. Last(s) = s[Len(s)] /\ Last(s) \in Range(s)
  BY <1>0 DEF Last, Range
<1>5. Range(f) = Range(s) \ {Last(s)}
  <2>1. ASSUME NEW n \in DOMAIN f PROVE f[n] \in Range(s) \ {Last(s)}
    <3>1. n \in DOMAIN s /\ f[n] = s[n] /\ n # Len(s) /\ Len(s) \in DOMAIN s
      BY <1>0, <1>1, <1>2
    <3> QED BY <1>4, <3>1 DEF IsInjective, Range
  <2>2. ASSUME NEW n \in DOMAIN s, s[n] # Last(s) PROVE s[n] \in Range(f)
    <3>1. n \in DOMAIN f /\ f[n] = s[n]
      BY <1>0, <1>1, <1>2, <1>4, <2>2
    <3> QED BY <3>1 DEF Range
  <2> QED BY <2>1, <2>2 DEF Range
<1> QED BY <1>1, <1>3, <1>4, <1>5 DEF f

LEMMA AppendOf ==
    ASSUME NEW S, NEW s \in Seq(S), IsInjective(s), NEW e \in S, e \notin Range(s)
    PROVE  /\ Append(s, e) \in Seq(S) /\ IsInjective(Append(s, e))
           /\ Range(Append(s, e)) = Range(s) \cup {e}
           /\ Len(Append(s, e)) = Len(s) + 1
           /\ \A n \in 1..Len(s) : Append(s, e)[n] = s[n]
<1>0. Len(s) \in Nat /\ DOMAIN s = 1..Len(s)
  BY LenProperties
<1>1. /\ Append(s, e) \in Seq(S) /\ Len(Append(s, e)) = Len(s) + 1
      /\ \A n \in 1..Len(s) : Append(s, e)[n] = s[n]
      /\ Append(s, e)[Len(s) + 1] = e
  BY AppendProperties
<1>2. DOMAIN Append(s, e) = 1..(Len(s) + 1)
  BY <1>1, LenProperties
<1>3. IsInjective(Append(s, e))
  BY <1>0, <1>1, <1>2 DEF IsInjective, Range
<1>4. Range(Append(s, e)) = Range(s) \cup {e}
  <2>1. Range(Append(s, e)) = {Append(s, e)[n] : n \in 1..(Len(s) + 1)}
    BY <1>2 DEF Range
  <2>2. 1..(Len(s) + 1) = 1..Len(s) \cup {Len(s) + 1}
    BY <1>0
  <2> QED BY <1>0, <1>1, <2>1, <2>2 DEF Range
<1> QED BY <1>1, <1>3, <1>4
----------------------------------------------------------------------------
(* The types, in three parts, and what the third needs of a script.        *)
ThreadType ==
    /\ pc \in [Scripts -> {"idle", "boot", "body", "raised", "judged", "asked", "placed", "signal",
                           "install", "settle", "join", "forget", "leave", "drop", "last"}
                           \cup Ended]
    /\ level \in [Scripts -> {0, 1}]
    /\ DOMAIN calls = Scripts /\ \A s \in Scripts : calls[s] \in 0..MaxCalls[s]
    /\ acts \in 0..MaxActs /\ hit \in [Scripts -> BOOLEAN] /\ races \subseteq Races
    /\ stopAt \in Nat /\ awaited \subseteq Scripts

DataType ==
    /\ flags \in [Nodes -> [cancel : BOOLEAN, abort : BOOLEAN, done : BOOLEAN]]
    /\ mine \in [Nodes -> Controls \cup {NoControl}]
    /\ timer \in [Controls -> [thread : {"none", "delay", "loop"}, flag : BOOLEAN]]
    /\ endEvt \in [Controls -> Scripts \cup {NoScript}]
    /\ evt \in [Scripts -> BOOLEAN] /\ paused \in [Controls -> BOOLEAN]

GroupType == group \in Seq(Controls) /\ IsInjective(group) /\ active \in Controls

HasControl == \A s \in Scripts : At(s) => Wait(s) \in Controls

TInv == ThreadType /\ DataType /\ GroupType /\ HasControl

LEMMA TInvTypeOK == TInv => TypeOK
  BY DEF TInv, ThreadType, DataType, GroupType, TypeOK

LEMMA OuterNode == \A s \in Scripts : <<s, 0>> \in Nodes /\ <<s, 1>> \in Nodes
  BY DEF Nodes

LEMMA SelfNode == ASSUME TInv, NEW s \in Scripts PROVE Self(s) \in Nodes /\ level[s] \in {0, 1}
  BY OuterNode DEF TInv, ThreadType, Self

(* The scripts of two threads are two.                                     *)
LEMMA SelfApart == ASSUME NEW s, NEW t, s # t PROVE Self(s) # Self(t)
  BY DEF Self

LEMMA InitTypes == Init => TInv
<1> SUFFICES ASSUME Init PROVE TInv
  OBVIOUS
<1>1. ThreadType
  BY WaitsAssumption DEF Init, ThreadType, Ended
<1>2. DataType
  BY DEF Init, DataType, Fresh, NoTimer
<1>3. group = <<1>> /\ active = 1 /\ 1 \in Controls
  BY WaitsAssumption DEF Init
<1>4. GroupType
  BY <1>3 DEF GroupType, IsInjective
<1>5. HasControl
  BY DEF Init, HasControl, At
<1> QED BY <1>1, <1>2, <1>4, <1>5 DEF TInv

(* End sets events and stops timers.                                       *)
LEMMA EndTypes ==
    ASSUME DataType, NEW cs, End(cs)
    PROVE  /\ timer' \in [Controls -> [thread : {"none", "delay", "loop"}, flag : BOOLEAN]]
           /\ evt' \in [Scripts -> BOOLEAN]
<1>1. evt' = [s \in Scripts |-> evt[s] \/ \E c \in cs : endEvt[c] = s]
  BY DEF End
<1>2. timer' = [c \in Controls |->
                    IF c \in cs /\ timer[c].thread # "none"
                    THEN [timer[c] EXCEPT !.flag = TRUE] ELSE timer[c]]
  BY DEF End
<1>3. evt' \in [Scripts -> BOOLEAN]
  BY <1>1, Zenon
<1>4. timer' \in [Controls -> [thread : {"none", "delay", "loop"}, flag : BOOLEAN]]
  BY <1>2 DEF DataType
<1> QED BY <1>3, <1>4

LEMMA CancelTypes ==
    ASSUME TInv, NEW s \in Scripts, NEW l, CancelScript(<<s, l>>)
    PROVE  /\ flags' \in [Nodes -> [cancel : BOOLEAN, abort : BOOLEAN, done : BOOLEAN]]
           /\ timer' \in [Controls -> [thread : {"none", "delay", "loop"}, flag : BOOLEAN]]
           /\ evt' \in [Scripts -> BOOLEAN] /\ hit' \in [Scripts -> BOOLEAN]
<1> DEFINE reached == {m \in Chain(s) : m = <<s, l>> \/ ~flags[m].cancel}
<1>1. /\ flags' = [m \in Nodes |-> IF m \in reached
                                   THEN [flags[m] EXCEPT !.cancel = TRUE] ELSE flags[m]]
      /\ hit' = [hit EXCEPT ![s] = @ \/ Undecided(s)]
      /\ End({mine[m] : m \in reached} \ {NoControl})
  BY Zenon DEF CancelScript
<1> HIDE DEF reached
<1>2. flags' \in [Nodes -> [cancel : BOOLEAN, abort : BOOLEAN, done : BOOLEAN]]
  BY <1>1 DEF TInv, DataType
<1>3. hit' \in [Scripts -> BOOLEAN]
  BY <1>1 DEF TInv, ThreadType
<1>4. /\ timer' \in [Controls -> [thread : {"none", "delay", "loop"}, flag : BOOLEAN]]
      /\ evt' \in [Scripts -> BOOLEAN]
  BY <1>1, EndTypes DEF TInv
<1> QED BY <1>2, <1>3, <1>4

LEMMA AbortTypes ==
    ASSUME TInv, NEW s \in Scripts, AbortScript(<<s, 0>>)
    PROVE  /\ flags' \in [Nodes -> [cancel : BOOLEAN, abort : BOOLEAN, done : BOOLEAN]]
           /\ timer' \in [Controls -> [thread : {"none", "delay", "loop"}, flag : BOOLEAN]]
           /\ evt' \in [Scripts -> BOOLEAN]
<1> DEFINE reached == {m \in Chain(s) : m = <<s, 0>> \/ ~flags[m].abort}
<1>1. /\ flags' = [m \in Nodes |-> IF m \in reached
                                   THEN [flags[m] EXCEPT !.abort = TRUE] ELSE flags[m]]
      /\ End({mine[m] : m \in reached} \ {NoControl})
  BY Zenon DEF AbortScript
<1> HIDE DEF reached
<1>2. flags' \in [Nodes -> [cancel : BOOLEAN, abort : BOOLEAN, done : BOOLEAN]]
  BY <1>1 DEF TInv, DataType
<1> QED BY <1>1, <1>2, EndTypes DEF TInv

(* The steps of a thread, one part of the types after the other.           *)
LEMMA ThreadTypeKept == ASSUME TInv, NEW s \in Scripts, Thread(s) PROVE ThreadType'
<1> USE DEF TInv, ThreadType, Ended, Races, stops
<1>1. CASE Execute(s) BY <1>1 DEF Execute
<1>2. CASE ResetFlags(s) BY <1>2 DEF ResetFlags
<1>3. CASE Sleep(s)
  <2>1. calls' = [calls EXCEPT ![s] = @ + 1] /\ calls[s] < MaxCalls[s] /\ MaxCalls[s] \in Nat
    BY <1>3, WaitsAssumption DEF Sleep
  <2>2. \A t \in Scripts : calls'[t] \in 0..MaxCalls[t]
    BY <2>1
  <2> QED BY <1>3, <2>1, <2>2 DEF Sleep
<1>4. CASE Choose(s)
  <2>1. PICK c \in Controls : Hand(s, c)
    BY <1>4, Zenon DEF Choose
  <2> QED BY <2>1 DEF Hand
<1>5. CASE Activate(s) BY <1>5 DEF Activate
<1>6. CASE Signal(s) BY <1>6 DEF Signal
<1>7. CASE Install(s) BY <1>7 DEF Install
<1>8. CASE Arm(s) BY <1>8 DEF Arm
<1>9. CASE Joined(s) BY <1>9 DEF Joined
<1>10. CASE Forget(s) BY <1>10 DEF Forget
<1>11. CASE Leave(s) BY <1>11 DEF Leave
<1>12. CASE Drop(s) BY <1>12 DEF Drop
<1>13. CASE PopLast(s) BY <1>13 DEF PopLast
<1>14. CASE Reselect(s) BY <1>14 DEF Reselect
<1>15. CASE Gosub(s)
  <2>1. calls' = [calls EXCEPT ![s] = @ + 1] /\ calls[s] < MaxCalls[s] /\ MaxCalls[s] \in Nat
    BY <1>15, WaitsAssumption DEF Gosub
  <2>2. \A t \in Scripts : calls'[t] \in 0..MaxCalls[t]
    BY <2>1
  <2> QED BY <1>15, <2>1, <2>2 DEF Gosub
<1>16. CASE Exit(s)
  <2>1. hit' \in [Scripts -> BOOLEAN]
    BY <1>16, CancelTypes DEF Exit, Self
  <2> QED BY <1>16, <2>1 DEF Exit
<1>17. CASE Return(s) BY <1>17 DEF Return
<1>18. CASE Fail(s) BY <1>18 DEF Fail
<1>19. CASE Judge(s) BY <1>19 DEF Judge
<1>20. CASE Finish(s) BY <1>20 DEF Finish
<1> QED
  BY <1>1, <1>2, <1>3, <1>4, <1>5, <1>6, <1>7, <1>8, <1>9, <1>10, <1>11, <1>12, <1>13,
     <1>14, <1>15, <1>16, <1>17, <1>18, <1>19, <1>20 DEF Thread

LEMMA DataTypeKept == ASSUME TInv, NEW s \in Scripts, Thread(s) PROVE DataType'
<1>0. DataType
  BY DEF TInv
<1> USE DEF DataType
<1>1. CASE Execute(s) BY <1>0, <1>1 DEF Execute
<1>2. CASE ResetFlags(s) BY <1>0, <1>2 DEF ResetFlags, Fresh
<1>3. CASE Sleep(s) BY <1>0, <1>3 DEF Sleep
<1>4. CASE Choose(s)
  <2>1. PICK c \in Controls : Hand(s, c)
    BY <1>4, Zenon DEF Choose
  <2> QED BY <1>0, <2>1 DEF Hand, NoTimer
<1>5. CASE Activate(s) BY <1>0, <1>5 DEF Activate
<1>6. CASE Signal(s) BY <1>0, <1>6 DEF Signal
<1>7. CASE Install(s) BY <1>0, <1>7 DEF Install
<1>8. CASE Arm(s) BY <1>0, <1>8 DEF Arm, NewTimer
<1>9. CASE Joined(s) BY <1>0, <1>9 DEF Joined
<1>10. CASE Forget(s) BY <1>0, <1>10 DEF Forget
<1>11. CASE Leave(s) BY <1>0, <1>11 DEF Leave
<1>12. CASE Drop(s) BY <1>0, <1>12 DEF Drop
<1>13. CASE PopLast(s) BY <1>0, <1>13 DEF PopLast
<1>14. CASE Reselect(s) BY <1>0, <1>14 DEF Reselect
<1>15. CASE Gosub(s) BY <1>0, <1>15 DEF Gosub, Fresh
<1>16. CASE Exit(s) BY <1>0, <1>16, CancelTypes DEF Exit, Self
<1>17. CASE Return(s) BY <1>0, <1>17 DEF Return, Fresh
<1>18. CASE Fail(s) BY <1>0, <1>18 DEF Fail
<1>19. CASE Judge(s) BY <1>0, <1>19 DEF Judge
<1>20. CASE Finish(s) BY <1>0, <1>20 DEF Finish
<1> QED
  BY <1>1, <1>2, <1>3, <1>4, <1>5, <1>6, <1>7, <1>8, <1>9, <1>10, <1>11, <1>12, <1>13,
     <1>14, <1>15, <1>16, <1>17, <1>18, <1>19, <1>20 DEF Thread

(* What a step of a thread does to the group: nothing, or its control is   *)
(* in it after the choice, or one control is taken out.                    *)
LEMMA Emptiness == ASSUME NEW S, NEW s \in Seq(S) PROVE s # <<>> <=> Len(s) > 0
<1>1. s # <<>> => Len(s) \in Nat \ {0}
  BY EmptySeq
<1>2. Len(<<>>) = 0
  BY EmptySeq
<1> QED BY <1>1, <1>2

LEMMA ChooseGroup ==
    ASSUME TInv, NEW s \in Scripts, NEW c \in Controls,
           group' = IF InGroup(c) THEN group ELSE Append(group, c)
    PROVE  /\ group' \in Seq(Controls) /\ IsInjective(group)'
           /\ Range(group') = Range(group) \cup {c} /\ Len(group') >= Len(group)
           /\ \A n \in 1..Len(group) : group'[n] = group[n]
<1>1. group \in Seq(Controls) /\ IsInjective(group) /\ Len(group) \in Nat
  BY LenProperties DEF TInv, GroupType
<1>2. CASE InGroup(c)
  BY <1>1, <1>2 DEF InGroup
<1>3. CASE ~InGroup(c)
  <2>1. group' = Append(group, c) /\ c \notin Range(group)
    BY <1>3 DEF InGroup
  <2> HIDE DEF InGroup
  <2>2. /\ Append(group, c) \in Seq(Controls) /\ IsInjective(Append(group, c))
        /\ Range(Append(group, c)) = Range(group) \cup {c}
        /\ Len(Append(group, c)) = Len(group) + 1
        /\ \A n \in 1..Len(group) : Append(group, c)[n] = group[n]
    BY <1>1, <2>1, AppendOf
  <2>3. Len(group') >= Len(group)
    BY <1>1, <2>1, <2>2
  <2>4. IsInjective(group)'
    BY <2>1, <2>2
  <2> QED BY <2>1, <2>2, <2>3, <2>4
<1> QED BY <1>2, <1>3

LEMMA GroupStep ==
    ASSUME TInv, NEW s \in Scripts, Thread(s)
    PROVE  /\ group' \in Seq(Controls) /\ IsInjective(group)'
           /\ \/ group' = group
              \/ \E c \in Controls : /\ Given(c) /\ Hand(s, c)
                                    /\ Range(group') = Range(group) \cup {c}
                                    /\ Len(group') >= Len(group)
              \/ /\ pc[s] = "drop" /\ Drop(s)
                 /\ Range(group') = Range(group) \ {Wait(s)} /\ Len(group') >= Len(group) - 1
              \/ /\ pc[s] = "pop" /\ PopLast(s) /\ Len(group) > 0
                 /\ Range(group') = Range(group) \ {Last(group)}
                 /\ Len(group') = Len(group) - 1
<1>0. group \in Seq(Controls) /\ IsInjective(group)
  BY DEF TInv, GroupType
<1>1. CASE group' = group
  BY <1>0, <1>1
<1>2. CASE Choose(s)
  <2>1. PICK c \in Controls : /\ Given(c) /\ Hand(s, c)
                              /\ group' = IF InGroup(c) THEN group ELSE Append(group, c)
    BY <1>2, Zenon DEF Choose
  <2> QED BY <2>1, ChooseGroup, Zenon
<1>3. CASE Drop(s)
  <2>1. group' = RemoveFirst(group, Wait(s)) /\ pc[s] = "drop"
    BY <1>3 DEF Drop
  <2>2. LET r == RemoveFirst(group, Wait(s))
        IN  /\ r \in Seq(Controls) /\ IsInjective(r) /\ Range(r) = Range(group) \ {Wait(s)}
            /\ Len(r) >= Len(group) - 1
    BY <1>0, RemoveFirstOf
  <2> QED BY <1>3, <2>1, <2>2
<1>4. CASE PopLast(s)
  <2>1. group' = Front(group) /\ pc[s] = "pop"
    BY <1>4 DEF PopLast
  <2>2. CASE group = <<>>
    <3>1. Len(group) = 0
      BY <2>2, EmptySeq
    <3>2. SubSeq(group, 1, 0 - 1) = <<>>
      BY SubSeqEmpty
    <3>3. Front(group) = SubSeq(group, 1, 0 - 1)
      BY <3>1 DEF Front
    <3>4. group' = group
      BY <2>1, <2>2, <3>2, <3>3
    <3> QED BY <1>1, <3>4
  <2>3. CASE group # <<>>
    <3>1. Len(group) > 0
      BY <1>0, <2>3, Emptiness
    <3>2. /\ Front(group) \in Seq(Controls) /\ IsInjective(Front(group))
          /\ Range(Front(group)) = Range(group) \ {Last(group)}
          /\ Len(Front(group)) = Len(group) - 1
      BY <1>0, <3>1, FrontOf
    <3> QED BY <1>4, <2>1, <3>1, <3>2
  <2> QED BY <2>2, <2>3
<1> QED
  <2>1. group' = group \/ Choose(s) \/ Drop(s) \/ PopLast(s)
    BY DEF Thread, Execute, ResetFlags, Sleep, Activate, Signal, Install, Arm, Joined, Forget,
           Leave, Reselect, Gosub, Exit, Return, Fail, Judge, Finish
  <2> QED BY <1>1, <1>2, <1>3, <1>4, <2>1

(* A step of one thread leaves the others where they are, at their         *)
(* controls, and comes to a control by the choice only.                    *)
LEMMA StayFrame ==
    ASSUME TInv, NEW s \in Scripts, NEW label, pc' = [pc EXCEPT ![s] = label],
           UNCHANGED <<level, mine>>
    PROVE  /\ \A t \in Scripts \ {s} : pc'[t] = pc[t] /\ Wait(t)' = Wait(t)
           /\ pc'[s] = label /\ Wait(s)' = Wait(s)
  BY DEF TInv, ThreadType, Wait, Self

LEMMA Frame ==
    ASSUME TInv, NEW s \in Scripts, Thread(s)
    PROVE  /\ \A t \in Scripts \ {s} : pc'[t] = pc[t] /\ Wait(t)' = Wait(t) /\ (At(t)' <=> At(t))
           /\ \/ ~At(s)' \/ (At(s) /\ Wait(s)' = Wait(s))
              \/ \E c \in Controls : Given(c) /\ Hand(s, c) /\ Wait(s)' = c
<1> DEFINE Same == \A t \in Scripts \ {s} : pc'[t] = pc[t] /\ Wait(t)' = Wait(t)
           Own == \/ ~At(s)' \/ (At(s) /\ Wait(s)' = Wait(s))
                  \/ \E c \in Controls : Given(c) /\ Hand(s, c) /\ Wait(s)' = c
<1>a. Same => \A t \in Scripts \ {s} : At(t)' <=> At(t)
  BY DEF At
<1>b. Self(s) \in Nodes /\ \A t \in Scripts \ {s} : Self(t) # Self(s)
  BY SelfNode, SelfApart
<1>1. CASE Execute(s) \/ ResetFlags(s) \/ Sleep(s)
  <2>1. PICK label \in {"boot", "body", "asked"} :
          pc' = [pc EXCEPT ![s] = label] /\ UNCHANGED <<level, mine>>
    BY <1>1 DEF Execute, ResetFlags, Sleep
  <2> QED BY <1>a, <2>1, StayFrame DEF At
<1>2. CASE Choose(s)
  <2>1. PICK c \in Controls : Given(c) /\ Hand(s, c)
    BY <1>2, Zenon DEF Choose
  <2>2. mine' = [mine EXCEPT ![Self(s)] = c] /\ pc' = [pc EXCEPT ![s] = "placed"] /\ level' = level
    BY <2>1 DEF Hand
  <2>3. \A t \in Scripts : Self(t)' = Self(t)
    BY <2>2 DEF Self
  <2>4. Same
    BY <1>b, <2>2, <2>3 DEF TInv, ThreadType, DataType, Wait
  <2>5. Wait(s)' = c
    BY <1>b, <2>2, <2>3 DEF TInv, DataType, Wait
  <2> QED BY <1>a, <2>1, <2>4, <2>5
<1>3. CASE Activate(s) \/ Signal(s) \/ Install(s) \/ Arm(s) \/ Joined(s) \/ Forget(s) \/ Leave(s)
            \/ Drop(s)
  <2>1. PICK label : /\ pc' = [pc EXCEPT ![s] = label] /\ UNCHANGED <<level, mine>>
                     /\ At(s) \/ label \in {"pop", "over"}
    BY <1>3 DEF Activate, Signal, Install, Arm, Joined, Forget, Leave, Drop, At
  <2>2. At(s) \/ ~At(s)'
    BY <2>1, StayFrame DEF At
  <2> QED BY <1>a, <2>1, <2>2, StayFrame
<1>4. CASE PopLast(s) \/ Reselect(s)
  <2>1. PICK label \in {"over", "select", "raised", "body"} :
          pc' = [pc EXCEPT ![s] = label] /\ UNCHANGED <<level, mine>>
    BY <1>4 DEF PopLast, Reselect
  <2> QED BY <1>a, <2>1, StayFrame DEF At
<1>5. CASE Gosub(s)
  <2>1. /\ level' = [level EXCEPT ![s] = 1] /\ mine' = [mine EXCEPT ![<<s, 1>>] = NoControl]
        /\ pc' = [pc EXCEPT ![s] = "boot"]
    BY <1>5 DEF Gosub
  <2>2. \A t \in Scripts \ {s} : Self(t)' = Self(t) /\ Self(t) # <<s, 1>> /\ Self(t) \in Nodes
    BY <2>1, SelfNode DEF TInv, ThreadType, Self
  <2>3. Same
    BY <2>1, <2>2 DEF TInv, ThreadType, DataType, Wait
  <2>4. ~At(s)'
    BY <2>1 DEF At, TInv, ThreadType
  <2> QED BY <1>a, <2>3, <2>4
<1>6. CASE Exit(s)
  <2>1. pc[s] = "body" /\ UNCHANGED <<pc, level, mine>>
    BY <1>6 DEF Exit
  <2>2. Same
    BY <2>1 DEF Wait, Self
  <2> QED BY <1>a, <2>1, <2>2 DEF At
<1>7. CASE Return(s)
  <2>1. /\ level' = [level EXCEPT ![s] = 0] /\ mine' = [mine EXCEPT ![<<s, 1>>] = NoControl]
        /\ pc' = [pc EXCEPT ![s] = "body"] /\ level[s] = 1
    BY <1>7 DEF Return
  <2>2. \A t \in Scripts \ {s} : Self(t)' = Self(t) /\ Self(t) # <<s, 1>> /\ Self(t) \in Nodes
    BY <2>1, SelfNode DEF TInv, ThreadType, Self
  <2>3. Same
    BY <2>1, <2>2 DEF TInv, ThreadType, DataType, Wait
  <2>4. ~At(s)'
    BY <2>1 DEF At, TInv, ThreadType
  <2> QED BY <1>a, <2>3, <2>4
<1>8. CASE Fail(s) \/ Judge(s) \/ Finish(s)
  <2>1. PICK label \in {"done", "judged"} :
          pc' = [pc EXCEPT ![s] = label] /\ UNCHANGED <<level, mine>>
    BY <1>8 DEF Fail, Judge, Finish
  <2> QED BY <1>a, <2>1, StayFrame DEF At
<1> QED
  BY <1>1, <1>2, <1>3, <1>4, <1>5, <1>6, <1>7, <1>8 DEF Thread

LEMMA ThreadTypes == ASSUME TInv, NEW s \in Scripts, Thread(s) PROVE TInv'
<1>1. ThreadType' /\ DataType'
  BY ThreadTypeKept, DataTypeKept
<1>2. HasControl'
  BY Frame DEF TInv, HasControl
<1>3. group \in Seq(Controls) /\ Range(group) \subseteq Controls
  BY LenProperties DEF TInv, GroupType, Range
<1>4. active' \in Controls
  <2>1. CASE Choose(s)
    BY <2>1 DEF Choose, Hand
  <2>2. CASE Activate(s)
    BY <2>2 DEF Activate, TInv, HasControl, At
  <2>3. CASE Reselect(s)
    <3>1. CASE group # <<>>
      BY <1>3, <2>3, <3>1, Emptiness, FrontOf DEF Reselect, TInv, GroupType
    <3> QED BY <2>3, <3>1 DEF Reselect, TInv, GroupType
  <2> QED
    BY <2>1, <2>2, <2>3 DEF Thread, Execute, ResetFlags, Sleep, Signal, Install, Arm, Joined,
        Forget, Leave, Drop, PopLast, Gosub, Exit, Return, Fail, Judge, Finish, TInv, GroupType
<1> QED BY <1>1, <1>2, <1>4, GroupStep DEF TInv, GroupType

(* The timers and the operator                                             *)
LEMMA OtherFrame ==
    ASSUME UNCHANGED <<pc, level, mine, group, active>>
    PROVE  /\ (GroupType => GroupType') /\ (HasControl => HasControl')
           /\ \A s \in Scripts : Wait(s)' = Wait(s) /\ At(s)' = At(s)
  BY DEF GroupType, HasControl, Wait, At, Self

LEMMA NextTypes == TInv /\ [Next]_vars => TInv'
<1> SUFFICES ASSUME TInv, [Next]_vars PROVE TInv'
  OBVIOUS
<1> USE DEF TInv, stops
<1>1. ASSUME NEW s \in Scripts, Thread(s) PROVE TInv'
  BY <1>1, ThreadTypes
<1>2. ASSUME NEW c \in Controls, TimerThread(c) PROVE TInv'
  <2>1. ThreadType' /\ GroupType' /\ HasControl'
    BY <1>2, OtherFrame DEF TimerThread, TimerStarts, Elapse, ThreadType
  <2>2. CASE TimerStarts(c)
    BY <2>1, <2>2 DEF TimerStarts, DataType
  <2>3. CASE Elapse(c)
    BY <2>1, <2>3, EndTypes DEF Elapse, DataType
  <2> QED BY <1>2, <2>2, <2>3 DEF TimerThread
<1>3. ASSUME NEW a, Act(a), acts \in 0..MaxActs PROVE acts' \in 0..MaxActs
  BY <1>3, WaitsAssumption DEF Act
<1>4. acts \in 0..MaxActs
  BY DEF ThreadType
<1>5. ASSUME NEW s \in Scripts, Cancel(s) PROVE TInv'
  BY <1>3, <1>4, <1>5, OtherFrame, CancelTypes DEF Cancel, ThreadType, DataType
<1>6. ASSUME NEW s \in Scripts, Abort(s) PROVE TInv'
  BY <1>3, <1>4, <1>6, OtherFrame, AbortTypes DEF Abort, ThreadType, DataType
<1>7. CASE StopGroup
  BY <1>3, <1>4, <1>7, OtherFrame DEF StopGroup, ThreadType, DataType
<1>8. CASE Continue
  BY <1>3, <1>4, <1>8, OtherFrame, EndTypes DEF Continue, ThreadType, DataType
<1>9. CASE Pause
  BY <1>3, <1>4, <1>9, OtherFrame DEF Pause, ThreadType, DataType
<1>10. CASE StopNext
  <2>1. stopAt' \in Nat /\ awaited' \subseteq Scripts
    BY <1>10 DEF StopNext, ThreadType
  <2>2. /\ timer' \in [Controls -> [thread : {"none", "delay", "loop"}, flag : BOOLEAN]]
        /\ evt' \in [Scripts -> BOOLEAN]
    BY <1>10, EndTypes DEF StopNext, DataType
  <2> QED BY <1>10, <2>1, <2>2, OtherFrame DEF StopNext, ThreadType, DataType
<1>11. CASE UNCHANGED vars
  BY <1>11, OtherFrame DEF vars, ThreadType, DataType
<1> QED
  BY <1>1, <1>2, <1>5, <1>6, <1>7, <1>8, <1>9, <1>10, <1>11 DEF Next, Operator

(* The records are what they are said to be, and no control is twice in    *)
(* the group, for any number of scripts that put theirs in and take theirs *)
(* out at the same time.                                                   *)
THEOREM TypeCorrect == Spec => []TypeOK
  BY InitTypes, NextTypes, TInvTypeOK, PTL DEF Spec

----------------------------------------------------------------------------
(* The cancel.  It may meet the script or the one it called, in any step.  *)
(* The flag of the outer script is set by each of these cancels and stays  *)
(* set, and the script is not completed as long as its thread runs.        *)
Outer(s) == flags[<<s, 0>>]

CancelInv ==
    \A s \in Scripts :
        /\ hit[s] => Outer(s).cancel /\ ~Outer(s).done
        /\ Outer(s).done => pc[s] \in Ended
        /\ pc[s] = "judged" => ~hit[s] /\ level[s] = 0

(* What CancelInv is about                                                 *)
watched == <<pc, level, flags, hit>>

LEMMA InitCancel == Init => CancelInv
<1> SUFFICES ASSUME Init PROVE CancelInv
  OBVIOUS
<1>1. \A s \in Scripts : ~hit[s] /\ ~Outer(s).done /\ pc[s] = "idle"
  BY OuterNode DEF Init, Outer, Fresh
<1> QED BY <1>1 DEF CancelInv

(* A step that moves the thread of a script and leaves its flags.          *)
LEMMA MoveKeeps ==
    ASSUME TInv, CancelInv, NEW s \in Scripts, NEW label,
           pc[s] \in Ended => label \in Ended, label # "judged",
           pc' = [pc EXCEPT ![s] = label], UNCHANGED <<level, flags, hit>>
    PROVE  CancelInv'
<1>1. \A t \in Scripts : /\ pc[t] \in Ended => pc'[t] \in Ended
                         /\ pc'[t] = "judged" => pc[t] = "judged"
  BY DEF TInv, ThreadType
<1> QED BY <1>1 DEF CancelInv, Outer

(* A cancel of the script or of the one it called reaches the outer one.   *)
LEMMA CancelKeeps ==
    ASSUME TInv, CancelInv, NEW s \in Scripts, NEW l \in 0..level[s],
           CancelScript(<<s, l>>), UNCHANGED <<pc, level>>
    PROVE  CancelInv'
<1> DEFINE reached == {m \in Chain(s) : m = <<s, l>> \/ ~flags[m].cancel}
<1>1. /\ flags' = [m \in Nodes |-> IF m \in reached
                                   THEN [flags[m] EXCEPT !.cancel = TRUE] ELSE flags[m]]
      /\ hit' = [hit EXCEPT ![s] = @ \/ Undecided(s)]
  BY Zenon DEF CancelScript
<1>2. <<s, 0>> \in Chain(s)
  BY DEF Chain, TInv, ThreadType
<1>3. \A m \in Nodes : m \in reached \/ m \notin Chain(s) \/ flags[m].cancel
  OBVIOUS
<1> HIDE DEF reached
<1>4. \A m \in Nodes : flags'[m].done = flags[m].done /\ (flags[m].cancel => flags'[m].cancel)
  BY <1>1 DEF TInv, DataType
<1>5. Outer(s)'.cancel
  <2>1. <<s, 0>> \in Nodes /\ flags[<<s, 0>>] \in [cancel : BOOLEAN, abort : BOOLEAN, done : BOOLEAN]
    BY OuterNode DEF TInv, DataType
  <2>2. <<s, 0>> \in reached \/ flags[<<s, 0>>].cancel
    BY <1>2, <1>3, <2>1
  <2> QED BY <1>1, <2>1, <2>2 DEF Outer
<1>6. \A t \in Scripts : hit'[t] => hit[t] \/ (t = s /\ Undecided(s))
  BY <1>1 DEF TInv, ThreadType
<1>7. \A t \in Scripts : Outer(t)'.done = Outer(t).done /\ (Outer(t).cancel => Outer(t)'.cancel)
  BY <1>4, OuterNode DEF Outer
<1> QED
  BY <1>5, <1>6, <1>7 DEF CancelInv, Undecided

(* The thread of a script                                                  *)
LEMMA ThreadCancel == ASSUME TInv, CancelInv, NEW s \in Scripts, Thread(s) PROVE CancelInv'
<1>1. CASE Execute(s) BY <1>1, MoveKeeps DEF Execute, Ended
<1>2. CASE ResetFlags(s)
  <2>1. pc[s] = "boot" /\ pc' = [pc EXCEPT ![s] = "body"] /\ level' = level
    BY <1>2 DEF ResetFlags
  <2>2. flags' = [flags EXCEPT ![Self(s)] = [Fresh EXCEPT !.abort = flags[Self(s)].abort]]
    BY <1>2 DEF ResetFlags
  <2>3. hit' = IF level[s] = 0 THEN [hit EXCEPT ![s] = FALSE] ELSE hit
    BY <1>2 DEF ResetFlags
  <2>4. level[s] \in {0, 1} /\ Self(s) = <<s, level[s]>> /\ Self(s) \in Nodes
    BY SelfNode DEF Self
  <2>5. \A t \in Scripts : t # s => Outer(t)' = Outer(t) /\ hit'[t] = hit[t] /\ pc'[t] = pc[t]
    BY <2>1, <2>2, <2>3, <2>4, OuterNode DEF Outer, TInv, ThreadType, DataType
  <2>6. level' = level /\ pc'[s] = "body"
    BY <2>1 DEF TInv, ThreadType
  <2>7. ~Outer(s).done
    BY <2>1 DEF CancelInv, Ended
  <2>8. CASE level[s] = 0
    <3>1. ~hit'[s] /\ ~Outer(s)'.done
      BY <2>2, <2>3, <2>4, <2>8, OuterNode DEF Outer, TInv, ThreadType, DataType, Fresh
    <3> QED BY <2>5, <2>6, <3>1 DEF CancelInv
  <2>9. CASE level[s] = 1
    <3>1. Outer(s)' = Outer(s) /\ hit'[s] = hit[s]
      BY <2>2, <2>3, <2>4, <2>9, OuterNode DEF Outer, TInv, DataType
    <3> QED BY <2>5, <2>7, <2>6, <3>1 DEF CancelInv
  <2> QED BY <2>4, <2>8, <2>9
<1>3. CASE Sleep(s) BY <1>3, MoveKeeps DEF Sleep, Ended
<1>4. CASE Choose(s)
  <2>1. PICK c \in Controls : Hand(s, c)
    BY <1>4, Zenon DEF Choose
  <2> QED BY <1>4, <2>1, MoveKeeps DEF Choose, Hand, Ended
<1>5. CASE Activate(s) BY <1>5, MoveKeeps DEF Activate, Ended
<1>6. CASE Signal(s) BY <1>6, MoveKeeps DEF Signal, Ended
<1>7. CASE Install(s) BY <1>7, MoveKeeps DEF Install, Ended
<1>8. CASE Arm(s) BY <1>8, MoveKeeps DEF Arm, Ended
<1>9. CASE Joined(s) BY <1>9, MoveKeeps DEF Joined, Ended
<1>10. CASE Forget(s) BY <1>10, MoveKeeps DEF Forget, Ended
<1>11. CASE Leave(s) BY <1>11, MoveKeeps DEF Leave, Ended
<1>12. CASE Drop(s) BY <1>12, MoveKeeps DEF Drop, Ended
<1>13. CASE PopLast(s) BY <1>13, MoveKeeps DEF PopLast, Ended
<1>14. CASE Reselect(s)
  <2>1. PICK label : /\ pc' = [pc EXCEPT ![s] = label] /\ UNCHANGED <<level, flags, hit>>
                     /\ pc[s] = "last" \/ label = "over"
                     /\ label # "judged"
    BY <1>14 DEF Reselect, TInv, ThreadType
  <2> QED BY <1>14, <2>1, MoveKeeps DEF Reselect, Ended
<1>15. CASE Gosub(s)
  <2>1. /\ pc[s] = "body" /\ pc' = [pc EXCEPT ![s] = "boot"]
        /\ level' = [level EXCEPT ![s] = 1] /\ hit' = hit
        /\ flags' = [flags EXCEPT ![<<s, 1>>] = Fresh]
    BY <1>15 DEF Gosub
  <2>2. \A t \in Scripts : Outer(t)' = Outer(t) /\ (pc[t] \in Ended => pc'[t] \in Ended)
    BY <2>1, OuterNode DEF Outer, TInv, ThreadType, DataType, Ended
  <2> QED BY <2>1, <2>2 DEF CancelInv
<1>16. CASE Exit(s)
  <2>1. level[s] \in 0..level[s] /\ CancelScript(<<s, level[s]>>) /\ UNCHANGED <<pc, level>>
    BY <1>16, SelfNode DEF Exit, Self
  <2> QED BY <2>1, CancelKeeps
<1>17. CASE Return(s)
  <2>1. /\ pc[s] \in {"body", "raised"} /\ pc' = [pc EXCEPT ![s] = "body"]
        /\ level' = [level EXCEPT ![s] = 0] /\ hit' = hit
        /\ flags' = [flags EXCEPT ![<<s, 1>>] = Fresh]
    BY <1>17 DEF Return
  <2>2. \A t \in Scripts : /\ Outer(t)' = Outer(t) /\ (pc[t] \in Ended => pc'[t] \in Ended)
                           /\ pc'[t] = "judged" => pc[t] = "judged" /\ level'[t] = level[t]
    BY <2>1, OuterNode DEF Outer, TInv, ThreadType, DataType, Ended
  <2> QED BY <2>1, <2>2 DEF CancelInv
<1>18. CASE Fail(s) BY <1>18, MoveKeeps DEF Fail, Ended
<1>19. CASE Judge(s)
  <2>1. /\ pc[s] = "body" /\ level[s] = 0 /\ ~Outer(s).cancel
        /\ pc' = [pc EXCEPT ![s] = "judged"] /\ UNCHANGED <<level, flags, hit>>
    BY <1>19 DEF Judge, Self, Outer
  <2>2. ~hit[s] /\ ~Outer(s).done
    BY <2>1 DEF CancelInv, Ended
  <2> QED BY <2>1, <2>2 DEF CancelInv, Outer, TInv, ThreadType
<1>20. CASE Finish(s)
  <2>1. /\ pc[s] = "judged" /\ pc' = [pc EXCEPT ![s] = "done"] /\ UNCHANGED <<level, hit>>
        /\ flags' = [flags EXCEPT ![Self(s)].done = TRUE]
    BY <1>20 DEF Finish
  <2>2. ~hit[s] /\ Self(s) = <<s, 0>>
    BY <2>1 DEF CancelInv, Self
  <2>3. \A t \in Scripts \ {s} : Outer(t)' = Outer(t) /\ pc'[t] = pc[t]
    BY <2>1, <2>2, OuterNode DEF Outer, TInv, ThreadType, DataType
  <2>4. pc'[s] = "done" /\ ~hit'[s]
    BY <2>1, <2>2 DEF TInv, ThreadType
  <2> QED BY <2>1, <2>3, <2>4 DEF CancelInv, Ended
<1> QED
  BY <1>1, <1>2, <1>3, <1>4, <1>5, <1>6, <1>7, <1>8, <1>9, <1>10, <1>11, <1>12, <1>13,
     <1>14, <1>15, <1>16, <1>17, <1>18, <1>19, <1>20 DEF Thread

(* An abort does not touch what the invariant is about.                    *)
LEMMA AbortKeeps ==
    ASSUME TInv, CancelInv, NEW s \in Scripts, AbortScript(<<s, 0>>),
           UNCHANGED <<pc, level, hit>>
    PROVE  CancelInv'
<1> DEFINE reached == {m \in Chain(s) : m = <<s, 0>> \/ ~flags[m].abort}
<1>1. flags' = [m \in Nodes |-> IF m \in reached
                                THEN [flags[m] EXCEPT !.abort = TRUE] ELSE flags[m]]
  BY Zenon DEF AbortScript
<1> HIDE DEF reached
<1>2. \A m \in Nodes : flags'[m].cancel = flags[m].cancel /\ flags'[m].done = flags[m].done
  BY <1>1 DEF TInv, DataType
<1> QED BY <1>2, OuterNode DEF CancelInv, Outer

LEMMA NextCancel == TInv /\ CancelInv /\ [Next]_vars => CancelInv'
<1> SUFFICES ASSUME TInv, CancelInv, [Next]_vars PROVE CancelInv'
  OBVIOUS
<1>1. ASSUME UNCHANGED watched PROVE CancelInv'
  BY <1>1 DEF CancelInv, Outer, watched
<1>2. ASSUME NEW s \in Scripts, Thread(s) PROVE CancelInv'
  BY <1>2, ThreadCancel
<1>3. ASSUME NEW c \in Controls, TimerThread(c) PROVE CancelInv'
  BY <1>1, <1>3 DEF TimerThread, TimerStarts, Elapse, watched
<1>4. ASSUME NEW s \in Scripts, Cancel(s) PROVE CancelInv'
  <2>1. 0 \in 0..level[s]
    BY DEF TInv, ThreadType
  <2> QED BY <1>4, <2>1, CancelKeeps DEF Cancel
<1>5. ASSUME NEW s \in Scripts, Abort(s) PROVE CancelInv'
  BY <1>5, AbortKeeps DEF Abort
<1>6. CASE StopGroup \/ StopNext \/ Continue \/ Pause
  BY <1>1, <1>6 DEF StopGroup, StopNext, Continue, Pause, watched
<1>7. CASE UNCHANGED vars
  BY <1>1, <1>7 DEF vars, watched
<1> QED
  BY <1>2, <1>3, <1>4, <1>5, <1>6, <1>7 DEF Next, Operator

(* A script that was canceled since it began, by the operator, by itself   *)
(* or in the script it called, is never a completed one.                   *)
THEOREM CanceledNeverDone == Spec => []CanceledIncomplete
<1>1. CancelInv => CanceledIncomplete BY DEF CancelInv, CanceledIncomplete, Outer
<1> QED BY <1>1, InitTypes, NextTypes, InitCancel, NextCancel, PTL DEF Spec

----------------------------------------------------------------------------
(* The waits.  Unless a script was given the control of another, no two    *)
(* are at one control, a control has the event of its script from the      *)
(* moment it was put there until the join returns, and its timer runs      *)
(* until the event is set; unless moreover the end of a run took one out,  *)
(* each script is at a control of the group.                               *)
Alone == \A s, t \in Scripts : At(s) /\ At(t) /\ Wait(s) = Wait(t) => s = t

Told == \A s \in Scripts : pc[s] \in {"settle", "join"} => endEvt[Wait(s)] = s

Woken == \A s \in Scripts : pc[s] = "join" /\ ~evt[s] => IsActive(Wait(s))

Held == \A s \in Scripts : At(s) => InGroup(Wait(s))

WaitInv ==
    /\ "shared" \notin races => Alone /\ Told /\ Woken
    /\ races \cap {"shared", "popped"} = {} => Held

(* A stop of the group.  Who is awaited stays joined until he is told, and *)
(* unless a control was given twice, taken out under its script or skipped *)
(* the stop has told him or has yet to come to the place of his control.   *)
Joining == \A s \in awaited : pc[s] = "join"

Reached ==
    \A s \in awaited :
        evt[s] \/ (stopAt # 0 /\ \E i \in stopAt..Len(group) : group[i] = Wait(s))

StopInv == Joining /\ (races \cap {"shared", "popped", "skipped"} = {} => Reached)

(* The group.  Unless two pops meet, one thread at most is about to take a *)
(* control out, and then there are two; unless threads met at all, the     *)
(* active control is one of the group or is about to be set.               *)
Single ==
    /\ Len(group) > 0
    /\ \A s, t \in Scripts : pc[s] \in Removing /\ pc[t] \in Removing => s = t
    /\ \A s \in Scripts : pc[s] \in Removing => Len(group) > 1

Shown == InGroup(active) \/ \E s \in Scripts : pc[s] \in {"last", "select"}

GroupInv ==
    /\ "twice" \notin races => Single
    /\ races = {} => Shown

(* The history of the races only grows.                                    *)
LEMMA RacesGrow == ASSUME [Next]_vars PROVE races \subseteq races'
<1>1. ASSUME NEW s \in Scripts, Thread(s) PROVE races \subseteq races'
  <2>1. CASE Choose(s)
    <3>1. PICK c \in Controls : Hand(s, c)
      BY <2>1, Zenon DEF Choose
    <3> QED BY <3>1 DEF Hand
  <2>2. CASE Leave(s) BY <2>2 DEF Leave
  <2>3. CASE Drop(s) \/ PopLast(s) BY <2>3 DEF Drop, PopLast
  <2> QED
    BY <1>1, <2>1, <2>2, <2>3 DEF Thread, Execute, ResetFlags, Sleep, Activate, Signal, Install,
       Arm, Joined, Forget, Reselect, Gosub, Exit, Return, Fail, Judge, Finish
<1>2. ASSUME NEW c \in Controls, TimerThread(c) PROVE races \subseteq races'
  BY <1>2 DEF TimerThread, TimerStarts, Elapse
<1>3. CASE Operator
  BY <1>3 DEF Operator, Cancel, Abort, StopGroup, Continue, Pause
<1>4. CASE StopNext
  BY <1>4 DEF StopNext
<1> QED
  BY <1>1, <1>2, <1>3, <1>4 DEF Next, vars

LEMMA InitWaits == Init => WaitInv /\ StopInv /\ GroupInv
<1> SUFFICES ASSUME Init PROVE WaitInv /\ StopInv /\ GroupInv
  OBVIOUS
<1>1. \A s \in Scripts : pc[s] = "idle"
  BY DEF Init
<1>2. Len(group) > 0 /\ InGroup(active)
  <2>1. group = <<1>> /\ active = 1
    BY DEF Init
  <2> QED BY <2>1 DEF InGroup, Range
<1>3. awaited = {}
  BY DEF Init
<1> QED
  BY <1>1, <1>2, <1>3 DEF WaitInv, StopInv, Joining, Reached, GroupInv, Alone, Told, Woken, Held, Single, Shown, At, Removing

(* A control that was given without the race is nobody else's.             *)
LEMMA GivenFree ==
    ASSUME NEW s \in Scripts, NEW c \in Controls, Hand(s, c), "shared" \notin races'
    PROVE  \A t \in Scripts \ {s} : At(t) => Wait(t) # c
  BY DEF Hand

LEMMA ThreadAlone ==
    ASSUME TInv, Alone, NEW s \in Scripts, Thread(s), "shared" \notin races'
    PROVE  Alone'
<1> SUFFICES ASSUME NEW t \in Scripts \ {s}, At(t)', At(s)', Wait(t)' = Wait(s)' PROVE FALSE
  BY Frame DEF Alone
<1>1. At(t) /\ Wait(t)' = Wait(t)
  BY Frame
<1>2. CASE At(s) /\ Wait(s)' = Wait(s)
  BY <1>1, <1>2 DEF Alone
<1>3. ASSUME NEW c \in Controls, Hand(s, c), Wait(s)' = c PROVE FALSE
  BY <1>1, <1>3, GivenFree
<1> QED BY <1>2, <1>3, Frame

LEMMA ThreadHeld ==
    ASSUME TInv, Alone, Held, NEW s \in Scripts, Thread(s),
           races' \cap {"shared", "popped"} = {}
    PROVE  Held'
<1>1. ASSUME NEW t \in Scripts, At(t)', At(t), Wait(t)' = Wait(t) PROVE InGroup(Wait(t))'
  <2>1. Wait(t) \in Range(group)
    BY <1>1 DEF Held, InGroup
  <2>2. Wait(t) \in Range(group')
    <3>1. CASE Drop(s)
      <4>1. pc[s] = "drop" /\ pc' = [pc EXCEPT ![s] = "last"] /\ group' = RemoveFirst(group, Wait(s))
        BY <3>1 DEF Drop
      <4>2. s # t /\ At(s)
        BY <1>1, <4>1 DEF At, TInv, ThreadType
      <4>3. Wait(t) # Wait(s)
        BY <1>1, <4>2 DEF Alone
      <4>4. Range(group') = Range(group) \ {Wait(s)}
        BY <4>1, RemoveFirstOf DEF TInv, GroupType
      <4> QED BY <2>1, <4>3, <4>4
    <3>2. CASE PopLast(s) /\ Len(group) > 0 /\ Range(group') = Range(group) \ {Last(group)}
      <4>1. group # <<>>
        BY <3>2, Emptiness DEF TInv, GroupType
      <4>2. ~(At(t) /\ group # <<>> /\ Wait(t) = Last(group))
        BY <3>2 DEF PopLast
      <4> QED BY <1>1, <2>1, <3>2, <4>1, <4>2
    <3> QED BY <2>1, <3>1, <3>2, GroupStep
  <2> QED BY <1>1, <2>2 DEF InGroup
<1>2. ASSUME NEW c \in Controls, Hand(s, c), Wait(s)' = c PROVE InGroup(Wait(s))'
  <2>1. pc'[s] = "placed" /\ active' = c
    BY <1>2 DEF Hand, TInv, ThreadType
  <2>2. Choose(s) \/ (At(s) /\ Wait(s)' = Wait(s))
    <3>1. CASE PopLast(s) \/ Reselect(s) \/ Gosub(s) \/ Return(s) \/ Fail(s) \/ Judge(s) \/ Finish(s) \/ Exit(s) \/ Sleep(s)
                \/ Execute(s) \/ ResetFlags(s)
      BY <2>1, <3>1 DEF PopLast, Reselect, Gosub, Return, Fail, Judge, Finish, Exit, Sleep, Execute, ResetFlags,
         TInv, ThreadType
    <3>2. CASE Activate(s) \/ Signal(s) \/ Install(s) \/ Arm(s) \/ Joined(s) \/ Forget(s)
                \/ Leave(s) \/ Drop(s)
      BY <2>1, <3>2 DEF Activate, Signal, Install, Arm, Joined, Forget, Leave, Drop,
         TInv, ThreadType
    <3> QED BY <3>1, <3>2 DEF Thread
  <2>3. CASE Choose(s)
    <3>1. PICK d \in Controls : Hand(s, d) /\ group' = IF InGroup(d) THEN group ELSE Append(group, d)
      BY <2>3, Zenon DEF Choose
    <3>2. d = c
      BY <2>1, <3>1 DEF Hand
    <3>3. c \in Range(group')
      BY <3>1, <3>2, ChooseGroup
    <3> QED BY <1>2, <3>3 DEF InGroup
  <2>4. CASE At(s) /\ Wait(s)' = Wait(s)
    BY <1>1, <2>1, <2>4 DEF At
  <2> QED BY <2>2, <2>3, <2>4
<1>3. ASSUME NEW t \in Scripts, At(t)' PROVE InGroup(Wait(t))'
  BY <1>1, <1>2, <1>3, Frame
<1> QED BY <1>3 DEF Held

LEMMA ThreadTold ==
    ASSUME TInv, Alone, Told, NEW s \in Scripts, Thread(s)
    PROVE  Told'
<1>1. ASSUME NEW t \in Scripts \ {s}, pc'[t] \in {"settle", "join"} PROVE endEvt'[Wait(t)'] = t
  <2>1. /\ pc[t] \in {"settle", "join"} /\ Wait(t)' = Wait(t) /\ At(t)
    BY <1>1, Frame DEF At
  <2>2. endEvt[Wait(t)] = t
    BY <2>1 DEF Told
  <2>3. CASE Choose(s)
    <3>1. PICK c \in Controls : Given(c) /\ Hand(s, c)
      BY <2>3, Zenon DEF Choose
    <3>2. endEvt' = endEvt \/ (endEvt' = [endEvt EXCEPT ![c] = NoScript] /\ c # active)
      BY <3>1 DEF Hand
    <3>3. c # active => Wait(t) # c
      BY <3>1, SelfNode DEF Given, Unused, Wait
    <3>4. Wait(t) \in Controls
      BY <2>1 DEF TInv, HasControl
    <3> QED BY <2>1, <2>2, <3>2, <3>3, <3>4 DEF TInv, DataType
  <2>4. CASE Install(s) \/ Forget(s)
    <3>1. At(s)
      BY <2>4 DEF Install, Forget, At
    <3>2. Wait(t) # Wait(s)
      BY <2>1, <3>1 DEF Alone
    <3>3. PICK e : endEvt' = [endEvt EXCEPT ![Wait(s)] = e]
      BY <2>4 DEF Install, Forget
    <3>4. endEvt'[Wait(t)] = endEvt[Wait(t)]
      <4>1. Wait(t) \in Controls /\ DOMAIN endEvt = Controls
        BY <2>1 DEF TInv, DataType, HasControl
      <4> QED BY <3>2, <3>3, <4>1
    <3> QED BY <2>1, <2>2, <3>4
  <2>5. endEvt' = endEvt \/ Choose(s) \/ Install(s) \/ Forget(s)
    BY DEF Thread, Execute, ResetFlags, Sleep, Activate, Signal, Arm, Joined,
       Leave, Drop, PopLast, Reselect, Gosub, Exit, Return, Fail, Judge, Finish
  <2> QED BY <2>1, <2>2, <2>3, <2>4, <2>5
<1>2. ASSUME pc'[s] \in {"settle", "join"} PROVE endEvt'[Wait(s)'] = s
  <2>1. Install(s) \/ Arm(s) \/ (Joined(s) /\ FALSE)
    <3>1. CASE PopLast(s) \/ Reselect(s) \/ Gosub(s) \/ Return(s) \/ Fail(s) \/ Judge(s) \/ Finish(s) \/ Exit(s) \/ Sleep(s)
                \/ Execute(s) \/ ResetFlags(s)
      BY <1>2, <3>1 DEF PopLast, Reselect, Gosub, Return, Fail, Judge, Finish, Exit, Sleep, Execute, ResetFlags,
         TInv, ThreadType
    <3>2. CASE Activate(s) \/ Signal(s) \/ Joined(s) \/ Forget(s) \/ Leave(s) \/ Drop(s)
      BY <1>2, <3>2 DEF Activate, Signal, Joined, Forget, Leave, Drop, TInv, ThreadType
    <3>3. CASE Choose(s)
      <4>1. PICK c \in Controls : Hand(s, c)
        BY <3>3, Zenon DEF Choose
      <4> QED BY <1>2, <4>1 DEF Hand, TInv, ThreadType
    <3> QED BY <3>1, <3>2, <3>3 DEF Thread
  <2>2. CASE Install(s)
    <3>1. Wait(s) \in Controls /\ Wait(s)' = Wait(s)
      BY <2>2 DEF Install, TInv, HasControl, At, Wait, Self
    <3> QED BY <2>2, <3>1 DEF Install, TInv, DataType
  <2>3. CASE Arm(s)
    <3>1. endEvt[Wait(s)] = s /\ Wait(s)' = Wait(s)
      BY <2>3 DEF Arm, Told, Wait, Self
    <3> QED BY <2>3, <3>1 DEF Arm
  <2> QED BY <2>1, <2>2, <2>3
<1> QED BY <1>1, <1>2 DEF Told

(* A script that others stop, or that others pass, is still woken.         *)
LEMMA EndWoken ==
    ASSUME TInv, Told, Woken, NEW cs, End(cs), UNCHANGED <<pc, level, mine>>
    PROVE  Woken'
<1> SUFFICES ASSUME NEW s \in Scripts, pc[s] = "join", ~evt'[s] PROVE IsActive(Wait(s))'
  BY DEF Woken
<1>1. Wait(s)' = Wait(s) /\ Wait(s) \in Controls
  BY DEF TInv, HasControl, At, Wait, Self
<1>2. endEvt[Wait(s)] = s
  BY DEF Told
<1>3. evt' = [t \in Scripts |-> evt[t] \/ \E c \in cs : endEvt[c] = t]
  BY DEF End
<1>4. ~evt[s] /\ Wait(s) \notin cs
  BY <1>2, <1>3
<1>5. timer' = [c \in Controls |->
                    IF c \in cs /\ timer[c].thread # "none"
                    THEN [timer[c] EXCEPT !.flag = TRUE] ELSE timer[c]]
  BY DEF End
<1>6. timer'[Wait(s)] = timer[Wait(s)]
  BY <1>1, <1>4, <1>5
<1>7. IsActive(Wait(s))
  BY <1>4 DEF Woken
<1> QED BY <1>1, <1>6, <1>7 DEF IsActive

(* A thread takes back no event but its own.                               *)
LEMMA EvtKept ==
    ASSUME TInv, NEW s \in Scripts, Thread(s), NEW t \in Scripts \ {s}, evt[t]
    PROVE  evt'[t]
<1>1. CASE Signal(s) BY <1>1 DEF Signal
<1>2. CASE Install(s) BY <1>2 DEF Install, TInv, DataType
<1>3. CASE Choose(s)
  <2>1. PICK c \in Controls : Hand(s, c)
    BY <1>3, Zenon DEF Choose
  <2> QED BY <2>1 DEF Hand
<1>4. CASE Exit(s)
  <2>1. PICK cs : End(cs)
    BY <1>4, Zenon DEF Exit, CancelScript
  <2> QED BY <2>1 DEF End
<1> QED
  BY <1>1, <1>2, <1>3, <1>4 DEF Thread, Execute, ResetFlags, Sleep, Activate, Arm, Joined,
     Forget, Leave, Drop, PopLast, Reselect, Gosub, Return, Fail, Judge, Finish

LEMMA ThreadWoken ==
    ASSUME TInv, Alone, Told, Woken, NEW s \in Scripts, Thread(s)
    PROVE  Woken'
<1>1. CASE Exit(s)
  <2>1. PICK cs : End(cs)
    BY <1>1, Zenon DEF Exit, CancelScript
  <2>2. UNCHANGED <<pc, level, mine>>
    BY <1>1 DEF Exit
  <2> QED BY <2>1, <2>2, EndWoken
<1>2. ASSUME ~Exit(s), NEW t \in Scripts \ {s}, pc'[t] = "join", ~evt'[t]
      PROVE  IsActive(Wait(t))'
  <2>1. pc[t] = "join" /\ Wait(t)' = Wait(t) /\ At(t) /\ Wait(t) \in Controls
    BY <1>2, Frame DEF At, TInv, HasControl
  <2>2. evt[t] => evt'[t]
    BY EvtKept
  <2>3. IsActive(Wait(t))
    BY <1>2, <2>1, <2>2 DEF Woken
  <2>4. timer'[Wait(t)] = timer[Wait(t)]
    <3>1. CASE Choose(s)
      <4>1. PICK c \in Controls : Given(c) /\ Hand(s, c)
        BY <3>1, Zenon DEF Choose
      <4>2. timer' = timer \/ (timer' = [timer EXCEPT ![c] = NoTimer] /\ c # active)
        BY <4>1 DEF Hand
      <4>3. c # active => c \in Unused
        BY <4>1 DEF Given
      <4>4. \A n \in Nodes : c \in Unused => mine[n] # c
        BY DEF Unused
      <4>5. c # active => Wait(t) # c
        BY <4>3, <4>4, SelfNode DEF Wait
      <4> QED BY <2>1, <4>2, <4>5 DEF TInv, DataType
    <3>2. CASE Install(s) \/ Arm(s)
      <4>1. At(s)
        BY <3>2 DEF Install, Arm, At
      <4>2. Wait(t) # Wait(s)
        BY <2>1, <4>1 DEF Alone
      <4>3. PICK x : timer' = [timer EXCEPT ![Wait(s)] = x]
        <5>1. CASE Arm(s)
          BY <5>1 DEF Arm
        <5>2. CASE Install(s)
          <6>1. timer' = [timer EXCEPT ![Wait(s)] =
                             [timer[Wait(s)] EXCEPT !.flag = @ \/ timer[Wait(s)].thread # "none"]]
            BY <5>2 DEF Install
          <6> QED BY <6>1
        <5> QED BY <3>2, <5>1, <5>2
      <4>4. DOMAIN timer = Controls
        BY DEF TInv, DataType
      <4> QED BY <2>1, <4>2, <4>3, <4>4
    <3> QED
      BY <1>2, <3>1, <3>2 DEF Thread, Execute, ResetFlags, Sleep, Activate, Signal, Joined,
         Forget, Leave, Drop, PopLast, Reselect, Gosub, Return, Fail, Judge, Finish
  <2> QED BY <2>1, <2>3, <2>4 DEF IsActive
<1>3. ASSUME ~Exit(s), pc'[s] = "join" PROVE IsActive(Wait(s))'
  <2>1. Arm(s)
    <3>1. CASE PopLast(s) \/ Reselect(s) \/ Gosub(s) \/ Return(s) \/ Fail(s) \/ Judge(s) \/ Finish(s) \/ Sleep(s)
                \/ Execute(s) \/ ResetFlags(s)
      BY <1>3, <3>1 DEF PopLast, Reselect, Gosub, Return, Fail, Judge, Finish, Sleep, Execute, ResetFlags,
         TInv, ThreadType
    <3>2. CASE Activate(s) \/ Signal(s) \/ Install(s) \/ Joined(s) \/ Forget(s) \/ Leave(s)
                \/ Drop(s)
      BY <1>3, <3>2 DEF Activate, Signal, Install, Joined, Forget, Leave, Drop, TInv, ThreadType
    <3>3. CASE Choose(s)
      <4>1. PICK c \in Controls : Hand(s, c)
        BY <3>3, Zenon DEF Choose
      <4> QED BY <1>3, <4>1 DEF Hand, TInv, ThreadType
    <3> QED BY <1>3, <3>1, <3>2, <3>3 DEF Thread
  <2>2. Wait(s) \in Controls /\ Wait(s)' = Wait(s)
    BY <2>1 DEF Arm, TInv, HasControl, At, Wait, Self
  <2>3. timer'[Wait(s)] = NewTimer
    BY <2>1, <2>2 DEF Arm, TInv, DataType
  <2> QED BY <2>2, <2>3 DEF IsActive, NewTimer
<1> QED BY <1>1, <1>2, <1>3 DEF Woken

LEMMA NextWaits == TInv /\ WaitInv /\ [Next]_vars => WaitInv'
<1> SUFFICES ASSUME TInv, WaitInv, [Next]_vars PROVE WaitInv'
  OBVIOUS
<1>1. ASSUME NEW s \in Scripts, Thread(s) PROVE WaitInv'
  <2>1. races \subseteq races'
    BY RacesGrow
  <2>2. "shared" \notin races' => Alone /\ Told /\ Woken
    BY <2>1 DEF WaitInv
  <2>3. "shared" \notin races' => Alone' /\ Told' /\ Woken'
    BY <1>1, <2>2, ThreadAlone, ThreadTold, ThreadWoken
  <2>4. races' \cap {"shared", "popped"} = {} => Alone /\ Held
    BY <2>1 DEF WaitInv
  <2>5. races' \cap {"shared", "popped"} = {} => Held'
    BY <1>1, <2>4, ThreadHeld
  <2> QED BY <2>3, <2>5 DEF WaitInv
<1>2. ASSUME UNCHANGED <<pc, level, mine, group, endEvt, races>>,
             "shared" \notin races => Woken'
      PROVE  WaitInv'
  <2>1. /\ \A s \in Scripts : Wait(s)' = Wait(s) /\ At(s)' = At(s)
        /\ \A c : InGroup(c)' = InGroup(c)
    BY <1>2 DEF Wait, At, Self, InGroup
  <2> QED BY <1>2, <2>1 DEF WaitInv, Alone, Told, Held, InGroup
<1>3. ASSUME NEW cs, End(cs), UNCHANGED <<pc, level, mine, group, endEvt, races>> PROVE WaitInv'
  <2>1. "shared" \notin races => Woken'
    BY <1>3, EndWoken DEF WaitInv
  <2> QED BY <1>2, <1>3, <2>1
<1>4. ASSUME UNCHANGED <<pc, level, mine, group, endEvt, races, timer, evt>> PROVE WaitInv'
  <2>1. Woken => Woken'
    BY <1>4 DEF Woken, IsActive, Wait, Self
  <2> QED BY <1>2, <1>4, <2>1 DEF WaitInv
<1>5. ASSUME NEW c \in Controls, TimerStarts(c) PROVE WaitInv'
  <2>1. timer' = [timer EXCEPT ![c] = [thread |-> "loop", flag |-> FALSE]]
        /\ UNCHANGED <<pc, level, mine, group, endEvt, races, evt>>
    BY <1>5 DEF TimerStarts
  <2>2. \A d : IsActive(d) => IsActive(d)'
    BY <2>1 DEF IsActive, TInv, DataType
  <2>3. Woken => Woken'
    BY <2>1, <2>2 DEF Woken, Wait, Self, IsActive
  <2> QED BY <1>2, <2>1, <2>3 DEF WaitInv
<1>6. ASSUME NEW c \in Controls, Elapse(c) PROVE WaitInv'
  BY <1>3, <1>6 DEF Elapse
<1>7. ASSUME NEW s \in Scripts, Cancel(s) PROVE WaitInv'
  <2>1. PICK cs : End(cs)
    BY <1>7, Zenon DEF Cancel, CancelScript
  <2> QED BY <1>3, <1>7, <2>1 DEF Cancel
<1>8. ASSUME NEW s \in Scripts, Abort(s) PROVE WaitInv'
  <2>1. PICK cs : End(cs)
    BY <1>8, Zenon DEF Abort, AbortScript
  <2> QED BY <1>3, <1>8, <2>1 DEF Abort
<1>9. CASE Continue
  BY <1>3, <1>9 DEF Continue
<1>10. CASE StopGroup \/ Pause \/ UNCHANGED vars
  BY <1>4, <1>10 DEF StopGroup, Pause, vars
<1>11. CASE StopNext
  BY <1>3, <1>4, <1>11 DEF StopNext
<1> QED
  BY <1>1, <1>5, <1>6, <1>7, <1>8, <1>9, <1>10, <1>11 DEF Next, TimerThread, Operator

(* While a stop goes through the group, the scripts put controls in at the *)
(* end of the list, which moves nobody, and take theirs out of it, which   *)
(* moves those behind one ahead.                                           *)
LEMMA ThreadJoining == ASSUME TInv, Joining, NEW s \in Scripts, Thread(s) PROVE Joining'
<1>1. CASE Joined(s)
  BY <1>1, Frame DEF Joined, Joining, TInv, ThreadType
<1>2. CASE pc[s] # "join" /\ awaited' = awaited
  BY <1>2, Frame DEF Joining, TInv, ThreadType
<1>3. CASE Choose(s)
  <2>1. PICK c \in Controls : Hand(s, c)
    BY <1>3, Zenon DEF Choose
  <2> QED BY <1>2, <1>3, <2>1 DEF Choose, Hand, stops
<1> QED
  BY <1>1, <1>2, <1>3 DEF stops, Thread, Execute, ResetFlags, Sleep, Activate, Signal, Install,
     Arm, Forget, Leave, Drop, PopLast, Reselect, Gosub, Exit, Return, Fail, Judge, Finish

LEMMA ThreadReached ==
    ASSUME TInv, Alone, Joining, Reached, NEW s \in Scripts, Thread(s),
           races' \cap {"shared", "popped", "skipped"} = {}
    PROVE  Reached'
<1> SUFFICES ASSUME NEW t \in awaited', ~evt'[t]
             PROVE  stopAt' # 0 /\ \E j \in stopAt'..Len(group') : group'[j] = Wait(t)'
  BY DEF Reached
<1>0. Len(group) \in Nat /\ stopAt \in Nat /\ group \in Seq(Controls) /\ IsInjective(group)
  BY LenProperties DEF TInv, GroupType, ThreadType
<1>1. stopAt' = stopAt /\ t \in awaited /\ t # s
  <2>1. CASE Joined(s)
    BY <2>1 DEF Joined
  <2>2. CASE pc[s] # "join" /\ UNCHANGED stops
    BY <2>2 DEF Joining, stops
  <2>3. CASE Choose(s)
    <3>1. PICK c \in Controls : Hand(s, c)
      BY <2>3, Zenon DEF Choose
    <3> QED BY <2>2, <2>3, <3>1 DEF Choose, Hand
  <2> QED
    BY <2>1, <2>2, <2>3 DEF Thread, Execute, ResetFlags, Sleep, Activate, Signal, Install,
       Arm, Forget, Leave, Drop, PopLast, Reselect, Gosub, Exit, Return, Fail, Judge, Finish
<1>2. t \in Scripts \ {s} /\ At(t) /\ Wait(t)' = Wait(t)
  <2>1. t \in Scripts /\ pc[t] = "join"
    BY <1>1 DEF Joining, TInv, ThreadType
  <2> QED BY <1>1, <2>1, Frame DEF At
<1>3. PICK i \in stopAt..Len(group) : group[i] = Wait(t) /\ stopAt # 0
  <2>1. ~evt[t]
    BY <1>2, EvtKept
  <2> QED BY <1>1, <2>1 DEF Reached
<1>4. i \in 1..Len(group)
  BY <1>0, <1>3
<1>5. CASE group' = group
  BY <1>1, <1>2, <1>3, <1>5
<1>6. CASE Choose(s)
  <2>1. PICK c \in Controls : group' = IF InGroup(c) THEN group ELSE Append(group, c)
    BY <1>6, Zenon DEF Choose
  <2>2. group'[i] = group[i] /\ Len(group') >= Len(group) /\ group' \in Seq(Controls)
    BY <1>4, <2>1, ChooseGroup
  <2>3. Len(group') \in Nat
    BY <2>2, LenProperties
  <2>4. i \in stopAt..Len(group')
    BY <1>0, <1>3, <2>2, <2>3
  <2> QED BY <1>1, <1>2, <1>3, <2>2, <2>4
<1>7. CASE Drop(s)
  <2>1. At(s) /\ group' = RemoveFirst(group, Wait(s))
    BY <1>7 DEF Drop, At
  <2>2. Wait(t) # Wait(s)
    BY <1>2, <2>1 DEF Alone
  <2>3. PICK j \in 1..Len(group') :
          /\ group'[j] = group[i]
          /\ j = i \/ (j = i - 1 /\ \E k \in 1..Len(group) : k < i /\ group[k] = Wait(s))
    BY <1>0, <1>3, <1>4, <2>1, <2>2, RemoveFirstAt
  <2>4. j >= stopAt
    <3>1. ASSUME i = stopAt, NEW k \in 1..Len(group), k < i, group[k] = Wait(s) PROVE FALSE
      <4>1. Slips(s)
        BY <1>1, <1>3, <1>4, <3>1 DEF Slips
      <4> QED BY <1>7, <4>1 DEF Drop
    <3> QED BY <1>0, <1>3, <2>3, <3>1
  <2>5. Len(group') \in Nat
    BY <1>0, <2>1, RemoveFirstOf, LenProperties
  <2>6. j \in stopAt..Len(group')
    BY <1>0, <2>3, <2>4, <2>5
  <2> QED BY <1>1, <1>2, <1>3, <2>3, <2>6
<1>8. CASE PopLast(s)
  <2>1. group' = Front(group) /\ Len(group) > 0
    BY <1>0, <1>4, <1>8 DEF PopLast
  <2>2. group # <<>>
    BY <1>0, <2>1, Emptiness
  <2>3. Wait(t) # Last(group)
    BY <1>2, <1>8, <2>2 DEF PopLast
  <2>4. i # Len(group)
    BY <1>3, <2>3 DEF Last
  <2>5. Len(group') = Len(group) - 1 /\ \A n \in 1..(Len(group) - 1) : group'[n] = group[n]
    BY <1>0, <2>1, FrontOf
  <2>6. i \in stopAt..Len(group') /\ group'[i] = group[i]
    BY <1>0, <1>3, <1>4, <2>4, <2>5
  <2> QED BY <1>1, <1>2, <1>3, <2>6
<1> QED
  BY <1>5, <1>6, <1>7, <1>8 DEF Thread, Execute, ResetFlags, Sleep, Activate, Signal, Install,
     Arm, Joined, Forget, Leave, Reselect, Gosub, Exit, Return, Fail, Judge, Finish

(* The stop itself tells who is at the place it has come to, and is over   *)
(* when there is none left; one that begins has all of them before it.     *)
LEMMA StopReached ==
    ASSUME TInv, Told, Held, Joining, Reached, StopGroup \/ StopNext
    PROVE  Reached'
<1>0. Len(group) \in Nat /\ stopAt \in Nat /\ DOMAIN group = 1..Len(group)
  BY LenProperties DEF TInv, GroupType, ThreadType
<1>1. /\ group' = group /\ \A t : Wait(t)' = Wait(t)
      /\ \A t \in Scripts : evt[t] => evt'[t]
  <2>1. UNCHANGED <<group, mine, level>>
    BY DEF StopGroup, StopNext
  <2>2. \A t \in Scripts : evt[t] => evt'[t]
    BY DEF StopGroup, StopNext, End
  <2> QED BY <2>1, <2>2 DEF Wait, Self
<1>2. CASE StopGroup
  <2> SUFFICES ASSUME NEW t \in awaited' PROVE \E i \in 1..Len(group) : group[i] = Wait(t)
    BY <1>1, <1>2 DEF StopGroup, Reached
  <2>1. t \in Scripts /\ pc[t] = "join"
    BY <1>2 DEF StopGroup
  <2>2. Wait(t) \in Range(group)
    BY <2>1 DEF Held, At, InGroup
  <2> QED BY <1>0, <2>2 DEF Range
<1>3. CASE StopNext /\ stopAt <= Len(group)
  <2>1. stopAt # 0 /\ End({group[stopAt]}) /\ stopAt' = stopAt + 1 /\ awaited' = awaited
    BY <1>0, <1>3 DEF StopNext
  <2> SUFFICES ASSUME NEW t \in awaited, ~evt'[t]
               PROVE  \E i \in (stopAt + 1)..Len(group) : group[i] = Wait(t)
    BY <1>0, <1>1, <2>1 DEF Reached
  <2>2. t \in Scripts /\ pc[t] = "join"
    BY DEF Joining, TInv, ThreadType
  <2>3. PICK i \in stopAt..Len(group) : group[i] = Wait(t)
    BY <1>1, <2>2 DEF Reached
  <2>4. endEvt[Wait(t)] = t
    BY <2>2 DEF Told
  <2>5. evt' = [r \in Scripts |-> evt[r] \/ \E c \in {group[stopAt]} : endEvt[c] = r]
    BY <2>1 DEF End
  <2>6. i # stopAt
    BY <2>2, <2>3, <2>4, <2>5
  <2> QED BY <1>0, <2>3, <2>6
<1>4. CASE StopNext /\ ~(stopAt <= Len(group))
  <2>1. awaited' = {t \in awaited : ~evt[t]}
    BY <1>0, <1>4 DEF StopNext
  <2>2. \A i \in stopAt..Len(group) : FALSE
    BY <1>0, <1>4
  <2>3. \A t \in awaited : evt[t]
    BY <2>2 DEF Reached
  <2> QED BY <2>1, <2>3 DEF Reached
<1> QED BY <1>2, <1>3, <1>4

LEMMA NextStop == TInv /\ WaitInv /\ StopInv /\ [Next]_vars => StopInv'
<1> SUFFICES ASSUME TInv, WaitInv, StopInv, [Next]_vars PROVE StopInv'
  OBVIOUS
<1>0. races \subseteq races'
  BY RacesGrow
<1>1. races' \cap {"shared", "popped", "skipped"} = {} => Alone /\ Told /\ Held /\ Reached
  BY <1>0 DEF WaitInv, StopInv
<1>2. ASSUME NEW s \in Scripts, Thread(s) PROVE StopInv'
  BY <1>1, <1>2, ThreadJoining, ThreadReached DEF StopInv
<1>3. CASE StopGroup \/ StopNext
  <2>1. Joining'
    BY <1>3 DEF StopGroup, StopNext, StopInv, Joining
  <2> QED BY <1>1, <1>3, <2>1, StopReached DEF StopInv
<1>4. ASSUME UNCHANGED <<pc, level, mine, group, stopAt, awaited, races>>,
             \A s \in Scripts : evt[s] => evt'[s]
      PROVE  StopInv'
  <2>1. \A s : Wait(s)' = Wait(s)
    BY <1>4 DEF Wait, Self
  <2>2. awaited \subseteq Scripts
    BY DEF TInv, ThreadType
  <2>3. Reached => Reached'
    BY <1>4, <2>1, <2>2 DEF Reached
  <2> QED BY <1>4, <2>3 DEF StopInv, Joining
<1>5. ASSUME NEW cs, End(cs) PROVE \A s \in Scripts : evt[s] => evt'[s]
  BY <1>5 DEF End
<1>6. ASSUME NEW c \in Controls, TimerThread(c) PROVE StopInv'
  BY <1>4, <1>5, <1>6 DEF TimerThread, TimerStarts, Elapse, stops
<1>7. ASSUME NEW s \in Scripts, Cancel(s) \/ Abort(s) PROVE StopInv'
  <2>1. PICK cs : End(cs)
    BY <1>7, Zenon DEF Cancel, CancelScript, Abort, AbortScript
  <2> QED BY <1>4, <1>5, <1>7, <2>1 DEF Cancel, Abort, stops
<1>8. CASE Continue \/ Pause \/ UNCHANGED vars
  BY <1>4, <1>5, <1>8 DEF Continue, Pause, vars, stops
<1> QED
  BY <1>2, <1>3, <1>6, <1>7, <1>8 DEF Next, Operator

(* Who is joined when the executor stops the group is told before the stop *)
(* is over, at a control of his own which has his event and which nobody   *)
(* took out of the group, as long as no control that the stop had passed   *)
(* was taken out of the list when his turn had come: for any number of     *)
(* scripts and controls, and whatever the threads do to the list while the *)
(* stop goes through it.                                                   *)
THEOREM StopsReach == Spec => []StopReaches
<1>1. TInv /\ WaitInv /\ StopInv => StopReaches
  BY DEF WaitInv, StopInv, Reached, Told, Held, StopReaches, At
<1> QED
  BY <1>1, InitTypes, NextTypes, InitWaits, NextWaits, NextStop, PTL DEF Spec

(* A script that is joined and not yet told has a timer that counts for    *)
(* it, as long as no two are given one control: however stops, the first   *)
(* second of a timer and the next wait in the same control meet.           *)
THEOREM WaitsWake == Spec => []Wakes
<1>1. WaitInv => Wakes
  BY DEF WaitInv, Woken, Wakes
<1> QED BY <1>1, InitTypes, NextTypes, InitWaits, NextWaits, PTL DEF Spec

(* A script that is alone meets nobody: what StopReaches, Wakes and        *)
(* GroupKept say then holds of it without a condition.                     *)
THEOREM NoRaceAlone ==
    ASSUME \A s, t \in Scripts : s = t
    PROVE  Spec => [](races = {})
<1>1. Init => races = {}
  BY DEF Init
<1>2. TInv /\ StopInv /\ races = {} /\ [Next]_vars => (races = {})'
  <2> SUFFICES ASSUME TInv, StopInv, races = {}, [Next]_vars PROVE races' = {}
    OBVIOUS
  <2>1. ASSUME NEW s \in Scripts, Thread(s) PROVE races' = {}
    <3>1. CASE Choose(s)
      <4>1. PICK c \in Controls : Hand(s, c)
        BY <3>1, Zenon DEF Choose
      <4> QED BY <4>1 DEF Hand
    <3>2. CASE Leave(s) BY <3>2 DEF Leave
    <3>3. CASE PopLast(s) BY <3>3 DEF PopLast, At
    <3>4. CASE Drop(s)
      <4>1. \A t \in awaited : t \in Scripts /\ pc[t] = "join" /\ t = s
        BY DEF TInv, ThreadType, StopInv, Joining
      <4>2. ~Slips(s)
        BY <3>4, <4>1 DEF Slips, Drop
      <4> QED BY <3>4, <4>2 DEF Drop
    <3> QED
      BY <2>1, <3>1, <3>2, <3>3, <3>4 DEF Thread, Execute, ResetFlags, Sleep, Activate, Signal, Install,
         Arm, Joined, Forget, Reselect, Gosub, Exit, Return, Fail, Judge, Finish
  <2>2. ASSUME NEW c \in Controls, TimerThread(c) PROVE races' = {}
    BY <2>2 DEF TimerThread, TimerStarts, Elapse
  <2>3. CASE Operator
    BY <2>3 DEF Operator, Cancel, Abort, StopGroup, Continue, Pause
  <2>4. CASE StopNext
    BY <2>4 DEF StopNext
  <2> QED BY <2>1, <2>2, <2>3, <2>4 DEF Next, vars
<1> QED
  BY <1>1, <1>2, InitTypes, NextTypes, InitWaits, NextWaits, NextStop, PTL DEF Spec

----------------------------------------------------------------------------
(* A look at the group while nobody is about to take a control out of it   *)
(* is still right when the own is taken out.                               *)
LEMMA ThreadSingle ==
    ASSUME TInv, Single, NEW s \in Scripts, Thread(s), "twice" \notin races'
    PROVE  Single'
<1>0. Len(group) \in Nat /\ Len(group') \in Nat
  BY GroupStep, LenProperties DEF TInv, GroupType
<1>1. \A t \in Scripts \ {s} : pc'[t] = pc[t]
  BY Frame
<1>2. CASE Leave(s)
  <2>1. CASE Len(group) > 1
    <3>1. \A t \in Scripts \ {s} : pc[t] \notin Removing
      BY <1>2, <2>1 DEF Leave
    <3>2. group' = group
      BY <1>2 DEF Leave
    <3> QED BY <1>1, <2>1, <3>1, <3>2 DEF Single
  <2>2. CASE ~(Len(group) > 1)
    <3>1. group' = group /\ pc'[s] \in {"body", "over"}
      BY <1>2, <2>2 DEF Leave, TInv, ThreadType
    <3> QED BY <1>1, <2>2, <3>1 DEF Single, Removing
  <2> QED BY <2>1, <2>2
<1>3. CASE Drop(s) \/ PopLast(s)
  <2>1. pc[s] \in Removing /\ pc'[s] \notin Removing
    BY <1>3 DEF Drop, PopLast, Removing, TInv, ThreadType
  <2>2. \A t \in Scripts : pc'[t] \notin Removing
    BY <1>1, <2>1 DEF Single
  <2>3. Len(group) > 1
    BY <2>1 DEF Single
  <2>4. Len(group') > 0
    <3>1. CASE Drop(s)
      <4>1. group' = RemoveFirst(group, Wait(s))
        BY <3>1 DEF Drop
      <4>2. Len(group') >= Len(group) - 1
        BY <4>1, RemoveFirstOf DEF TInv, GroupType
      <4> QED BY <1>0, <2>3, <4>2
    <3>2. CASE PopLast(s)
      <4>1. group' = Front(group)
        BY <3>2 DEF PopLast
      <4>2. Len(group) > 0
        BY <1>0, <2>3
      <4>3. Len(group') = Len(group) - 1
        BY <4>1, <4>2, FrontOf DEF TInv, GroupType
      <4> QED BY <1>0, <2>3, <4>3
    <3> QED BY <1>3, <3>1, <3>2
  <2> QED BY <2>2, <2>4 DEF Single
<1>4. CASE Choose(s)
  <2>1. PICK c \in Controls : Hand(s, c) /\ group' = IF InGroup(c) THEN group ELSE Append(group, c)
    BY <1>4, Zenon DEF Choose
  <2>2. Len(group') >= Len(group)
    BY <2>1, ChooseGroup
  <2>3. pc'[s] \notin Removing
    BY <2>1 DEF Hand, Removing, TInv, ThreadType
  <2>4. Len(group') > 0 /\ (Len(group) > 1 => Len(group') > 1)
    BY <1>0, <2>2 DEF Single
  <2> QED BY <1>1, <2>3, <2>4 DEF Single
<1>5. CASE group' = group /\ pc'[s] \notin Removing
  BY <1>1, <1>5 DEF Single
<1>6. Leave(s) \/ Drop(s) \/ PopLast(s) \/ Choose(s) \/ (group' = group /\ pc'[s] \notin Removing)
  <2>1. CASE Execute(s) \/ ResetFlags(s) \/ Sleep(s) \/ Activate(s) \/ Signal(s) \/ Install(s)
    BY <2>1 DEF Execute, ResetFlags, Sleep, Activate, Signal, Install, Removing, TInv, ThreadType
  <2>2. CASE Arm(s) \/ Joined(s) \/ Forget(s) \/ Reselect(s) \/ Gosub(s) \/ Exit(s) \/ Return(s) \/ Fail(s) \/ Judge(s) \/ Finish(s)
    BY <2>2 DEF Arm, Joined, Forget, Reselect, Gosub, Exit, Return, Fail, Judge, Finish, Removing, TInv, ThreadType
  <2> QED BY <2>1, <2>2 DEF Thread
<1> QED BY <1>2, <1>3, <1>4, <1>5, <1>6

LEMMA ThreadShown ==
    ASSUME TInv, Single, Held, Shown, NEW s \in Scripts, Thread(s)
    PROVE  Shown'
<1>1. \A t \in Scripts \ {s} : pc'[t] = pc[t]
  BY Frame
<1>2. CASE Drop(s) \/ PopLast(s)
  <2>1. group # <<>>
    BY Emptiness DEF Single, TInv, GroupType
  <2>2. pc'[s] \in {"last", "select"}
    BY <1>2, <2>1 DEF Drop, PopLast, TInv, ThreadType
  <2> QED BY <2>2 DEF Shown
<1>3. CASE Reselect(s)
  <2>1. group # <<>> /\ Last(group) \in Range(group)
    BY Emptiness, FrontOf DEF Single, TInv, GroupType
  <2>2. active' = Last(group) /\ group' = group
    BY <1>3, <2>1 DEF Reselect
  <2> QED BY <2>1, <2>2 DEF Shown, InGroup
<1>4. CASE Choose(s)
  <2>1. PICK c \in Controls : Hand(s, c) /\ group' = IF InGroup(c) THEN group ELSE Append(group, c)
    BY <1>4, Zenon DEF Choose
  <2>2. active' = c /\ c \in Range(group')
    BY <2>1, ChooseGroup DEF Hand
  <2> QED BY <2>2 DEF Shown, InGroup
<1>5. CASE Activate(s)
  <2>1. Wait(s) \in Range(group)
    BY <1>5 DEF Activate, Held, At, InGroup
  <2>2. active' = Wait(s) /\ group' = group
    BY <1>5 DEF Activate
  <2> QED BY <2>1, <2>2 DEF Shown, InGroup
<1>6. CASE active' = active /\ group' = group /\ pc[s] \notin {"last", "select"}
  BY <1>1, <1>6 DEF Shown, InGroup
<1>7. \/ Drop(s) \/ PopLast(s) \/ Reselect(s) \/ Choose(s) \/ Activate(s)
      \/ (active' = active /\ group' = group /\ pc[s] \notin {"last", "select"})
  BY DEF Thread, Execute, ResetFlags, Sleep, Signal, Install, Arm, Joined, Forget, Leave,
     Gosub, Exit, Return, Fail, Judge, Finish
<1> QED BY <1>2, <1>3, <1>4, <1>5, <1>6, <1>7

LEMMA NextGroup == TInv /\ WaitInv /\ GroupInv /\ [Next]_vars => GroupInv'
<1> SUFFICES ASSUME TInv, WaitInv, GroupInv, [Next]_vars PROVE GroupInv'
  OBVIOUS
<1>1. ASSUME NEW s \in Scripts, Thread(s) PROVE GroupInv'
  <2>1. races \subseteq races'
    BY RacesGrow
  <2>2. "twice" \notin races' => Single'
    BY <1>1, <2>1, ThreadSingle DEF GroupInv
  <2>3. races' = {} => Single /\ Held /\ Shown
    BY <2>1 DEF GroupInv, WaitInv
  <2>4. races' = {} => Shown'
    BY <1>1, <2>3, ThreadShown
  <2> QED BY <2>2, <2>4 DEF GroupInv
<1>2. ASSUME UNCHANGED <<pc, group, active, races>> PROVE GroupInv'
  BY <1>2 DEF GroupInv, Single, Shown, InGroup
<1>3. ASSUME NEW c \in Controls, TimerThread(c) PROVE GroupInv'
  BY <1>2, <1>3 DEF TimerThread, TimerStarts, Elapse
<1>4. CASE Operator
  BY <1>2, <1>4 DEF Operator, Cancel, Abort, StopGroup, Continue, Pause
<1>5. CASE StopNext
  BY <1>2, <1>5 DEF StopNext
<1> QED
  BY <1>1, <1>2, <1>3, <1>4, <1>5 DEF Next, vars

(* The group is never empty unless two pops meet, and the control that is  *)
(* shown is one of it or about to be set unless threads met at all, for    *)
(* any number of scripts and of runs that end.                             *)
THEOREM GroupIsKept == Spec => []GroupKept
<1>1. TInv /\ GroupInv => GroupKept
  BY Emptiness DEF TInv, GroupType, GroupInv, GroupKept, Single, Shown
<1> QED
  BY <1>1, InitTypes, NextTypes, InitWaits, NextWaits, NextGroup, PTL DEF Spec

====
