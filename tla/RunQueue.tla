---- MODULE RunQueue ----
(***************************************************************************)
(* What the experiment executor promises of a queue: its runs are done in  *)
(* the queue's order, none is skipped and none done twice, and a run       *)
(* begins only while every run still at work is one that overlaps.         *)
(***************************************************************************)
EXTENDS Naturals

CONSTANTS N, Overlapping   \* the number of runs, and those that overlap

VARIABLES
    begun,     \* the runs begun so far
    working    \* those that are not over

Init == begun = {} /\ working = {}

Begin(r) ==
    /\ begun = 1..(r - 1)
    /\ working \subseteq Overlapping
    /\ begun' = begun \cup {r}
    /\ working' = working \cup {r}

End(r) ==
    /\ r \in working
    /\ working' = working \ {r}
    /\ UNCHANGED begun

Next == \E r \in 1..N : Begin(r) \/ End(r)

Spec == Init /\ [][Next]_<<begun, working>>
====
