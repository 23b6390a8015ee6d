---- MODULE MCSwitchManager ----
(***************************************************************************)
(* Small extraction lines for SwitchManager.                               *)
(***************************************************************************)
EXTENDS SwitchManager

CONSTANTS A, B, C, D, E, operator, script, here, there

Nothing == [v \in Switches |-> {}]
NoParents == [v \in Switches |-> NoSwitch]
NoTrackers == <<>>

\* Two groups of switches, one for each caller: A and B exclude each other and C
\* is an inverted child of A; D opens only when the manual switch E is open.
GroupInterlocks == [Nothing EXCEPT ![A] = {B}, ![B] = {A, C}, ![C] = {B}]
GroupPositive == [Nothing EXCEPT ![D] = {E}]
GroupParent == [NoParents EXCEPT ![C] = A]
GroupOperates == [a \in Actors |-> IF a = operator THEN {A, B, C} ELSE {D, E}]
GroupAddress == [a \in Actors |-> here]

\* One line: the operator works on all of it, the script on C alone.
PollingOperates == [a \in Actors |-> IF a = operator THEN Switches ELSE {C}]

\* One line that both callers operate.
SharedOperates == [a \in Actors |-> Switches]
SharedAddress == [a \in Actors |-> IF a = operator THEN here ELSE there]
PairInterlocks == [Nothing EXCEPT ![A] = {B}, ![B] = {A}]

\* The polled line is a pipette, filled through A and emptied through C.
Pipette == <<[inner |-> A, outer |-> C]>>
====
