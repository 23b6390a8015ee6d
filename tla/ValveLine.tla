---- MODULE ValveLine ----
(***************************************************************************)
(* What the valve switch manager promises of an extraction line: valves    *)
(* move one at a time, a valve is moved only while every valve interlocked *)
(* with it is shut, and it is opened only while its positive interlocks    *)
(* are open.  Here checking and moving are one step.                       *)
(***************************************************************************)
CONSTANTS Switches, Interlocks, PositiveInterlocks

VARIABLE phys   \* where each valve is, TRUE is open

Clear(v) == \A w \in Interlocks[v] : ~phys[w]
Enabled(v) == \A w \in PositiveInterlocks[v] : phys[w]

Init == phys = [v \in Switches |-> FALSE]

Open(v) ==
    /\ Clear(v) /\ Enabled(v)
    /\ phys' = [phys EXCEPT ![v] = TRUE]

Close(v) ==
    /\ Clear(v)
    /\ phys' = [phys EXCEPT ![v] = FALSE]

Next == \E v \in Switches : Open(v) \/ Close(v)

Spec == Init /\ [][Next]_phys
====
