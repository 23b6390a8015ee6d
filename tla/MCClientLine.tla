---- MODULE MCClientLine ----
(***************************************************************************)
(* The instance of ClientLine: all calls are made by one thread; a switch  *)
(* and its child, which comes first in the dictionary.                     *)
(***************************************************************************)
EXTENDS ClientLine

CONSTANTS gui, child, parent, nobody, system

OneJob == (gui :> {"start", "stop", "setup"})

OftenFreq == [state |-> 1, lock |-> 2, owner |-> 2]

ChildFirst == <<child, parent>>
ChildOf == (child :> parent) @@ (parent :> parent)
TwoOwners == <<nobody, system>>
====
