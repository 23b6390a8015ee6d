---- MODULE MCStatusMonitor ----
(***************************************************************************)
(* The instance of StatusMonitor: the user interface, which starts and     *)
(* stops the monitor, and the executor, which sets it up.                  *)
(***************************************************************************)
EXTENDS StatusMonitor, TLC

CONSTANTS gui, executor

TwoJobs == (gui :> {"start", "stop"}) @@ (executor :> {"setup"})

OftenFreq == [state |-> 1, lock |-> 2, owner |-> 2]
====
