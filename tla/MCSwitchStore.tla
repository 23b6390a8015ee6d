---- MODULE MCSwitchStore ----
(***************************************************************************)
(* The instance of SwitchStore: a valve and a manual switch; the user      *)
(* interface, and scripts in a second thread.                              *)
(***************************************************************************)
EXTENDS SwitchStore, TLC

CONSTANTS gui, script, valve, manual

Both == (gui :> JobNames \ {"script"})
     @@ (script :> JobNames \ {"lock", "canvas", "activate", "quit"})
====
