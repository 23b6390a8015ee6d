---- MODULE MCScriptWaits ----
(***************************************************************************)
(* The instance of ScriptWaits: the script of a run's thread, after which  *)
(* the run ends, and one beside it, the post equilibration.                *)
(***************************************************************************)
EXTENDS ScriptWaits, TLC

Calls == ("extraction" :> 2) @@ ("post" :> 1)
====
