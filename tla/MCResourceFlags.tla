---- MODULE MCResourceFlags ----
(***************************************************************************)
(* The scripts of the instance of ResourceFlags: those of the documented  *)
(* examples for the minibone, which Felix and Jan share, save that Jan     *)
(* acquires its flag without clear, as the scripting guide shows acquire.  *)
(***************************************************************************)
EXTENDS ResourceFlags

MiniboneExtraction ==
    [felix |-> << <<"wait", "JanFlag">>, <<"wait", "PumpFlag">>, <<"acquire", "FelixFlag">> >>,
     jan |-> << <<"wait", "FelixFlag">>, <<"claim", "JanFlag">>, <<"wait", "PumpFlag">> >>]

MinibonePost ==
    [felix |-> << <<"unless", "FelixFlag">>, <<"pump", "PumpFlag">>, <<"release", "FelixFlag">> >>,
     jan |-> << <<"unless", "JanFlag">>, <<"pump", "PumpFlag">>, <<"release", "JanFlag">> >>]
====
