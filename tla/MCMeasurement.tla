---- MODULE MCMeasurement ----
(***************************************************************************)
(* The script of the instance of Measurement.                              *)
(***************************************************************************)
EXTENDS Measurement

(* A multicollection of the signals, a peak hop, the baselines.            *)
FullScript == << [by |-> "multi", counts |-> 2], [by |-> "hop", counts |-> 2],
                 [by |-> "multi", counts |-> 4] >>
====
