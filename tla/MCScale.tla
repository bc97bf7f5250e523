------------------------------- MODULE MCScale -------------------------------
(* Instances of ScaleController for TLC.                                   *)
EXTENDS ScaleController

conn == [name |-> "conn", up |-> 3, down |-> 1, perReplica |-> 0,
         weight |-> 0, upOnly |-> FALSE, guard |-> FALSE]

(* A second use of the same query, as a ratio and as a guard.              *)
ratio == [conn EXCEPT !.perReplica = 2, !.weight = 2, !.guard = TRUE]

surge == [conn EXCEPT !.upOnly = TRUE]

noPrediction == [enabled |-> FALSE, metric |-> "conn", minHistory |-> 0]

reactive == [min |-> 1, max |-> 3, metrics |-> <<conn>>, aggregation |-> "max",
             cooldown |-> 2, poll |-> 1, window |-> 2, mode |-> "reactive",
             prediction |-> noPrediction]

guarded  == [reactive EXCEPT !.metrics = <<surge, ratio>>, !.window = 1,
                             !.aggregation = "weighted_average"]

tighter  == [reactive EXCEPT !.max = 2, !.window = 0, !.cooldown = 1, !.poll = 2]

broken   == [guarded EXCEPT !.max = 0]

predicting == [reactive EXCEPT !.window = 0, !.mode = "predictive",
                 !.prediction = [enabled |-> TRUE, metric |-> "conn", minHistory |-> 1]]

hybrid == [predicting EXCEPT !.mode = "hybrid", !.window = 1, !.max = 2]

(* A ratio that is also the guard: a value of 2 asks for 2 instances and   *)
(* keeps a third.                                                          *)
held == [reactive EXCEPT !.window = 1,
           !.metrics = <<[conn EXCEPT !.perReplica = 1, !.guard = TRUE]>>]

(* The least int, on the scale of the instance's targets.                  *)
LeastInt == -8

ReloadConfigs   == {guarded, tighter, broken}
DemandConfigs   == {hybrid, held}
SwitchConfigs   == {reactive, predicting}
=============================================================================
