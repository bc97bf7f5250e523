--------------------------- MODULE MCOrchestrator ---------------------------
(* Instances of Orchestrator for TLC.                                      *)
EXTENDS Orchestrator

(* No action and no property reads `deployed', and every action of the     *)
(* loop changes more than it, so that states that differ in nothing else   *)
(* have the same future.                                                   *)
AllButDeployed == <<matrix, control, loops, request>>
=============================================================================
