--------------------------- MODULE MCOrchestration ---------------------------
(* The instances of Orchestration that are model-checked: "w1" and "w2" are  *)
(* submitted workflows, "c1" and "c2" clients.                               *)
EXTENDS Orchestration
=============================================================================
