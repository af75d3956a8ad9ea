------------------------------ MODULE MCWorkflow ------------------------------
(***************************************************************************)
(* Instances of Workflow for TLC.                                          *)
(***************************************************************************)
EXTENDS Workflow

(* agent-graph.ts: requirements, planning, issue, development, testing,    *)
(* merge, with the number of roles of each.                                *)
AllStages == <<2, 3, 1, 2, 1, 2>>

(* The stage that starts over.                                             *)
Planning == {2}
=============================================================================
