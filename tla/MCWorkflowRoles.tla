--------------------------- MODULE MCWorkflowRoles ---------------------------
(***************************************************************************)
(* Instances of WorkflowRoles for TLC.  The pipeline is the real one.      *)
(***************************************************************************)
EXTENDS WorkflowRoles

AllStages == <<2, 3, 1, 2, 1, 2>>
StartsOver == {Planning}

(* The optional roles whose absence the merge stage has to know about.      *)
SkipSome == {"documenter", "reviewer"}
=============================================================================
