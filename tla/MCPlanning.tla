------------------------------ MODULE MCPlanning ------------------------------
(* An instance of Planning for TLC.                                        *)
EXTENDS Planning

CONSTANTS c1, c2

TwoCallers == {c1, c2}

(* Both are of high risk; the second skips the reviews of the architect    *)
(* and the critic.                                                         *)
SomeInputs == [c \in TwoCallers |->
                  [high |-> TRUE, skip |-> IF c = c1 THEN {} ELSE {"architect", "critic"}]]
=============================================================================
