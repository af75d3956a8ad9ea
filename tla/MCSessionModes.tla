---------------------------- MODULE MCSessionModes ----------------------------
(* Instances of SessionModes for TLC: the processes are alike.             *)
EXTENDS SessionModes, TLC

CONSTANTS r1, r2

TwoRuns == {r1, r2}
OneRun == {r1}
ManyKinds == {"orchestrator", "ralph", "ulw_loop"}
OrchestratorOnly == {"orchestrator"}
AllButUltrawork == {"orchestrator", "ralph"}

AlikeRuns == Permutations(Runs)
=============================================================================
