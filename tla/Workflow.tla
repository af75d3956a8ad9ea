------------------------------- MODULE Workflow -------------------------------
(***************************************************************************)
(* runWorkflow of pipeline/orchestrator.ts: the stage loop, its state file *)
(* workflow-state.json, cancellation through a marker file, the role-run   *)
(* budget, failure, crash and resume.                                      *)
(*                                                                         *)
(* One session is modelled.  Its runs exclude each other (see SessionLock: *)
(* a run that finds the lock taken returns without touching anything), so  *)
(* one pc is enough: "orphaned" is the time after a crash in which the     *)
(* dead run's lock file still keeps everybody out.                         *)
(*                                                                         *)
(* A stage executor is any function that answers as the executors of       *)
(* createDefaultExecutors may answer; WorkflowRoles opens it up.           *)
(***************************************************************************)
EXTENDS Integers, Sequences

CONSTANTS
    NumStages,      \* length of WORKFLOW_STAGES
    RoleCount,      \* roles in the agent sequence of each stage
    Restarting,     \* stages whose executor ignores the recorded progress
    MaxRoleRuns,    \* budgets.max_role_runs of the execution plan
    MayPlan,        \* whether the policy, which makes such plans, is enabled
    MaxFaults       \* bound: crashes and thrown errors in a behaviour

Stages == 1 .. NumStages

ASSUME WorkflowAssumption ==
    /\ NumStages \in Nat \ {0}
    /\ RoleCount \in [Stages -> Nat \ {0}]
    /\ Restarting \subseteq Stages
    /\ MaxRoleRuns \in Nat
    /\ MayPlan \in BOOLEAN
    /\ MaxFaults \in Nat

VARIABLES
    disk,       \* workflow-state.json, or NoState
    state,      \* the running workflow's own copy
    pc,         \* what the run does next
    stage,      \* loop index: the stage it is at
    start,      \* loop index at which this run began
    resume,     \* whether this run was asked to resume
    marker,     \* the cancel marker file exists
    begun,      \* history: stages begun since the marker appeared (0, 1, many)
    faults      \* crashes and thrown errors so far

vars == <<disk, state, pc, stage, start, resume, marker, begun, faults>>

runVars == <<stage, start, resume>>

-----------------------------------------------------------------------------
None == 0                       \* no stage: null in the state file

(* Role runs are counted as far as the budget check can tell: up to one    *)
(* more than it allows.  The latency budget adds up and is compared in the *)
(* same way, so a role run stands for a unit of either.                    *)
Counts == 0 .. MaxRoleRuns + 1
Sum(a, b) == IF a + b > MaxRoleRuns THEN MaxRoleRuns + 1 ELSE a + b

Errors == {"none", "stage", "cancelled", "budget"}

WorkflowStates ==
    [status : {"in_progress", "failed", "completed"},
     currentStage : Stages \cup {None},
     currentNode : Stages \cup {None},      \* the stage part of the node
     completed : Seq(Stages),
     progress : [Stages -> Nat],
     failedStage : Stages \cup {None},
     error : Errors,
     runs : Counts,
     planned : BOOLEAN]                     \* it carries an execution plan

NoState == [status |-> "absent"]

InitialState ==
    [status |-> "in_progress", currentStage |-> None, currentNode |-> None,
     completed |-> <<>>, progress |-> [s \in Stages |-> 0],
     failedStage |-> None, error |-> "none", runs |-> 0, planned |-> FALSE]

Steps == {"idle", "orphaned", "clear", "load", "plan", "check", "begin",
          "execute", "save"}

Running == pc \notin {"idle", "orphaned"}

(* isPrefix(completedStages, WORKFLOW_STAGES)                              *)
IsStagePrefix(c) == \A k \in 1 .. Len(c) : k <= NumStages /\ c[k] = k

NextStage(s) == Len(s.completed) + 1

(* resolveStartIndex, for a state that is not completed.                   *)
StartIndex(s) == IF s.currentNode # None THEN s.currentNode ELSE NextStage(s)

(* evaluateWorkflowBudgetExceeded                                          *)
OverBudget(s) == s.planned /\ s.runs > MaxRoleRuns

(* writeWorkflowState: past max_artifact_bytes of the plan the role runs   *)
(* move to another file, and the state file keeps none.                    *)
Written(s) == IF s.planned THEN {s, [s EXCEPT !.runs = 0]} ELSE {s}

-----------------------------------------------------------------------------
Init == /\ disk = NoState
        /\ state = InitialState
        /\ pc = "idle"
        /\ stage = 1 /\ start = 1 /\ resume = FALSE
        /\ marker = FALSE
        /\ begun = 0 /\ faults = 0

(* The session lock is taken.                                              *)
Start(again) == /\ pc = "idle"
                /\ state' = InitialState
                /\ stage' = 1 /\ start' = 1
                /\ resume' = again
                /\ pc' = IF again THEN "load" ELSE "clear"
                /\ UNCHANGED <<disk, marker, begun, faults>>

(* A fresh run forgets an earlier cancellation.                            *)
ClearMarker == /\ pc = "clear"
               /\ marker' = FALSE
               /\ begun' = 0
               /\ \/ MayPlan /\ pc' = "plan"
                  \/ pc' = "check"
               /\ UNCHANGED <<disk, state, stage, start, resume, faults>>

(* A fresh run under a policy writes its execution plan down first.        *)
WritePlan == /\ pc = "plan"
             /\ state' = [state EXCEPT !.planned = TRUE]
             /\ disk' = state'
             /\ pc' = "check"
             /\ UNCHANGED <<runVars, marker, begun, faults>>

(* readWorkflowState: a state that is not valid makes the run throw; a     *)
(* completed one is returned as it is.                                     *)
Load == /\ pc = "load"
        /\ IF disk = NoState
           THEN pc' = "check" /\ UNCHANGED <<state, stage, start>>
           ELSE /\ state' = disk
                /\ pc' = IF ~IsStagePrefix(disk.completed) \/ disk.status = "completed"
                         THEN "idle" ELSE "check"
                /\ stage' = StartIndex(disk)
                /\ start' = stage'
        /\ UNCHANGED <<disk, resume, marker, begun, faults>>

(* Mutant: the marker is looked for when a run begins only.                *)
CancelledAtStart == marker /\ stage = start

(* pathExists of cancelMarkerPath.                                         *)
Cancelled == marker

(* The top of the loop: budget, then cancellation, then the next stage.    *)
Check ==
    /\ pc = "check"
    /\ \/ /\ stage > NumStages
          /\ state' = [state EXCEPT !.status = "completed", !.error = "none",
                                    !.currentStage = None, !.currentNode = None,
                                    !.failedStage = None]
          /\ pc' = "save"
       \/ /\ stage <= NumStages
          /\ OverBudget(state)
          /\ state' = [state EXCEPT !.status = "failed", !.error = "budget",
                          !.failedStage = IF state.currentStage # None
                                          THEN state.currentStage ELSE @]
          /\ pc' = "save"
       \/ /\ stage <= NumStages
          /\ ~OverBudget(state)
          /\ Cancelled
          /\ state' = [state EXCEPT !.status = "failed", !.error = "cancelled"]
          /\ pc' = "save"
       \/ /\ stage <= NumStages
          /\ ~OverBudget(state)
          /\ ~Cancelled
          /\ state' = [state EXCEPT !.status = "in_progress", !.error = "none",
                                    !.currentStage = stage, !.currentNode = stage,
                                    !.failedStage = None]
          /\ pc' = "begin"
    /\ UNCHANGED <<disk, runVars, marker, begun, faults>>

(* The stage is written down as in progress before its executor runs.      *)
BeginStage == /\ pc = "begin"
              /\ disk' \in Written(state)
              /\ begun' = IF marker /\ begun < 2 THEN begun + 1 ELSE begun
              /\ pc' = "execute"
              /\ UNCHANGED <<state, runVars, marker, faults>>

(* Mutant: every executor starts over.                                     *)
StartsOverAlways == 0

(* stageRoleStartIndex: only the stage a resumed run begins with takes up  *)
(* the roles where they were left.                                         *)
RoleStart == IF resume /\ stage = start /\ stage \notin Restarting
             THEN state.progress[stage] ELSE 0

(* Mutant: the progress of the answer is dropped.                          *)
MergedRunsOnly(p, n) == [state EXCEPT !.runs = Sum(@, n)]

(* The executor's answer is merged: its runs and its progress.             *)
Merged(p, n) == [state EXCEPT !.progress[stage] = p, !.runs = Sum(@, n)]

(* Mutant: an index that counts from 0 taken for one that counts from 1.   *)
StopForNext(s, error) == [s EXCEPT !.status = "failed", !.error = error,
                                   !.failedStage = stage + 1, !.currentNode = stage]

StopFor(s, error) == [s EXCEPT !.status = "failed", !.error = error,
                               !.failedStage = stage, !.currentNode = stage]

(* Mutants: the node stays; the stage is not listed; the list starts anew. *)
CompleteKeepingNode(s) == [s EXCEPT !.completed = Append(@, stage)]
CompleteUnlisted(s) == [s EXCEPT !.currentNode = None]
CompleteAlone(s) == [s EXCEPT !.completed = <<stage>>, !.currentNode = None]

CompleteStage(s) == [s EXCEPT !.completed = Append(@, stage), !.currentNode = None]

(* An executor that completes answers currentNode null, so that after an   *)
(* overrun budget the node falls back to the stage's own.                  *)
ExecutorCompletes ==
    /\ pc = "execute"
    /\ \E n \in Counts :
          LET s == Merged(RoleCount[stage], n) IN
          /\ state' = IF OverBudget(s) THEN StopFor(s, "budget") ELSE CompleteStage(s)
    /\ pc' = "save"
    /\ UNCHANGED <<disk, runVars, marker, begun, faults>>

ExecutorFails ==
    /\ pc = "execute"
    /\ \E n \in Counts, p \in RoleStart .. RoleCount[stage] :
          LET s == Merged(p, n) IN
          /\ state' = StopFor(s, IF OverBudget(s) THEN "budget" ELSE "stage")
    /\ pc' = "save"
    /\ UNCHANGED <<disk, runVars, marker, begun, faults>>

(* The outcome reaches the file; a failed or completed workflow returns.   *)
Save == /\ pc = "save"
        /\ disk' \in Written(state)
        /\ IF state.status = "in_progress"
           THEN pc' = "check" /\ stage' = stage + 1
           ELSE pc' = "idle" /\ stage' = stage
        /\ UNCHANGED <<state, start, resume, marker, begun, faults>>

(* Something throws (an executor, a contract assertion, a callback, a file *)
(* operation): the finally releases the lock, the file stays as it was.    *)
Throw == /\ Running
         /\ faults < MaxFaults
         /\ faults' = faults + 1
         /\ pc' = "idle"
         /\ UNCHANGED <<disk, state, runVars, marker, begun>>

(* The process dies; the lock file keeps the session until it is stale.    *)
Crash == /\ Running
         /\ faults < MaxFaults
         /\ faults' = faults + 1
         /\ pc' = "orphaned"
         /\ UNCHANGED <<disk, state, runVars, marker, begun>>

LockGoesStale == /\ pc = "orphaned"
                 /\ pc' = "idle"
                 /\ UNCHANGED <<disk, state, runVars, marker, begun, faults>>

(* cancelModeOperation for the orchestrator, by another process, where it  *)
(* gets as far as the marker (SessionModes says when it does).             *)
Cancel == /\ ~marker
          /\ marker' = TRUE
          /\ UNCHANGED <<disk, state, pc, runVars, begun, faults>>

Run == \/ ClearMarker \/ WritePlan \/ Load \/ Check \/ BeginStage
       \/ ExecutorCompletes \/ ExecutorFails \/ Save

Next == \/ \E again \in BOOLEAN : Start(again)
        \/ Run \/ Throw \/ Crash \/ LockGoesStale \/ Cancel

Spec == Init /\ [][Next]_vars

-----------------------------------------------------------------------------
(* Properties.                                                             *)

(* Type correctness of the file, the run and the history variables.        *)
TypeOK == /\ disk \in WorkflowStates \cup {NoState}
          /\ state \in WorkflowStates
          /\ pc \in Steps
          /\ stage \in 1 .. NumStages + 1
          /\ start \in 1 .. NumStages + 1
          /\ resume \in BOOLEAN
          /\ marker \in BOOLEAN
          /\ begun \in 0 .. 2
          /\ faults \in 0 .. MaxFaults

Present == disk # NoState

(* The node, by which a resume finds its stage, names the first stage that *)
(* is not completed, so that no stage is skipped or done twice.            *)
NodeAgrees == disk.status # "completed" => StartIndex(disk) = NextStage(disk)

(* A failed workflow blames a stage that it has not completed, also when   *)
(* the budget check at the top of the loop blames the current stage.       *)
FailureBlamesOpenStage == disk.failedStage # None => disk.failedStage = NextStage(disk)

(* A workflow that the file calls completed has done every stage.          *)
CompletedMeansAll == disk.status = "completed" => Len(disk.completed) = NumStages

(* Whatever was interrupted where, the file can be resumed: the completed  *)
(* stages are a prefix of the pipeline (a resume would throw otherwise)    *)
(* and node, blame and status agree with them.                             *)
Resumable == Present => /\ IsStagePrefix(disk.completed)
                        /\ NodeAgrees
                        /\ FailureBlamesOpenStage
                        /\ CompletedMeansAll

(* An executor runs only for a stage that is not completed yet and after   *)
(* all the stages before it, in this run or in the runs it resumes.        *)
StagesInOrder ==
    pc = "execute" => /\ IsStagePrefix(state.completed)
                      /\ stage = NextStage(state)
                      /\ Present /\ disk.completed = state.completed

(* The role progress in the file agrees with its stages: all roles of a    *)
(* completed stage, none of a stage that has not been begun.               *)
ProgressAgrees ==
    Present => \A s \in Stages :
                   /\ s < NextStage(disk) => disk.progress[s] = RoleCount[s]
                   /\ s > NextStage(disk) => disk.progress[s] = 0
                   /\ disk.progress[s] <= RoleCount[s]

(* No write but the first of a fresh run takes back a completed stage, and *)
(* none completes more than one.                                           *)
KeepsCompleted ==
    Present /\ disk' # disk =>
        \/ ~resume /\ disk'.completed = <<>>
        \/ disk'.completed = disk.completed
        \/ disk'.completed = Append(disk.completed, NextStage(disk))

(* A resumed workflow does not forget roles that were done, except in the  *)
(* stages that start over by design.                                       *)
KeepsProgress ==
    Present /\ resume /\ disk' # disk =>
        \A s \in Stages \ Restarting : disk'.progress[s] >= disk.progress[s]

(* Failures, crashes and resumes lose no work that the file has recorded.  *)
KeepsWork == [][KeepsCompleted /\ KeepsProgress]_vars

(* A cancellation is overtaken by one stage at most, whatever crashes and  *)
(* resumes follow: the one whose check was passed before the marker came.  *)
CancelStops == begun <= 1

(* Every run ends, and gives the session back unless its process died.     *)
RunEnds == Running ~> ~Running
=============================================================================
