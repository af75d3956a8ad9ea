---------------------------- MODULE WorkflowRoles ----------------------------
(***************************************************************************)
(* The stage executors of createDefaultExecutors, pipeline/orchestrator.ts,*)
(* inside the loop of Workflow: the roles of each stage one after another, *)
(* the artifacts they hand on, and what they do to the world outside (the  *)
(* issue on GitHub, the working tree, the branch, the pull request).       *)
(*                                                                         *)
(* The steps of the loop are those of Workflow; "execute" is opened up:    *)
(* its executor works on the artifacts of this run and either answers,     *)
(* which merges them into the state, or throws, which loses them, while    *)
(* what it did to the world stays done.                                    *)
(***************************************************************************)
EXTENDS Workflow

CONSTANTS
    CanSkip,            \* optional roles that a plan may skip
    HasAdapter,         \* a GitHub adapter is configured
    ReviewerMayReject,  \* reviews by a subagent of the host, not scripted
    MergeMayThrow       \* git or GitHub may fail once the merge has begun

Requirements == 1
Planning == 2
Issue == 3
Development == 4
Testing == 5
Merge == 6

Optional == {"researcher", "architect", "critic", "documenter", "reviewer"}

ASSUME RolesAssumption ==
    /\ NumStages = 6
    /\ RoleCount = <<2, 3, 1, 2, 1, 2>>
    /\ Restarting = {Planning}
    /\ CanSkip \subseteq Optional
    /\ {HasAdapter, ReviewerMayReject, MergeMayThrow} \subseteq BOOLEAN

(* WORKFLOW_STAGE_AGENT_GRAPH                                              *)
AgentGraph == <<
    <<"orchestrator", "researcher">>,
    <<"plan", "architect", "critic">>,
    <<"orchestrator">>,
    <<"developer", "documenter">>,
    <<"tester">>,
    <<"reviewer", "orchestrator">> >>

VARIABLES
    fileArts,   \* artifacts in workflow-state.json, with the plan's skips
    arts,       \* artifacts of the run's copy; those at work while it executes
    done,       \* completedRoleCount of the executor
    at,         \* where in its stage the executor is
    used,       \* role runs of this execution, counted like state.runs
    unasked,    \* the merge under way does not wait for the user's approval
    issues,     \* issues created on GitHub for the task (0, 1, many)
    tree,       \* working tree: "clean", "dirty", "committed" (clean again),
                \* or "none": the working directory is no git repository
    slips       \* history: how the record of an issue that was made got lost

roleVars == <<fileArts, arts, done, at, used, unasked, issues, tree, slips>>

rolesVars == <<vars, roleVars>>

world == <<issues, tree, slips>>
executor == <<done, at, used, unasked>>

Artifacts ==
    [skip : SUBSET Optional,    \* roles the execution plan leaves out
     approval : BOOLEAN,        \* the plan was made when merges needed approval
     issue : BOOLEAN,           \* issueNumber and issueUrl
     dev : BOOLEAN,             \* implementationPlan .. developmentExecution
     docs : BOOLEAN,            \* documentationSync
     verified : BOOLEAN,        \* verificationPassed is true
     gate : {"none", "approve", "request_changes"}]     \* reviewGateDecision

NoArtifacts == [skip |-> {}, approval |-> FALSE, issue |-> FALSE, dev |-> FALSE,
                docs |-> FALSE, verified |-> FALSE, gate |-> "none"]

Places == {"roles", "create", "gate", "prepare", "push", "automate"}

Many(n) == IF n < 2 THEN n + 1 ELSE n

Slips == {"answer", "record", "budget"}

RolesInit == /\ Init
             /\ fileArts = NoArtifacts /\ arts = NoArtifacts
             /\ done = 0 /\ at = "roles" /\ used = 0 /\ unasked = FALSE
             /\ issues = 0 /\ tree \in {"clean", "none"} /\ slips = {}

-----------------------------------------------------------------------------
(* The loop, with the artifacts that travel with the state.                *)

Idle == UNCHANGED <<executor, world>>

(* The executor's variables are gone when it has answered, the run's own   *)
(* copy when the run ends.                                                 *)
Returned == done' = 0 /\ at' = "roles" /\ used' = 0 /\ unasked' = FALSE

Gone == arts' = NoArtifacts /\ Returned

Carry(a) == arts' = IF pc' = "idle" THEN NoArtifacts ELSE a

PlanOf(skip, approval) == [NoArtifacts EXCEPT !.skip = skip, !.approval = approval]

(* Mutant of PolicyPlans: the reviewer depends on the words of the task    *)
(* alone, like the other optional roles.                                   *)
PlansByWords == {PlanOf(skip, approval) : skip \in SUBSET CanSkip, approval \in BOOLEAN}

(* decideWorkflowPolicy: optional roles go by words of the task, any of    *)
(* which may be there; the reviewer is left out only where the user has to *)
(* approve the merge.  The user may change that setting at any time: it is *)
(* read here, and again by the merge stage.                                *)
PolicyPlans == {plan \in PlansByWords : "reviewer" \in plan.skip => plan.approval}

(* The policy is asked before the lock is taken.                           *)
RStart(again) == /\ Start(again)
                 /\ arts' \in IF MayPlan /\ ~again THEN PolicyPlans ELSE {NoArtifacts}
                 /\ Idle /\ UNCHANGED fileArts

(* createIssue, the branch and the pull request are named after the task:  *)
(* a fresh run is a new piece of work.                                     *)
RClearMarker == /\ ClearMarker
                /\ issues' = 0 /\ slips' = {}
                /\ arts' = IF pc' = "plan" THEN arts ELSE NoArtifacts
                /\ UNCHANGED <<fileArts, executor, tree>>

RWritePlan == WritePlan /\ fileArts' = arts /\ Idle /\ UNCHANGED arts

(* Mutant: a resume that reads the state without its artifacts.            *)
RLoadBare == Load /\ arts' = NoArtifacts /\ Idle /\ UNCHANGED fileArts

RLoad == /\ Load
         /\ Carry(IF disk = NoState THEN arts ELSE fileArts)
         /\ Idle /\ UNCHANGED fileArts

RCheck == Check /\ Carry(arts) /\ Idle /\ UNCHANGED fileArts

(* stageRoleStartIndex is handed to the executor.                          *)
RBeginStage == /\ BeginStage
               /\ fileArts' = arts
               /\ done' = RoleStart
               /\ UNCHANGED <<arts, at, used, unasked, world>>

(* Mutant: a failed stage is executed again instead of ending the run.     *)
RSaveGoesOn == /\ pc = "save"
               /\ disk' \in Written(state)
               /\ IF state.status = "completed" THEN pc' = "idle" ELSE pc' = "check"
               /\ stage' = IF state.status = "in_progress" THEN stage + 1 ELSE stage
               /\ fileArts' = arts /\ Carry(arts) /\ Idle
               /\ UNCHANGED <<state, start, resume, marker, begun, faults>>

RSave == Save /\ fileArts' = arts /\ Carry(arts) /\ Idle

(* The run ends before the file tells that the issue is made.              *)
Forgets == slips' = IF HasAdapter /\ pc = "save" /\ stage = Issue
                       /\ state.completed # disk.completed
                    THEN slips \cup {"record"} ELSE slips

RThrow == Throw /\ Gone /\ Forgets /\ UNCHANGED <<fileArts, issues, tree>>

RCrash == Crash /\ Gone /\ Forgets /\ UNCHANGED <<fileArts, issues, tree>>

RLockGoesStale == LockGoesStale /\ UNCHANGED roleVars

RCancel == Cancel /\ UNCHANGED roleVars

-----------------------------------------------------------------------------
(* What every executor is made of.                                         *)

Executing(s, place) == pc = "execute" /\ stage = s /\ at = place

RoleAt == AgentGraph[stage][done + 1]

Skipped(role) == role \in arts.skip

(* The executor goes on to its next role, or place, with these artifacts.  *)
GoOn(d, place, a) == /\ done' = d /\ at' = place /\ arts' = a
                     /\ UNCHANGED <<vars, fileArts, unasked>>

RunsRole == used' = Sum(used, 1)

(* Mutant: a stage that completes beyond the budget goes through.          *)
AnswerCompletedUnchecked(a, n) ==
    /\ state' = CompleteStage(Merged(RoleCount[stage], n))
    /\ arts' = a
    /\ pc' = "save"
    /\ Returned /\ UNCHANGED <<disk, runVars, marker, begun, faults, fileArts>>

(* status "completed": all the roles count as done.                        *)
AnswerCompleted(a, n) ==
    LET s == Merged(RoleCount[stage], n) IN
    /\ state' = IF OverBudget(s) THEN StopFor(s, "budget") ELSE CompleteStage(s)
    /\ arts' = a
    /\ pc' = "save"
    /\ Returned /\ UNCHANGED <<disk, runVars, marker, begun, faults, fileArts>>

(* Mutant: the artifacts of a failed executor are not merged.              *)
AnswerFailedBare(p, a, n) ==
    LET s == Merged(p, n) IN
    /\ state' = StopFor(s, IF OverBudget(s) THEN "budget" ELSE "stage")
    /\ arts' = fileArts
    /\ pc' = "save"
    /\ Returned /\ UNCHANGED <<disk, runVars, marker, begun, faults, fileArts>>

(* status "failed", with roleProgressCount p.                              *)
AnswerFailed(p, a, n) ==
    LET s == Merged(p, n) IN
    /\ state' = StopFor(s, IF OverBudget(s) THEN "budget" ELSE "stage")
    /\ arts' = a
    /\ pc' = "save"
    /\ Returned /\ UNCHANGED <<disk, runVars, marker, begun, faults, fileArts>>

(* The executor throws: the finally of runWorkflow releases the lock, and  *)
(* what it had worked out is gone.                                         *)
Throws == Throw /\ Gone /\ UNCHANGED fileArts

(* A role's subagent fails, times out or is denied a tool.                 *)
RoleFails(a) == /\ done < RoleCount[stage]
                /\ ~Skipped(RoleAt)
                /\ AnswerFailed(done, a, used)
                /\ UNCHANGED world

-----------------------------------------------------------------------------
(* requirements: the task, then the research context.                      *)
RequirementsRole == /\ Executing(Requirements, "roles")
                    /\ done < 2
                    /\ IF Skipped(RoleAt) THEN UNCHANGED used ELSE RunsRole
                    /\ GoOn(done + 1, "roles", arts)
                    /\ UNCHANGED world

RequirementsFails == Executing(Requirements, "roles") /\ RoleFails(arts)

RequirementsDone == /\ Executing(Requirements, "roles")
                    /\ done = 2
                    /\ AnswerCompleted(arts, used)
                    /\ UNCHANGED world

(* planning: plan, architect and critic, in iterations; progress is the    *)
(* furthest role of any iteration.                                         *)
PlanningRole == /\ Executing(Planning, "roles")
                /\ done < 3
                /\ IF Skipped(RoleAt) THEN UNCHANGED used ELSE RunsRole
                /\ GoOn(done + 1, "roles", arts)
                /\ UNCHANGED world

(* A role run again: its output breaks the contract, or a rejected plan    *)
(* goes into another iteration.                                            *)
PlanningRepeats == /\ Executing(Planning, "roles")
                   /\ done > 0
                   /\ RunsRole
                   /\ GoOn(done, "roles", arts)
                   /\ UNCHANGED world

PlanningApproved == /\ Executing(Planning, "roles")
                    /\ done = 3
                    /\ AnswerCompleted(arts, used)
                    /\ UNCHANGED world

(* No consensus within the iterations, or a contract broken for good, or a *)
(* role that fails: always possible, in the first iteration and later.     *)
PlanningFails == /\ Executing(Planning, "roles")
                 /\ AnswerFailed(done, arts, used)
                 /\ UNCHANGED world

(* issue: a draft, and with an adapter the issue itself.                   *)
IssueRole == /\ Executing(Issue, "roles")
             /\ done = 0
             /\ RunsRole
             /\ GoOn(1, "roles", arts)
             /\ UNCHANGED world

IssueFails == Executing(Issue, "roles") /\ RoleFails(arts)

IssueDrafted == /\ Executing(Issue, "roles")
                /\ done = 1
                /\ IF HasAdapter
                   THEN GoOn(1, "create", arts) /\ UNCHANGED used
                   ELSE AnswerCompleted(arts, used)
                /\ UNCHANGED world

(* Mutant: errors of createIssue are answered as a failure of the stage.   *)
CreateIssueCaught == /\ Executing(Issue, "create")
                     /\ issues' = Many(issues)
                     /\ UNCHANGED <<tree, slips>>
                     /\ AnswerFailed(1, arts, used)

(* createIssue posts without looking for an issue that is there already;   *)
(* the call is not retried and its error is not caught.  A stage that runs *)
(* over the budget stays open, though its issue is made.                   *)
CreateIssue == /\ Executing(Issue, "create")
               /\ issues' = Many(issues)
               /\ UNCHANGED tree
               /\ AnswerCompleted([arts EXCEPT !.issue = TRUE], used)
               /\ slips' = IF state'.error = "budget" THEN slips \cup {"budget"} ELSE slips

CreateIssueThrows == /\ Executing(Issue, "create")
                     /\ \/ issues' = Many(issues) /\ slips' = slips \cup {"answer"}
                        \/ UNCHANGED <<issues, slips>>
                     /\ UNCHANGED tree
                     /\ Throws

Changed == IF tree = "none" THEN "none" ELSE "dirty"

(* development: the developer leaves committable changes in the tree.  It  *)
(* is not asked for them where git is not there to tell.                   *)
DeveloperDone == /\ Executing(Development, "roles")
                 /\ done = 0
                 /\ RunsRole
                 /\ tree' = Changed
                 /\ UNCHANGED <<issues, slips>>
                 /\ GoOn(1, "roles", [arts EXCEPT !.dev = TRUE])

(* Blocked or failed, with the changes of its script left in the tree.     *)
DeveloperFails == /\ Executing(Development, "roles")
                  /\ done = 0
                  /\ tree' \in {tree, Changed}
                  /\ UNCHANGED <<issues, slips>>
                  /\ \E n \in {used, Sum(used, 1)} : AnswerFailed(0, arts, n)

Documenter == /\ Executing(Development, "roles")
              /\ done = 1
              /\ arts.dev \/ Skipped("documenter")
              /\ IF Skipped("documenter")
                 THEN GoOn(2, "roles", arts) /\ UNCHANGED used
                 ELSE GoOn(2, "roles", [arts EXCEPT !.docs = TRUE]) /\ RunsRole
              /\ UNCHANGED world

(* The documenter fails, or finds no output of the developer.              *)
DocumenterFails == /\ Executing(Development, "roles")
                   /\ done = 1
                   /\ ~Skipped("documenter")
                   /\ AnswerFailed(1, arts, used)
                   /\ UNCHANGED world

DevelopmentDone == /\ Executing(Development, "roles")
                   /\ done = 2
                   /\ IF arts.dev THEN AnswerCompleted(arts, used)
                                  ELSE AnswerFailed(2, arts, used)
                   /\ UNCHANGED world

(* testing: verificationPassed is taken over from the tester; a tester     *)
(* that recorded success is not asked again.                               *)
TesterPasses == /\ Executing(Testing, "roles")
                /\ done = 0
                /\ RunsRole
                /\ GoOn(1, "roles", arts)
                /\ UNCHANGED world

TesterRejects == /\ Executing(Testing, "roles")
                 /\ done = 0
                 /\ \E n \in {used, Sum(used, 1)} :
                       AnswerFailed(0, [arts EXCEPT !.verified = FALSE], n)
                 /\ UNCHANGED world

TestingDone == /\ Executing(Testing, "roles")
               /\ done = 1
               /\ AnswerCompleted([arts EXCEPT !.verified = TRUE], used)
               /\ UNCHANGED world

(* merge: the reviewer's gate.  The scripted reviewer decides by the       *)
(* artifacts; one of the host may also ask for changes on its own.         *)
OpenRisks == ~arts.verified \/ (~Skipped("documenter") /\ ~arts.docs)

Verdict == IF OpenRisks THEN "request_changes" ELSE "approve"

Review(decision) ==
    /\ Executing(Merge, "roles")
    /\ done = 0
    /\ IF Skipped("reviewer")
       THEN decision = "approve" /\ UNCHANGED used
       ELSE (ReviewerMayReject \/ decision = Verdict) /\ RunsRole
    /\ GoOn(1, "roles", [arts EXCEPT !.gate = decision])
    /\ UNCHANGED world

MergePlan == /\ Executing(Merge, "roles")
             /\ done = 1
             /\ RunsRole
             /\ GoOn(2, "roles", arts)
             /\ UNCHANGED world

(* Mutant: a gate decision the contract does not know.                     *)
GateRejected == [arts EXCEPT !.gate = "rejected"]

GateOrChanges == [arts EXCEPT !.gate = IF @ = "none" THEN "request_changes" ELSE @]

MergeRoleFails == Executing(Merge, "roles") /\ RoleFails(GateOrChanges)

(* The configuration is loaded once more: the user's approval may have     *)
(* become necessary, or needless, since the plan was made.                 *)
OpenMerge == /\ at' = "prepare"
             /\ unasked' \in BOOLEAN
             /\ UNCHANGED <<vars, fileArts, arts, done, used>>

(* Mutant: the roles being done is taken for an open gate.                 *)
MergeGateUnchecked == /\ Executing(Merge, "roles")
                      /\ done = 2
                      /\ OpenMerge
                      /\ UNCHANGED world

MergeGate == /\ Executing(Merge, "roles")
             /\ done = 2
             /\ IF arts.gate # "approve" THEN AnswerFailed(2, GateOrChanges, used)
                ELSE IF HasAdapter THEN OpenMerge
                ELSE AnswerCompleted(arts, used)
             /\ UNCHANGED world

(* defaultPrepareLocalBranchForPullRequest: without a repository, or       *)
(* without committable changes, it answers that there is nothing to do;    *)
(* otherwise it commits them ...                                           *)
Prepare == /\ Executing(Merge, "prepare")
           /\ IF tree = "dirty"
              THEN /\ GoOn(2, "push", arts)
                   /\ tree' = "committed"
                   /\ UNCHANGED <<used, issues, slips>>
              ELSE AnswerFailed(2, arts, used) /\ UNCHANGED world

(* ... and pushes them, retrying transient errors a few times.             *)
Push == /\ Executing(Merge, "push")
        /\ GoOn(2, "automate", arts)
        /\ UNCHANGED <<used, world>>

(* runGithubAutomation, which is handed the issue it need not create.      *)
Automate == /\ Executing(Merge, "automate")
            /\ issues' = IF arts.issue THEN issues ELSE Many(issues)
            /\ UNCHANGED <<tree, slips>>
            /\ AnswerCompleted([arts EXCEPT !.issue = TRUE], used)

MergeThrows == /\ MergeMayThrow
               /\ Executing(Merge, "push") \/ Executing(Merge, "automate")
               /\ Throws
               /\ UNCHANGED world

-----------------------------------------------------------------------------
Execute ==
    \/ RequirementsRole \/ RequirementsFails \/ RequirementsDone
    \/ PlanningRole \/ PlanningRepeats \/ PlanningApproved \/ PlanningFails
    \/ IssueRole \/ IssueFails \/ IssueDrafted \/ CreateIssue
    \/ DeveloperDone \/ DeveloperFails \/ Documenter \/ DocumenterFails \/ DevelopmentDone
    \/ TesterPasses \/ TesterRejects \/ TestingDone
    \/ \E decision \in {"approve", "request_changes"} : Review(decision)
    \/ MergePlan \/ MergeRoleFails \/ MergeGate \/ Prepare \/ Push \/ Automate

(* Faults of the surroundings: the merge steps have theirs of their own.   *)
Quiet == stage = Merge /\ at \in {"push", "automate"} /\ ~MergeMayThrow

RolesRun == \/ RClearMarker \/ RWritePlan \/ RLoad \/ RCheck \/ RBeginStage \/ RSave
            \/ Execute

RolesNext == \/ \E again \in BOOLEAN : RStart(again)
             \/ RolesRun
             \/ CreateIssueThrows \/ MergeThrows
             \/ ~Quiet /\ (RThrow \/ RCrash)
             \/ RLockGoesStale \/ RCancel

RolesSpec == RolesInit /\ [][RolesNext]_rolesVars

(* What may go wrong in an executor for reasons that lie outside of it.    *)
Mishap == \/ RequirementsFails \/ PlanningRepeats \/ PlanningFails \/ IssueFails
          \/ DeveloperFails \/ (arts.dev /\ DocumenterFails) \/ TesterRejects
          \/ (Verdict = "approve" /\ Review("request_changes")) \/ MergeRoleFails

(* Where a command of git or gh is awaited outside of any timer.           *)
AtCommand == pc = "execute" /\ at \in {"create", "prepare", "push", "automate"}

(* The loop goes on, and so does a role, whose execution has a timer; no   *)
(* such thing is said of commands.  The user resumes again and again, and  *)
(* mishaps are transient: what the roles themselves make of the recorded   *)
(* state may still fail for ever.                                          *)
RolesFairness ==
    /\ WF_rolesVars(RolesRun /\ ~AtCommand)
    /\ WF_rolesVars(RLockGoesStale)
    /\ WF_rolesVars(RStart(TRUE))
    /\ <>[][~Mishap]_rolesVars

RolesFairSpec == RolesSpec /\ RolesFairness

-----------------------------------------------------------------------------
(* Properties.                                                             *)

(* Type correctness of the artifacts, the executor and the world.          *)
RolesTypeOK == /\ fileArts \in Artifacts /\ arts \in Artifacts
               /\ done \in 0 .. 3
               /\ at \in Places
               /\ used \in Counts
               /\ unasked \in BOOLEAN
               /\ issues \in 0 .. 2
               /\ tree \in {"none", "clean", "dirty", "committed"}
               /\ slips \subseteq Slips

(* Whatever was resumed, skipped or retried before: nothing is committed,  *)
(* pushed or merged but by a merge stage whose gate stands open, of work   *)
(* that was verified and whose documents were synced or skipped by plan.   *)
(* What is merged without the user's approval has passed a reviewer, or    *)
(* the user has given up the approval since the plan left the reviewer out.*)
MergesOnlyReviewed ==
    pc = "execute" /\ at \in {"prepare", "push", "automate"} =>
        /\ arts.gate = "approve"
        /\ arts.verified
        /\ arts.dev
        /\ arts.docs \/ Skipped("documenter")
        /\ unasked => ~Skipped("reviewer") \/ arts.approval

(* A resume that starts at the documenter finds what the developer handed  *)
(* over: "documenter requires developer output" never ends a workflow.     *)
DeveloperOutputKept ==
    pc = "execute" /\ stage = Development /\ done > 0 => arts.dev

(* The executors keep to what the loop takes for granted: every behaviour  *)
(* of the roles is a behaviour of the loop with some executor.             *)
ImplementsWorkflow == Spec

(* ARCHITECTURE.md 12 wants no second issue for a workflow.  The code has  *)
(* three ways to one, and no other: the answer to the first one was lost,  *)
(* the run ended between the answer and the state file, or the issue stage *)
(* ran over its budget.  No other fault, no failure of a role, no plan, no *)
(* cancellation and no number of resumes repeats it.                       *)
IssueRepeatedForCause == issues > 1 => slips # {}

(* The command at which a run is awaited never comes back.                 *)
Hangs == <>[]AtCommand

(* Every run ends and gives the session back, unless its process died or a *)
(* command of git or gh hangs, for which the code has no timer: whatever   *)
(* repeats in between is bounded.                                          *)
RunEndsOrHangs == Hangs \/ RunEnds

Completed == Present /\ disk.status = "completed"

(* Where a resume cannot get on: the reviewer's role is done with a gate   *)
(* that stays shut; or the merge stage is open, and the commit is made     *)
(* already or there is no repository to make it in.                        *)
DeadEnd == /\ Present
           /\ disk.currentNode = Merge
           /\ \/ disk.progress[Merge] > 0 /\ fileArts.gate = "request_changes"
              \/ tree \in {"committed", "none"}

(* Resuming gets a workflow done: where nothing is started afresh, nobody  *)
(* cancels and no plan limits the runs, it is completed in the end,        *)
(* wherever earlier runs failed, threw or crashed, or it stays at a dead   *)
(* end of the merge stage for good, or hangs.                              *)
ResumeCompletes ==
    <>[](resume /\ ~marker /\ ~state.planned) => Hangs \/ <>Completed \/ <>[]DeadEnd
=============================================================================
