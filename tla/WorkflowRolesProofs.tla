------------------------- MODULE WorkflowRolesProofs -------------------------
(***************************************************************************)
(* Proofs about WorkflowRoles, for every budget, every number of faults    *)
(* and every setting of its switches.  They rest on the invariant of the   *)
(* loop, which the executors keep because every step of theirs is a step   *)
(* of the loop; the invariant of this module says what the recorded role   *)
(* progress and the completed stages have left in the artifacts.           *)
(***************************************************************************)
EXTENDS WorkflowRoles, WorkflowProofs

(* What a workflow state s records has been handed on in artifacts a.      *)
Handed(s, a) ==
    /\ s.progress[Development] > 0 => a.dev
    /\ s.progress[Development] > 1 => a.docs \/ "documenter" \in a.skip
    /\ Len(s.completed) >= Testing => a.verified
    /\ HasAdapter /\ Len(s.completed) >= Issue => a.issue

(* Only a plan made when merges needed approval leaves the reviewer out.   *)
Allowed(a) == "reviewer" \in a.skip => a.approval

AtRest == done = 0 /\ at = "roles" /\ used = 0 /\ ~unasked

AtWork ==
    /\ RoleStart <= done /\ done <= RoleCount[stage]
    /\ at = "create" => stage = Issue /\ done = 1
    /\ at \in {"prepare", "push", "automate"} => stage = Merge /\ arts.gate = "approve"
    /\ at \in {"create", "prepare", "push", "automate"} => HasAdapter
    /\ stage = Development =>
           /\ done > 0 => arts.dev
           /\ done > 1 => arts.docs \/ Skipped("documenter")

RolesInv ==
    /\ RolesTypeOK
    /\ Allowed(arts) /\ Allowed(fileArts)
    /\ Present => Handed(disk, fileArts)
    /\ Looping => Handed(state, arts)
    /\ pc # "execute" => AtRest
    /\ pc = "execute" => AtWork

(* The issue is made once, and s tells it.                                 *)
OnceRecorded(s) == issues = 1 /\ s # NoState /\ Len(s.completed) >= Issue

(* Where nothing slipped, the file comes to record the issue before a run  *)
(* can reach its stage again.                                              *)
IssueInv ==
    /\ issues > 0 => HasAdapter
    /\ slips = {} /\ issues > 0 =>
           /\ pc \in {"idle", "orphaned", "clear", "load"} => OnceRecorded(disk)
           /\ pc # "plan"
           /\ Looping => /\ issues = 1 /\ Len(state.completed) >= Issue
                         /\ OnceRecorded(disk) \/ (pc = "save" /\ stage = Issue /\ disk # NoState)

-----------------------------------------------------------------------------
(* The pipeline, and where an executor begins in its stage.                *)

LEMMA Pipeline ==
    /\ NumStages = 6 /\ Stages = 1 .. 6
    /\ RoleCount[Requirements] = 2 /\ RoleCount[Planning] = 3 /\ RoleCount[Issue] = 1
    /\ RoleCount[Development] = 2 /\ RoleCount[Testing] = 1 /\ RoleCount[Merge] = 2
    /\ \A s \in Stages : RoleCount[s] \in 1 .. 3
  BY RolesAssumption
  DEF Stages, Requirements, Planning, Issue, Development, Testing, Merge

LEMMA StartAt ==
    ASSUME Inv, pc \in {"begin", "execute"}
    PROVE  /\ stage \in Stages /\ stage = NextStage(state)
           /\ state \in WorkflowStates /\ Consistent(state)
           /\ RoleStart \in 0 .. RoleCount[stage]
           /\ RoleStart > 0 => RoleStart = state.progress[stage]
  <1>1. /\ stage \in Stages /\ stage = NextStage(state)
        /\ state \in WorkflowStates /\ Consistent(state)
    BY Pipeline DEF Inv, TypeOK, Position, Looping, Stages
  <1>2. state.progress[stage] \in Nat /\ state.progress[stage] <= RoleCount[stage]
    BY <1>1 DEF WorkflowStates, Consistent, AgreesWithProgress
  <1>3. RoleCount[stage] \in 1 .. 3
    BY <1>1, Pipeline
  <1> QED
    BY <1>1, <1>2, <1>3 DEF RoleStart

-----------------------------------------------------------------------------
(* Every step of the roles is a step of the loop, or none of it.           *)

LEMMA AnswersRefine ==
    ASSUME pc = "execute", used \in Counts, NEW a,
           \/ AnswerCompleted(a, used)
           \/ \E p \in RoleStart .. RoleCount[stage], n \in Counts : AnswerFailed(p, a, n)
    PROVE  ExecutorCompletes \/ ExecutorFails
  <1>1. CASE AnswerCompleted(a, used)
    BY <1>1 DEF AnswerCompleted, ExecutorCompletes
  <1>2. CASE \E p \in RoleStart .. RoleCount[stage], n \in Counts : AnswerFailed(p, a, n)
    BY <1>2 DEF AnswerFailed, ExecutorFails
  <1> QED
    BY <1>1, <1>2

(* The executors go on, or answer, with a progress that the loop allows.   *)
LEMMA ExecuteRefines ==
    ASSUME Inv, RolesInv, Execute
    PROVE  ExecutorCompletes \/ ExecutorFails \/ UNCHANGED vars
  <1>1. pc = "execute"
    BY DEF Execute, RequirementsRole, RequirementsFails, RequirementsDone, PlanningRole,
       PlanningRepeats, PlanningApproved, PlanningFails, IssueRole, IssueFails,
       IssueDrafted, CreateIssue, DeveloperDone, DeveloperFails, Documenter,
       DocumenterFails, DevelopmentDone, TesterPasses, TesterRejects, TestingDone,
       Review, MergePlan, MergeRoleFails, MergeGate, Prepare, Push, Automate, Executing
  <1>2. /\ RoleStart \in 0 .. RoleCount[stage] /\ stage \in Stages
        /\ done \in RoleStart .. RoleCount[stage]
        /\ used \in Counts /\ Sum(used, 1) \in Counts
    <2>1. 1 \in Counts /\ used \in Counts
      BY WorkflowAssumption DEF Counts, RolesInv, RolesTypeOK
    <2>2. done \in Nat /\ RoleStart <= done /\ done <= RoleCount[stage]
      BY <1>1 DEF RolesInv, RolesTypeOK, AtWork
    <2>3. stage \in Stages /\ RoleStart \in 0 .. RoleCount[stage]
      BY <1>1, StartAt
    <2>4. RoleCount[stage] \in 1 .. 3
      BY <2>3, Pipeline
    <2> QED
      BY <2>1, <2>2, <2>3, <2>4, SumIsCount
  <1> USE <1>1, <1>2, AnswersRefine DEF Executing
  <1>3. ASSUME NEW a, RoleFails(a)
        PROVE  ExecutorCompletes \/ ExecutorFails
    BY <1>3 DEF RoleFails
  <1>4. CASE RequirementsRole \/ PlanningRole \/ PlanningRepeats \/ IssueRole
          \/ DeveloperDone \/ Documenter \/ TesterPasses \/ MergePlan \/ Push
          \/ \E decision \in {"approve", "request_changes"} : Review(decision)
    BY <1>4 DEF RequirementsRole, PlanningRole, PlanningRepeats, IssueRole, DeveloperDone,
                Documenter, TesterPasses, MergePlan, Push, Review, GoOn
  <1>5. CASE RequirementsFails \/ IssueFails \/ MergeRoleFails
    BY <1>3, <1>5 DEF RequirementsFails, IssueFails, MergeRoleFails
  <1>6. CASE RequirementsDone \/ PlanningApproved \/ CreateIssue \/ TestingDone \/ Automate
    BY <1>6 DEF RequirementsDone, PlanningApproved, CreateIssue, TestingDone, Automate
  <1>7. CASE PlanningFails \/ DocumenterFails
    BY <1>7 DEF PlanningFails, DocumenterFails
  <1>8. CASE IssueDrafted
    BY <1>8 DEF IssueDrafted, GoOn
  <1>9. CASE DeveloperFails
    BY <1>9 DEF DeveloperFails
  <1>10. CASE DevelopmentDone
    BY <1>10 DEF DevelopmentDone
  <1>11. CASE TesterRejects
    BY <1>11 DEF TesterRejects
  <1>12. CASE MergeGate
    BY <1>12 DEF MergeGate, OpenMerge
  <1>13. CASE Prepare
    <2>1. 2 \in RoleStart .. RoleCount[stage]
      BY <1>13, Pipeline DEF Prepare
    <2> QED
      BY <1>13, <2>1 DEF Prepare, GoOn
  <1> QED
    BY <1>4, <1>5, <1>6, <1>7, <1>8, <1>9, <1>10, <1>11, <1>12, <1>13 DEF Execute

LEMMA RolesRefine ==
    ASSUME Inv, RolesInv, [RolesNext]_rolesVars
    PROVE  [Next]_vars
  <1>1. CASE \E again \in BOOLEAN : RStart(again)
    BY <1>1 DEF RStart, Next
  <1>2. CASE RClearMarker \/ RWritePlan \/ RLoad \/ RCheck \/ RBeginStage \/ RSave
    BY <1>2 DEF RClearMarker, RWritePlan, RLoad, RCheck, RBeginStage, RSave, Next, Run
  <1>3. CASE Execute
    BY <1>3, ExecuteRefines DEF Next, Run
  <1>4. CASE CreateIssueThrows \/ MergeThrows
    BY <1>4 DEF CreateIssueThrows, MergeThrows, Throws, Next
  <1>5. CASE RThrow \/ RCrash \/ RLockGoesStale \/ RCancel
    BY <1>5 DEF RThrow, RCrash, RLockGoesStale, RCancel, Next
  <1>6. CASE UNCHANGED rolesVars
    BY <1>6 DEF rolesVars
  <1> QED
    BY <1>1, <1>2, <1>3, <1>4, <1>5, <1>6 DEF RolesNext, RolesRun

-----------------------------------------------------------------------------
(* The invariant of the roles.                                             *)

LEMMA PlansAllowed ==
    /\ NoArtifacts \in Artifacts /\ Allowed(NoArtifacts)
    /\ \A a \in PolicyPlans : a \in Artifacts /\ Allowed(a)
  <1>1. NoArtifacts \in Artifacts /\ Allowed(NoArtifacts)
    BY DEF NoArtifacts, Artifacts, Allowed
  <1>2. ASSUME NEW a \in PolicyPlans
        PROVE  a \in Artifacts /\ Allowed(a)
    <2>1. PICK skip \in SUBSET CanSkip, approval \in BOOLEAN :
             a = PlanOf(skip, approval)
      BY DEF PolicyPlans, PlansByWords
    <2>2. skip \in SUBSET Optional
      BY RolesAssumption
    <2>3. a \in Artifacts
      BY <2>1, <2>2 DEF PlanOf, NoArtifacts, Artifacts
    <2> QED
      BY <2>3 DEF PolicyPlans, Allowed
  <1> QED
    BY <1>1, <1>2

LEMMA RolesInvInit == RolesInit => RolesInv
  <1> SUFFICES ASSUME RolesInit
               PROVE  RolesInv
    OBVIOUS
  <1>1. unasked \in BOOLEAN /\ ~unasked
    BY Zenon DEF RolesInit
  <1> QED
    BY <1>1, PlansAllowed, Firsts
    DEF RolesInit, Init, RolesInv, RolesTypeOK, Places, Present, Looping, AtRest

(* A write hands on what the state in memory records.                      *)
LEMMA HandedWritten ==
    ASSUME state \in WorkflowStates, NEW w \in Written(state), NEW a, Handed(state, a)
    PROVE  Handed(w, a) /\ w # NoState
  BY WrittenKeeps, StateIsPresent DEF Handed

(* Nothing is recorded in a state that has no progress.                    *)
LEMMA HandedInitially ==
    ASSUME NEW s, s \in {InitialState, [InitialState EXCEPT !.planned = TRUE]}, NEW a
    PROVE  Handed(s, a)
  <1>1. s.progress = [t \in Stages |-> 0] /\ s.completed = <<>>
    BY DEF InitialState
  <1>2. Development \in Stages
    BY Pipeline DEF Development
  <1> QED
    BY <1>1, <1>2 DEF Handed, Testing, Issue

LEMMA RStartKeeps ==
    ASSUME RolesInv, NEW again \in BOOLEAN, RStart(again)
    PROVE  RolesInv'
  <1>1. arts' \in Artifacts /\ Allowed(arts')
    BY PlansAllowed DEF RStart
  <1>2. UNCHANGED <<fileArts, done, at, used, unasked, issues, tree, slips, disk>>
    BY DEF RStart, Idle, executor, world, Start
  <1>3. pc = "idle" /\ pc' \in {"load", "clear"}
    BY DEF RStart, Start
  <1> QED
    BY <1>1, <1>2, <1>3
    DEF RolesInv, RolesTypeOK, Allowed, Present, Looping, AtRest, Handed

LEMMA RClearMarkerKeeps ==
    ASSUME Inv, RolesInv, RClearMarker
    PROVE  RolesInv'
  <1>1. arts' \in Artifacts /\ Allowed(arts')
    BY PlansAllowed DEF RClearMarker, RolesInv, RolesTypeOK
  <1>2. UNCHANGED <<fileArts, done, at, used, unasked, tree, disk>> /\ issues' = 0 /\ slips' = {}
    BY DEF RClearMarker, executor, ClearMarker
  <1>3. pc = "clear" /\ pc' \in {"plan", "check"} /\ state' = InitialState
    BY DEF RClearMarker, ClearMarker, Inv, Position
  <1>4. Handed(state', arts')
    BY <1>3, HandedInitially
  <1> QED
    BY <1>1, <1>2, <1>3, <1>4
    DEF RolesInv, RolesTypeOK, Allowed, Present, Looping, AtRest, Handed

LEMMA RWritePlanKeeps ==
    ASSUME Inv, RolesInv, RWritePlan
    PROVE  RolesInv'
  <1>1. /\ UNCHANGED <<arts, done, at, used, unasked, issues, tree, slips>>
        /\ fileArts' = arts
    BY DEF RWritePlan, Idle, executor, world
  <1>2. /\ pc = "plan" /\ pc' = "check"
        /\ state' = [InitialState EXCEPT !.planned = TRUE] /\ disk' = state'
    BY DEF RWritePlan, WritePlan, Inv, Position
  <1>3. Handed(state', arts') /\ Handed(disk', fileArts')
    BY <1>2, HandedInitially
  <1> QED
    BY <1>1, <1>2, <1>3
    DEF RolesInv, RolesTypeOK, Allowed, Present, Looping, AtRest, Handed

LEMMA RLoadKeeps ==
    ASSUME Inv, RolesInv, RLoad
    PROVE  RolesInv'
  <1>1. UNCHANGED <<fileArts, done, at, used, unasked, issues, tree, slips, disk>>
    BY DEF RLoad, Load, Idle, executor, world
  <1>2. pc = "load" /\ pc' \in {"check", "idle"}
    BY DEF RLoad, Load
  <1>3. arts' \in Artifacts /\ Allowed(arts')
    BY PlansAllowed DEF RLoad, Carry, RolesInv, RolesTypeOK
  <1>4. pc' = "check" => Handed(state', arts')
    <2> SUFFICES ASSUME pc' = "check"
                 PROVE  Handed(state', arts')
      OBVIOUS
    <2>1. CASE disk = NoState
      <3>1. state' = InitialState
        BY <2>1 DEF RLoad, Load, Inv, Position
      <3> QED
        BY <3>1, HandedInitially
    <2>2. CASE disk # NoState
      <3>1. state' = disk /\ arts' = fileArts
        BY <2>2 DEF RLoad, Load, Carry
      <3> QED
        BY <2>2, <3>1 DEF RolesInv, Present
    <2> QED
      BY <2>1, <2>2
  <1> QED
    BY <1>1, <1>2, <1>3, <1>4
    DEF RolesInv, RolesTypeOK, Allowed, Present, Looping, AtRest, Handed

LEMMA RCheckKeeps ==
    ASSUME Inv, RolesInv, RCheck
    PROVE  RolesInv'
  <1>1. UNCHANGED <<fileArts, arts, done, at, used, unasked, issues, tree, slips, disk>>
    BY DEF RCheck, Check, Carry, Idle, executor, world
  <1>2. pc = "check" /\ pc' \in {"save", "begin"}
    BY DEF RCheck, Check
  <1>3. state'.progress = state.progress /\ state'.completed = state.completed
    BY <1>2 DEF RCheck, Check, Inv, TypeOK, WorkflowStates
  <1> QED
    BY <1>1, <1>2, <1>3
    DEF RolesInv, RolesTypeOK, Allowed, Present, Looping, AtRest, Handed

LEMMA RBeginStageKeeps ==
    ASSUME Inv, RolesInv, RBeginStage
    PROVE  RolesInv'
  <1>1. /\ UNCHANGED <<arts, at, used, unasked, issues, tree, slips, state, stage, start, resume>>
        /\ fileArts' = arts /\ done' = RoleStart
        /\ pc = "begin" /\ pc' = "execute"
        /\ disk' \in Written(state)
    BY DEF RBeginStage, BeginStage, world, runVars
  <1>2. /\ stage \in Stages /\ stage = NextStage(state) /\ state \in WorkflowStates
        /\ RoleStart \in 0 .. RoleCount[stage]
        /\ RoleStart > 0 => RoleStart = state.progress[stage]
    BY <1>1, StartAt
  <1>3. Handed(state, arts)
    BY <1>1 DEF RolesInv, Looping
  <1>4. Handed(disk', fileArts')
    BY <1>1, <1>2, <1>3, HandedWritten
  <1>5. RoleStart' = RoleStart
    BY <1>1 DEF RoleStart
  <1>6. AtWork'
    BY <1>1, <1>2, <1>3, <1>5 DEF AtWork, RolesInv, AtRest, Handed, Skipped
  <1>7. done' \in 0 .. 3
    BY <1>1, <1>2, Pipeline
  <1> QED
    BY <1>1, <1>3, <1>4, <1>6, <1>7
    DEF RolesInv, RolesTypeOK, Allowed, Present, Looping, AtRest, Handed

LEMMA RSaveKeeps ==
    ASSUME Inv, RolesInv, RSave
    PROVE  RolesInv'
  <1>1. /\ UNCHANGED <<done, at, used, unasked, issues, tree, slips, state>>
        /\ fileArts' = arts
        /\ pc = "save" /\ pc' \in {"check", "idle"}
        /\ disk' \in Written(state)
    BY DEF RSave, Save, Idle, executor, world
  <1>2. arts' \in Artifacts /\ Allowed(arts')
    BY PlansAllowed DEF RSave, Carry, RolesInv, RolesTypeOK
  <1>3. pc' = "check" => arts' = arts
    BY DEF RSave, Carry
  <1>4. state \in WorkflowStates /\ Handed(state, arts)
    BY <1>1 DEF Inv, TypeOK, RolesInv, Looping
  <1>5. Handed(disk', fileArts')
    BY <1>1, <1>4, HandedWritten
  <1> QED
    BY <1>1, <1>2, <1>3, <1>4, <1>5
    DEF RolesInv, RolesTypeOK, Allowed, Present, Looping, AtRest, Handed

(* A run that ends before its time leaves the file's record behind.        *)
LEMMA EndingKeeps ==
    ASSUME RolesInv, Gone, pc' \notin {"execute", "check", "begin", "save"},
           UNCHANGED <<fileArts, disk, tree>>, issues' \in 0 .. 2, slips' \subseteq Slips
    PROVE  RolesInv'
  <1>1. arts' \in Artifacts /\ Allowed(arts')
    BY PlansAllowed DEF Gone
  <1>2. unasked' \in BOOLEAN /\ ~unasked'
    BY Zenon DEF Gone, Returned
  <1>3. done' = 0 /\ at' = "roles" /\ used' = 0
    BY DEF Gone, Returned
  <1> QED
    BY <1>1, <1>2, <1>3, Firsts
    DEF RolesInv, RolesTypeOK, Allowed, Present, Looping, AtRest, Places, Handed

LEMMA FaultsKeepRoles ==
    ASSUME RolesInv, RThrow \/ RCrash \/ CreateIssueThrows \/ MergeThrows
    PROVE  RolesInv'
  <1>1. Gone /\ pc' \in {"idle", "orphaned"} /\ UNCHANGED <<fileArts, disk, tree>>
    BY DEF RThrow, RCrash, CreateIssueThrows, MergeThrows, Throws, Throw, Crash, world
  <1>2. issues' \in 0 .. 2 /\ slips' \subseteq Slips
    <2>1. issues \in 0 .. 2 /\ Many(issues) \in 0 .. 2 /\ slips \subseteq Slips
      BY DEF Many, RolesInv, RolesTypeOK
    <2>2. CASE RThrow \/ RCrash
      BY <2>1, <2>2 DEF RThrow, RCrash, Forgets, Slips
    <2>3. CASE CreateIssueThrows \/ MergeThrows
      BY <2>1, <2>3 DEF CreateIssueThrows, MergeThrows, world, Slips
    <2> QED
      BY <2>2, <2>3
  <1> QED
    BY <1>1, <1>2, EndingKeeps

LEMMA RestKeepsRoles ==
    ASSUME Inv, RolesInv, RLockGoesStale \/ RCancel \/ UNCHANGED rolesVars
    PROVE  RolesInv'
  <1>1. UNCHANGED <<fileArts, arts, done, at, used, unasked, issues, tree, slips>>
    BY DEF RLockGoesStale, RCancel, rolesVars, roleVars
  <1>2. UNCHANGED <<disk, state, stage, start, resume>>
    BY DEF RLockGoesStale, RCancel, rolesVars, vars, LockGoesStale, Cancel, runVars
  <1>3. pc' = pc \/ (pc = "orphaned" /\ pc' = "idle")
    BY DEF RLockGoesStale, RCancel, rolesVars, vars, LockGoesStale, Cancel
  <1>4. RoleStart' = RoleStart
    BY <1>2 DEF RoleStart
  <1>5. pc = "execute" => AtWork'
    BY <1>1, <1>2, <1>4 DEF RolesInv, AtWork, Skipped
  <1> QED
    BY <1>1, <1>2, <1>3, <1>5
    DEF RolesInv, RolesTypeOK, Allowed, Present, Looping, AtRest, Handed

-----------------------------------------------------------------------------
(* The executors.                                                          *)

(* What an executor may make of the artifacts it works on.                 *)
Improves(a) ==
    /\ a \in Artifacts
    /\ a.skip = arts.skip /\ a.approval = arts.approval
    /\ arts.dev => a.dev
    /\ arts.docs => a.docs
    /\ arts.issue => a.issue
    /\ stage # Testing => a.verified = arts.verified

WorkDone == arts.dev /\ arts.verified /\ (arts.docs \/ Skipped("documenter"))

(* An executing stage finds in the artifacts what came before it.          *)
LEMMA ExecutingFacts ==
    ASSUME Inv, RolesInv, pc = "execute"
    PROVE  /\ stage \in 1 .. 6 /\ stage \in Stages
           /\ Len(state.completed) = stage - 1
           /\ state \in WorkflowStates
           /\ Present /\ disk.completed = state.completed
           /\ Handed(state, arts) /\ AtWork
           /\ RoleStart \in 0 .. RoleCount[stage]
           /\ done \in RoleStart .. RoleCount[stage] /\ done \in 0 .. 3
           /\ stage = Merge => WorkDone
  <1>1. /\ stage \in Stages /\ stage = NextStage(state)
        /\ state \in WorkflowStates /\ Consistent(state)
        /\ RoleStart \in 0 .. RoleCount[stage]
    BY StartAt
  <1>2. Len(state.completed) \in Nat /\ Len(state.completed) = stage - 1
    BY <1>1, Pipeline DEF NextStage, WorkflowStates
  <1>3. Handed(state, arts) /\ AtWork /\ done \in 0 .. 3
    BY DEF RolesInv, Looping, RolesTypeOK
  <1>4. stage = Merge => WorkDone
    <2> SUFFICES ASSUME stage = Merge
                 PROVE  WorkDone
      OBVIOUS
    <2>1. Development \in Stages /\ Development < NextStage(state)
      BY <1>1, Pipeline DEF Development, Merge
    <2>2. state.progress[Development] = 2
      BY <1>1, <2>1, Pipeline DEF Consistent, AgreesWithProgress
    <2>3. Len(state.completed) >= Testing
      BY <1>2 DEF Testing, Merge
    <2> QED
      BY <1>3, <2>2, <2>3 DEF Handed, Skipped, WorkDone
  <1>5. Present /\ disk.completed = state.completed
    BY DEF Inv, Position
  <1>6. RoleCount[stage] \in 1 .. 3
    BY <1>1, Pipeline
  <1>7. done \in RoleStart .. RoleCount[stage]
    BY <1>1, <1>3, <1>6 DEF AtWork
  <1> QED
    BY <1>1, <1>2, <1>3, <1>4, <1>5, <1>7, Pipeline

(* Going on to the next role or place.                                     *)
LEMMA GoOnKeeps ==
    ASSUME Inv, RolesInv, pc = "execute",
           NEW d \in done .. RoleCount[stage], NEW place \in Places, NEW a,
           GoOn(d, place, a), Improves(a),
           used' \in Counts, issues' \in 0 .. 2,
           tree' \in {"none", "clean", "dirty", "committed"}, slips' \subseteq Slips,
           place = "create" => stage = Issue /\ d = 1,
           place \in {"prepare", "push", "automate"} => stage = Merge /\ a.gate = "approve",
           place \in {"create", "prepare", "push", "automate"} => HasAdapter,
           stage = Development => /\ d > 0 => a.dev
                                  /\ d > 1 => a.docs \/ Skipped("documenter")
    PROVE  RolesInv'
  <1>1. /\ stage \in 1 .. 6 /\ Len(state.completed) = stage - 1
        /\ Handed(state, arts)
        /\ RoleStart \in 0 .. RoleCount[stage] /\ done \in RoleStart .. RoleCount[stage]
        /\ done \in 0 .. 3 /\ RoleCount[stage] \in 1 .. 3
    BY ExecutingFacts, Pipeline
  <1>2. UNCHANGED <<fileArts, disk, state, stage, start, resume, pc, unasked>>
    BY DEF GoOn, vars
  <1>3. done' = d /\ at' = place /\ arts' = a
    BY DEF GoOn
  <1>4. d \in 0 .. 3 /\ RoleStart <= d /\ d <= RoleCount[stage]
    BY <1>1
  <1>5. RoleStart' = RoleStart
    BY <1>2 DEF RoleStart
  <1>6. Handed(state, a)
    BY <1>1 DEF Handed, Improves, Testing, Issue
  <1>7. Allowed(a)
    BY DEF Improves, Allowed, RolesInv
  <1>8. AtWork'
    BY <1>2, <1>3, <1>4, <1>5 DEF AtWork, Improves, Skipped
  <1> QED
    BY <1>2, <1>3, <1>4, <1>6, <1>7, <1>8
    DEF RolesInv, RolesTypeOK, Improves, Present, Looping, Handed, Allowed

(* What an answer with progress p leaves in the state.                     *)
LEMMA MergedFacts ==
    ASSUME Inv, RolesInv, pc = "execute",
           NEW p \in RoleStart .. RoleCount[stage], NEW n \in Counts, NEW error
    PROVE  LET m == Merged(p, n) IN
           /\ \A s \in {m, StopFor(m, error), CompleteStage(m)} :
                 /\ s.progress = [state.progress EXCEPT ![stage] = p]
                 /\ s.planned = state.planned
           /\ StopFor(m, error).completed = state.completed
           /\ CompleteStage(m).completed = Append(state.completed, stage)
  <1>1. /\ state \in WorkflowStates /\ stage \in Stages
        /\ RoleStart \in 0 .. RoleCount[stage] /\ RoleCount[stage] \in 1 .. 3
    BY ExecutingFacts, Pipeline
  <1> DEFINE m == Merged(p, n)
  <1>2. /\ m \in WorkflowStates
        /\ m.progress = [state.progress EXCEPT ![stage] = p]
        /\ m.planned = state.planned /\ m.completed = state.completed
    <2>1. Sum(state.runs, n) \in Counts
      BY <1>1, SumIsCount DEF WorkflowStates
    <2>2. p \in Nat
      BY <1>1
    <2> QED
      BY <1>1, <2>1, <2>2 DEF Merged, WorkflowStates
  <1>3. /\ StopFor(m, error).progress = m.progress
        /\ StopFor(m, error).planned = m.planned
        /\ StopFor(m, error).completed = m.completed
    BY <1>2 DEF StopFor, WorkflowStates
  <1>4. /\ CompleteStage(m).progress = m.progress
        /\ CompleteStage(m).planned = m.planned
        /\ CompleteStage(m).completed = Append(m.completed, stage)
    BY <1>2 DEF CompleteStage, WorkflowStates
  <1> QED
    BY <1>2, <1>3, <1>4

LEMMA FailedMerges ==
    ASSUME Inv, RolesInv, pc = "execute",
           NEW p \in RoleStart .. RoleCount[stage], NEW n \in Counts, NEW a,
           AnswerFailed(p, a, n)
    PROVE  /\ state'.progress = [state.progress EXCEPT ![stage] = p]
           /\ state'.planned = state.planned
           /\ state'.completed = state.completed
           /\ arts' = a /\ pc' = "save" /\ Returned
           /\ UNCHANGED <<disk, fileArts, faults>>
  <1>1. \E error : state' = StopFor(Merged(p, n), error)
    BY DEF AnswerFailed
  <1> QED
    BY <1>1, MergedFacts DEF AnswerFailed

LEMMA CompletedMerges ==
    ASSUME Inv, RolesInv, pc = "execute", NEW n \in Counts, NEW a,
           AnswerCompleted(a, n)
    PROVE  /\ state'.progress = [state.progress EXCEPT ![stage] = RoleCount[stage]]
           /\ state'.planned = state.planned
           /\ state'.completed \in {state.completed, Append(state.completed, stage)}
           /\ ~state.planned => state'.completed = Append(state.completed, stage)
           /\ arts' = a /\ pc' = "save" /\ Returned
           /\ UNCHANGED <<disk, fileArts, faults>>
  <1> DEFINE m == Merged(RoleCount[stage], n)
  <1>1. RoleCount[stage] \in RoleStart .. RoleCount[stage]
    <2>1. RoleStart \in 0 .. RoleCount[stage] /\ RoleCount[stage] \in 1 .. 3
      BY ExecutingFacts, Pipeline
    <2> QED
      BY <2>1
  <1>2. state' = IF OverBudget(m) THEN StopFor(m, "budget") ELSE CompleteStage(m)
    BY DEF AnswerCompleted
  <1>3. m.planned = state.planned
    BY <1>1, MergedFacts
  <1>4. ~state.planned => ~OverBudget(m)
    BY <1>3 DEF OverBudget
  <1>5. /\ \A s \in {m, StopFor(m, "budget"), CompleteStage(m)} :
             /\ s.progress = [state.progress EXCEPT ![stage] = RoleCount[stage]]
             /\ s.planned = state.planned
        /\ StopFor(m, "budget").completed = state.completed
        /\ CompleteStage(m).completed = Append(state.completed, stage)
    BY <1>1, MergedFacts
  <1> HIDE DEF m
  <1> QED
    BY <1>2, <1>4, <1>5 DEF AnswerCompleted

(* The executor answers, in failure with progress p or in success.         *)
LEMMA AnsweringKeeps ==
    ASSUME Inv, RolesInv, pc = "execute",
           NEW p \in RoleStart .. RoleCount[stage], NEW n \in Counts, NEW a,
           \/ AnswerFailed(p, a, n)
           \/ /\ AnswerCompleted(a, n) /\ p = RoleCount[stage]
              /\ stage = Testing => a.verified
              /\ stage = Issue /\ HasAdapter => a.issue,
           Improves(a), issues' \in 0 .. 2,
           tree' \in {"none", "clean", "dirty", "committed"}, slips' \subseteq Slips,
           stage = Development => /\ p > 0 => a.dev
                                  /\ p > 1 => a.docs \/ Skipped("documenter")
    PROVE  RolesInv'
  <1>1. /\ stage \in 1 .. 6 /\ stage \in Stages /\ Len(state.completed) = stage - 1
        /\ state \in WorkflowStates /\ Handed(state, arts)
        /\ RoleStart \in 0 .. RoleCount[stage]
    BY ExecutingFacts
  <1>2. /\ state'.progress = [state.progress EXCEPT ![stage] = p]
        /\ arts' = a /\ pc' = "save" /\ Returned
        /\ UNCHANGED <<disk, fileArts>>
        /\ \/ state'.completed = state.completed
           \/ /\ state'.completed = Append(state.completed, stage)
              /\ stage = Testing => a.verified
              /\ stage = Issue /\ HasAdapter => a.issue
    BY FailedMerges, CompletedMerges
  <1>3. /\ state'.progress[Development]
              = IF stage = Development THEN p ELSE state.progress[Development]
        /\ p \in Nat
    BY <1>1, <1>2, Pipeline DEF WorkflowStates, Development
  <1>4. /\ Len(state'.completed) \in {stage - 1, stage}
        /\ Len(state'.completed) = stage =>
              /\ stage = Testing => a.verified
              /\ stage = Issue /\ HasAdapter => a.issue
    BY <1>1, <1>2 DEF WorkflowStates
  <1>5. Handed(state', a)
    <2>1. /\ state'.progress[Development] > 0 => a.dev
          /\ state'.progress[Development] > 1 => a.docs \/ "documenter" \in a.skip
      BY <1>1, <1>3 DEF Handed, Improves, Skipped
    <2>2. Len(state'.completed) >= Testing => a.verified
      BY <1>1, <1>4 DEF Handed, Improves, Testing
    <2>3. HasAdapter /\ Len(state'.completed) >= Issue => a.issue
      BY <1>1, <1>4 DEF Handed, Improves, Issue
    <2> QED
      BY <2>1, <2>2, <2>3 DEF Handed
  <1>6. Allowed(a)
    BY DEF Improves, Allowed, RolesInv
  <1>7. AtRest' /\ unasked' \in BOOLEAN
    BY <1>2, Zenon DEF Returned, AtRest
  <1> QED
    BY <1>2, <1>5, <1>6, <1>7, Firsts
    DEF RolesInv, RolesTypeOK, Improves, Present, Looping, AtRest, Places, Handed, Allowed

LEMMA ExecuteKeeps ==
    ASSUME Inv, RolesInv, Execute
    PROVE  RolesInv'
  <1>1. pc = "execute"
    BY DEF Execute, RequirementsRole, RequirementsFails, RequirementsDone, PlanningRole,
       PlanningRepeats, PlanningApproved, PlanningFails, IssueRole, IssueFails,
       IssueDrafted, CreateIssue, DeveloperDone, DeveloperFails, Documenter,
       DocumenterFails, DevelopmentDone, TesterPasses, TesterRejects, TestingDone,
       Review, MergePlan, MergeRoleFails, MergeGate, Prepare, Push, Automate, Executing
  <1>2. /\ stage \in 1 .. 6 /\ AtWork
        /\ RoleStart \in 0 .. RoleCount[stage]
        /\ done \in RoleStart .. RoleCount[stage] /\ done \in 0 .. 3
    BY <1>1, ExecutingFacts
  <1>3. /\ used \in Counts /\ Sum(used, 1) \in Counts
        /\ issues \in 0 .. 2 /\ Many(issues) \in 0 .. 2
        /\ tree \in {"none", "clean", "dirty", "committed"} /\ slips \subseteq Slips
        /\ arts \in Artifacts /\ Improves(arts)
    <2>1. 1 \in Counts
      BY WorkflowAssumption DEF Counts
    <2> QED
      BY <2>1, SumIsCount DEF RolesInv, RolesTypeOK, Many, Improves
  <1>4. /\ "roles" \in Places /\ "create" \in Places /\ "prepare" \in Places
        /\ "push" \in Places /\ "automate" \in Places
    BY DEF Places
  <1> USE <1>1, <1>2, <1>3 DEF Executing
  <1>5. ASSUME NEW a, RoleFails(a), Improves(a)
        PROVE  RolesInv'
    <2>1. AnswerFailed(done, a, used) /\ UNCHANGED <<issues, tree, slips>>
      BY <1>5 DEF RoleFails, world
    <2>2. ASSUME stage = Development
          PROVE  /\ done > 0 => a.dev
                 /\ done > 1 => a.docs \/ Skipped("documenter")
      BY <1>5, <2>2 DEF AtWork, Improves
    <2>3. CASE stage = Development
      BY <1>5, <2>1, <2>2, <2>3, AnsweringKeeps
    <2>4. CASE stage # Development
      BY <1>5, <2>1, <2>4, AnsweringKeeps
    <2> QED
      BY <2>3, <2>4
  <1>6. CASE RequirementsRole \/ PlanningRole
    <2>1. /\ GoOn(done + 1, "roles", arts) /\ used' \in Counts
          /\ UNCHANGED <<issues, tree, slips>> /\ stage # Development
          /\ done + 1 \in done .. RoleCount[stage]
      BY <1>6, Pipeline
      DEF RequirementsRole, PlanningRole, RunsRole, world, Development, Requirements, Planning
    <2> QED
      BY <1>4, <2>1, GoOnKeeps
  <1>7. CASE PlanningRepeats
    <2>1. /\ GoOn(done, "roles", arts) /\ used' \in Counts
          /\ UNCHANGED <<issues, tree, slips>> /\ stage # Development
          /\ done \in done .. RoleCount[stage]
      BY <1>7, Pipeline DEF PlanningRepeats, RunsRole, world, Development, Planning
    <2> QED
      BY <1>4, <2>1, GoOnKeeps
  <1>8. CASE IssueRole \/ TesterPasses \/ MergePlan
    <2>1. PICK d \in {1, 2} : /\ GoOn(d, "roles", arts) /\ used' \in Counts
                             /\ UNCHANGED <<issues, tree, slips>> /\ stage # Development
                             /\ d \in done .. RoleCount[stage]
      BY <1>8, Pipeline
      DEF IssueRole, TesterPasses, MergePlan, RunsRole, world, Development, Issue, Testing,
          Merge
    <2> QED
      BY <1>4, <2>1, GoOnKeeps
  <1>9. CASE RequirementsFails \/ IssueFails
    BY <1>5, <1>9 DEF RequirementsFails, IssueFails
  <1>10. CASE MergeRoleFails
    <2>1. Improves(GateOrChanges)
      BY DEF GateOrChanges, Improves, Artifacts
    <2> QED
      BY <1>5, <1>10, <2>1 DEF MergeRoleFails
  <1>11. CASE RequirementsDone \/ PlanningApproved
    <2>1. /\ AnswerCompleted(arts, used) /\ UNCHANGED <<issues, tree, slips>>
          /\ stage \notin {Development, Testing, Issue}
          /\ RoleCount[stage] \in RoleStart .. RoleCount[stage]
      BY <1>11, Pipeline
      DEF RequirementsDone, PlanningApproved, world, Development, Testing, Issue,
          Requirements, Planning
    <2> QED
      BY <2>1, AnsweringKeeps
  <1>12. CASE PlanningFails
    <2>1. /\ AnswerFailed(done, arts, used) /\ UNCHANGED <<issues, tree, slips>>
          /\ stage # Development
      BY <1>12 DEF PlanningFails, world, Development, Planning
    <2> QED
      BY <2>1, AnsweringKeeps
  <1>13. CASE IssueDrafted
    <2>1. /\ UNCHANGED <<issues, tree, slips>> /\ stage = Issue /\ done = 1
          /\ stage \notin {Development, Testing}
          /\ 1 \in RoleStart .. RoleCount[stage] /\ RoleCount[stage] = 1
          /\ \/ HasAdapter /\ GoOn(1, "create", arts) /\ used' = used
             \/ ~HasAdapter /\ AnswerCompleted(arts, used)
      BY <1>13, Pipeline DEF IssueDrafted, world, Development, Testing, Issue
    <2>2. CASE HasAdapter /\ GoOn(1, "create", arts) /\ used' = used
      BY <1>4, <2>1, <2>2, GoOnKeeps
    <2>3. CASE ~HasAdapter /\ AnswerCompleted(arts, used)
      BY <2>1, <2>3, AnsweringKeeps
    <2> QED
      BY <2>1, <2>2, <2>3
  <1>14. CASE CreateIssue \/ Automate
    <2> DEFINE a == [arts EXCEPT !.issue = TRUE]
    <2>1. Improves(a) /\ a.issue
      BY DEF Improves, Artifacts
    <2>2. /\ AnswerCompleted(a, used) /\ issues' \in 0 .. 2 /\ tree' = tree
          /\ slips' \subseteq Slips
          /\ stage \notin {Development, Testing}
          /\ RoleCount[stage] \in RoleStart .. RoleCount[stage]
      BY <1>14, Pipeline
      DEF CreateIssue, Automate, Slips, Development, Testing, Issue, Merge
    <2> HIDE DEF a
    <2> QED
      BY <2>1, <2>2, AnsweringKeeps
  <1>15. CASE DeveloperDone
    <2> DEFINE a == [arts EXCEPT !.dev = TRUE]
    <2>1. Improves(a) /\ a.dev
      BY DEF Improves, Artifacts
    <2>2. /\ GoOn(1, "roles", a) /\ used' \in Counts /\ UNCHANGED <<issues, slips>>
          /\ tree' \in {"none", "dirty"} /\ stage = Development /\ 1 \in done .. RoleCount[stage]
      BY <1>15, Pipeline DEF DeveloperDone, Changed, RunsRole
    <2> HIDE DEF a
    <2> QED
      BY <1>4, <2>1, <2>2, GoOnKeeps DEF Issue, Merge, Development
  <1>16. CASE DeveloperFails
    <2>1. PICK n \in Counts : AnswerFailed(0, arts, n)
      BY <1>16 DEF DeveloperFails
    <2>2. /\ UNCHANGED <<issues, slips>> /\ tree' \in {"none", "clean", "dirty", "committed"}
          /\ 0 \in RoleStart .. RoleCount[stage]
      BY <1>16, Pipeline DEF DeveloperFails, Changed
    <2> QED
      BY <2>1, <2>2, AnsweringKeeps
  <1>17. CASE Documenter
    <2> DEFINE a == IF Skipped("documenter") THEN arts ELSE [arts EXCEPT !.docs = TRUE]
    <2>1. Improves(a) /\ (a.docs \/ Skipped("documenter"))
      BY DEF Improves, Artifacts
    <2>2. /\ GoOn(2, "roles", a) /\ used' \in Counts /\ UNCHANGED <<issues, tree, slips>>
          /\ stage = Development /\ 2 \in done .. RoleCount[stage]
      BY <1>17, Pipeline DEF Documenter, RunsRole, world
    <2>3. a.dev
      BY <1>17, <2>1, <2>2 DEF Documenter, AtWork, Improves
    <2> HIDE DEF a
    <2> QED
      BY <1>4, <2>1, <2>2, <2>3, GoOnKeeps DEF Issue, Merge, Development
  <1>18. CASE DocumenterFails
    <2>1. /\ AnswerFailed(1, arts, used) /\ UNCHANGED <<issues, tree, slips>>
          /\ 1 \in RoleStart .. RoleCount[stage] /\ stage = Development /\ arts.dev
      BY <1>18, Pipeline DEF DocumenterFails, world, AtWork
    <2> QED
      BY <2>1, AnsweringKeeps
  <1>19. CASE DevelopmentDone
    <2>1. /\ AnswerCompleted(arts, used) /\ UNCHANGED <<issues, tree, slips>>
          /\ 2 \in RoleStart .. RoleCount[stage] /\ RoleCount[stage] = 2
          /\ stage = Development /\ stage \notin {Testing, Issue}
          /\ arts.dev /\ (arts.docs \/ Skipped("documenter"))
      BY <1>19, Pipeline DEF DevelopmentDone, world, AtWork, Development, Testing, Issue
    <2> QED
      BY <2>1, AnsweringKeeps
  <1>20. CASE TesterRejects
    <2> DEFINE a == [arts EXCEPT !.verified = FALSE]
    <2>1. PICK n \in Counts : AnswerFailed(0, a, n)
      BY <1>20 DEF TesterRejects
    <2>2. /\ UNCHANGED <<issues, tree, slips>> /\ stage = Testing /\ stage # Development
          /\ 0 \in RoleStart .. RoleCount[stage]
      BY <1>20, Pipeline DEF TesterRejects, world, Testing, Development
    <2>3. Improves(a)
      BY <2>2 DEF Improves, Artifacts
    <2> HIDE DEF a
    <2> QED
      BY <2>1, <2>2, <2>3, AnsweringKeeps
  <1>21. CASE TestingDone
    <2> DEFINE a == [arts EXCEPT !.verified = TRUE]
    <2>1. /\ AnswerCompleted(a, used) /\ UNCHANGED <<issues, tree, slips>>
          /\ stage = Testing /\ stage \notin {Development, Issue}
          /\ RoleCount[stage] \in RoleStart .. RoleCount[stage]
      BY <1>21, Pipeline DEF TestingDone, world, Testing, Development, Issue
    <2>2. Improves(a) /\ a.verified
      BY <2>1 DEF Improves, Artifacts
    <2> HIDE DEF a
    <2> QED
      BY <2>1, <2>2, AnsweringKeeps
  <1>22. ASSUME NEW decision \in {"approve", "request_changes"}, Review(decision)
         PROVE  RolesInv'
    <2> DEFINE a == [arts EXCEPT !.gate = decision]
    <2>1. Improves(a)
      BY DEF Improves, Artifacts
    <2>2. /\ GoOn(1, "roles", a) /\ used' \in Counts /\ UNCHANGED <<issues, tree, slips>>
          /\ stage # Development /\ 1 \in done .. RoleCount[stage]
      BY <1>22, Pipeline DEF Review, RunsRole, world, Merge, Development
    <2> HIDE DEF a
    <2> QED
      BY <1>4, <2>1, <2>2, GoOnKeeps
  <1>23. CASE MergeGate
    <2>1. /\ UNCHANGED <<issues, tree, slips>> /\ stage = Merge /\ done = 2
          /\ stage \notin {Development, Testing, Issue}
          /\ 2 \in RoleStart .. RoleCount[stage] /\ RoleCount[stage] = 2
          /\ \/ AnswerFailed(2, GateOrChanges, used)
             \/ arts.gate = "approve" /\ HasAdapter /\ OpenMerge
             \/ AnswerCompleted(arts, used)
      BY <1>23, Pipeline DEF MergeGate, world, Development, Testing, Issue, Merge
    <2>2. Improves(GateOrChanges)
      BY DEF GateOrChanges, Improves, Artifacts
    <2>3. CASE AnswerFailed(2, GateOrChanges, used)
      BY <2>1, <2>2, <2>3, AnsweringKeeps
    <2>4. CASE AnswerCompleted(arts, used)
      BY <2>1, <2>4, AnsweringKeeps
    <2>5. CASE arts.gate = "approve" /\ HasAdapter /\ OpenMerge
      <3>1. /\ at' = "prepare" /\ unasked' \in BOOLEAN
            /\ UNCHANGED <<fileArts, arts, done, used, issues, tree, slips>>
            /\ UNCHANGED <<disk, state, pc, stage, start, resume>>
        BY <2>1, <2>5 DEF OpenMerge, vars
      <3>2. RoleStart' = RoleStart
        BY <3>1 DEF RoleStart
      <3>3. AtWork'
        BY <2>1, <2>5, <3>1, <3>2 DEF AtWork, Skipped, Issue, Merge, Development
      <3> QED
        BY <1>4, <3>1, <3>3
        DEF RolesInv, RolesTypeOK, Present, Looping, Handed, Allowed
    <2> QED
      BY <2>1, <2>3, <2>4, <2>5
  <1>24. CASE Prepare
    <2>1. /\ stage = Merge /\ stage # Development /\ UNCHANGED <<issues, slips>>
          /\ HasAdapter /\ tree' \in {"none", "clean", "dirty", "committed"} /\ arts.gate = "approve"
          /\ RoleStart \in 0 .. 2 /\ 2 \in done .. RoleCount[stage]
          /\ 2 \in RoleStart .. RoleCount[stage]
          /\ \/ GoOn(2, "push", arts) /\ used' = used
             \/ AnswerFailed(2, arts, used)
      BY <1>24, Pipeline DEF Prepare, world, AtWork, Development, Merge
    <2>2. CASE GoOn(2, "push", arts) /\ used' = used
      BY <1>4, <2>1, <2>2, GoOnKeeps
    <2>3. CASE AnswerFailed(2, arts, used)
      BY <2>1, <2>3, AnsweringKeeps
    <2> QED
      BY <2>1, <2>2, <2>3
  <1>25. CASE Push
    <2>1. /\ stage = Merge /\ stage # Development /\ arts.gate = "approve"
          /\ HasAdapter /\ GoOn(2, "automate", arts) /\ UNCHANGED <<used, issues, tree, slips>>
          /\ 2 \in done .. RoleCount[stage]
      BY <1>25, Pipeline DEF Push, world, AtWork, Development, Merge
    <2> QED
      BY <1>4, <2>1, GoOnKeeps
  <1> QED
    BY <1>6, <1>7, <1>8, <1>9, <1>10, <1>11, <1>12, <1>13, <1>14, <1>15, <1>16, <1>17,
       <1>18, <1>19, <1>20, <1>21, <1>22, <1>23, <1>24, <1>25
    DEF Execute

LEMMA RolesInvNext ==
    ASSUME Inv, RolesInv, [RolesNext]_rolesVars
    PROVE  RolesInv'
  <1>1. CASE \E again \in BOOLEAN : RStart(again)
    BY <1>1, RStartKeeps
  <1>2. CASE RClearMarker \/ RWritePlan \/ RLoad \/ RCheck \/ RBeginStage \/ RSave
    BY <1>2, RClearMarkerKeeps, RWritePlanKeeps, RLoadKeeps, RCheckKeeps, RBeginStageKeeps,
       RSaveKeeps
  <1>3. CASE Execute
    BY <1>3, ExecuteKeeps
  <1>4. CASE CreateIssueThrows \/ MergeThrows \/ RThrow \/ RCrash
    BY <1>4, FaultsKeepRoles
  <1>5. CASE RLockGoesStale \/ RCancel \/ UNCHANGED rolesVars
    BY <1>5, RestKeepsRoles
  <1> QED
    BY <1>1, <1>2, <1>3, <1>4, <1>5 DEF RolesNext, RolesRun

(* The invariant of the loop and that of the roles hold together: a step   *)
(* of the roles is one of the loop, which keeps the former.                *)
LEMMA RolesInvHolds == RolesSpec => [](Inv /\ RolesInv)
  <1>1. RolesInit => Inv /\ RolesInv
    BY InvInit, RolesInvInit DEF RolesInit
  <1>2. Inv /\ RolesInv /\ [RolesNext]_rolesVars => Inv' /\ RolesInv'
    BY RolesRefine, RolesInvNext, InvNext
  <1> QED
    BY <1>1, <1>2, PTL DEF RolesSpec

-----------------------------------------------------------------------------
(* The issue on GitHub.                                                    *)

(* Where nothing slipped, no issue is made before its stage is at work.    *)
LEMMA ExecutingIssue ==
    ASSUME Inv, RolesInv, IssueInv, pc = "execute", slips = {}
    PROVE  /\ issues \in {0, 1}
           /\ issues > 0 => stage > Issue /\ OnceRecorded(disk)
  BY ExecutingFacts DEF IssueInv, Looping, Issue, RolesInv, RolesTypeOK

(* An executor that makes no issue keeps the record of the one there is.   *)
LEMMA NoIssueKeeps ==
    ASSUME Inv, RolesInv, IssueInv, pc = "execute", UNCHANGED <<issues, slips>>,
           \/ UNCHANGED vars
           \/ \E p \in RoleStart .. RoleCount[stage], n \in Counts : \E a :
                 AnswerFailed(p, a, n)
           \/ \E a : AnswerCompleted(a, used)
    PROVE  IssueInv'
  <1>1. /\ used \in Counts /\ state \in WorkflowStates /\ stage \in 1 .. 6
        /\ slips = {} /\ issues > 0 =>
              issues = 1 /\ OnceRecorded(disk) /\ Len(state.completed) >= Issue
    BY ExecutingFacts, ExecutingIssue DEF RolesInv, RolesTypeOK, IssueInv, Looping
  <1>2. CASE UNCHANGED vars
    BY <1>2 DEF vars, runVars, IssueInv, OnceRecorded, Looping
  <1>3. ASSUME state'.completed \in {state.completed, Append(state.completed, stage)},
               pc' = "save", UNCHANGED <<disk, slips>>
        PROVE  IssueInv'
    <2>1. /\ Len(state.completed) \in Nat /\ Len(state'.completed) \in Nat
          /\ Len(state'.completed) >= Len(state.completed)
      BY <1>1, <1>3 DEF WorkflowStates
    <2> QED
      BY <1>1, <1>3, <2>1 DEF IssueInv, OnceRecorded, Looping, Issue
  <1>4. CASE \E p \in RoleStart .. RoleCount[stage], n \in Counts : \E a :
                AnswerFailed(p, a, n)
    BY <1>3, <1>4, FailedMerges
  <1>5. CASE \E a : AnswerCompleted(a, used)
    BY <1>1, <1>3, <1>5, CompletedMerges
  <1> QED
    BY <1>2, <1>4, <1>5

LEMMA CreateIssueKeeps ==
    ASSUME Inv, RolesInv, IssueInv, CreateIssue
    PROVE  IssueInv'
  <1>1. /\ pc = "execute" /\ stage = Issue /\ at = "create" /\ used \in Counts
        /\ issues \in 0 .. 2
    BY DEF CreateIssue, Executing, RolesInv, RolesTypeOK
  <1>2. HasAdapter
    BY <1>1 DEF RolesInv, AtWork
  <1>3. state \in WorkflowStates /\ Len(state.completed) = Issue - 1
    BY <1>1, ExecutingFacts
  <1> DEFINE m == Merged(RoleCount[stage], used)
  <1>4. CASE OverBudget(m)
    <2>1. state' = StopFor(m, "budget") /\ m \in WorkflowStates
      <3>1. RoleCount[stage] \in Nat /\ stage \in Stages
        BY <1>1, ExecutingFacts, Pipeline
      <3> QED
        BY <1>1, <1>3, <1>4, <3>1, SumIsCount
        DEF CreateIssue, AnswerCompleted, Merged, WorkflowStates
    <2>2. state'.error = "budget"
      BY <2>1 DEF StopFor, WorkflowStates
    <2>3. slips' # {}
      BY <2>2 DEF CreateIssue
    <2> QED
      BY <1>2, <2>3 DEF IssueInv
  <1>5. CASE ~OverBudget(m)
    <2>1. state'.completed = Append(state.completed, stage)
      <3>1. RoleCount[stage] \in RoleStart .. RoleCount[stage]
        BY <1>1, ExecutingFacts, Pipeline
      <3> QED
        BY <1>1, <1>5, <3>1, MergedFacts DEF CreateIssue, AnswerCompleted
    <2>2. Len(state'.completed) = Issue
      <3>1. state.completed \in Seq(Stages)
        BY <1>3 DEF WorkflowStates
      <3>2. Len(state'.completed) = Len(state.completed) + 1
        BY <2>1, <3>1
      <3> QED
        BY <1>3, <3>2 DEF Issue
    <2>3. /\ pc' = "save" /\ stage' = Issue /\ issues' = Many(issues)
          /\ disk' = disk /\ disk # NoState
      BY <1>1, ExecutingFacts DEF CreateIssue, AnswerCompleted, runVars, Present
    <2>4. slips' = {} => issues = 0
      BY <1>1, ExecutingIssue DEF CreateIssue, Issue
    <2> QED
      BY <1>1, <1>2, <2>2, <2>3, <2>4 DEF IssueInv, OnceRecorded, Looping, Many, Issue
  <1> QED
    BY <1>4, <1>5

(* The merge is handed the issue of its workflow, and makes none.          *)
LEMMA AutomateKeeps ==
    ASSUME Inv, RolesInv, IssueInv, Automate
    PROVE  IssueInv'
  <1>1. pc = "execute" /\ stage = Merge /\ at = "automate"
    BY DEF Automate, Executing
  <1>2. HasAdapter
    BY <1>1 DEF RolesInv, AtWork
  <1>3. Handed(state, arts) /\ Len(state.completed) = 5
    BY <1>1, ExecutingFacts DEF Merge
  <1>4. arts.issue
    BY <1>2, <1>3 DEF Handed, Issue
  <1>5. UNCHANGED <<issues, slips>> /\ \E a : AnswerCompleted(a, used)
    BY <1>4 DEF Automate
  <1> QED
    BY <1>1, <1>5, NoIssueKeeps

LEMMA ExecuteKeepsIssue ==
    ASSUME Inv, RolesInv, IssueInv, Execute
    PROVE  IssueInv'
  <1>1. pc = "execute"
    BY DEF Execute, RequirementsRole, RequirementsFails, RequirementsDone, PlanningRole,
       PlanningRepeats, PlanningApproved, PlanningFails, IssueRole, IssueFails,
       IssueDrafted, CreateIssue, DeveloperDone, DeveloperFails, Documenter,
       DocumenterFails, DevelopmentDone, TesterPasses, TesterRejects, TestingDone,
       Review, MergePlan, MergeRoleFails, MergeGate, Prepare, Push, Automate, Executing
  <1>2. /\ RoleStart \in 0 .. RoleCount[stage] /\ RoleCount[stage] \in 1 .. 3
        /\ done \in RoleStart .. RoleCount[stage] /\ used \in Counts
        /\ Sum(used, 1) \in Counts
    <2>1. 1 \in Counts /\ used \in Counts
      BY WorkflowAssumption DEF Counts, RolesInv, RolesTypeOK
    <2> QED
      BY <1>1, <2>1, ExecutingFacts, SumIsCount, Pipeline
  <1>3. CASE CreateIssue \/ Automate
    BY <1>3, CreateIssueKeeps, AutomateKeeps
  <1>4. CASE RequirementsRole \/ PlanningRole \/ PlanningRepeats \/ IssueRole
          \/ DeveloperDone \/ Documenter \/ TesterPasses \/ MergePlan \/ Push
          \/ \E decision \in {"approve", "request_changes"} : Review(decision)
    <2>1. UNCHANGED vars /\ UNCHANGED <<issues, slips>>
      BY <1>4 DEF RequirementsRole, PlanningRole, PlanningRepeats, IssueRole, DeveloperDone,
                  Documenter, TesterPasses, MergePlan, Push, Review, GoOn, world
    <2> QED
      BY <1>1, <2>1, NoIssueKeeps
  <1>5. CASE RequirementsFails \/ IssueFails \/ MergeRoleFails \/ PlanningFails
          \/ DocumenterFails \/ DeveloperFails \/ TesterRejects
    <2>1. /\ \E p \in RoleStart .. RoleCount[stage], n \in Counts : \E a :
                AnswerFailed(p, a, n)
          /\ UNCHANGED <<issues, slips>>
      <3>1. CASE RequirementsFails \/ IssueFails \/ MergeRoleFails \/ PlanningFails
        BY <1>2, <3>1 DEF RequirementsFails, IssueFails, MergeRoleFails, PlanningFails,
                          RoleFails, world
      <3>2. CASE DocumenterFails \/ DeveloperFails \/ TesterRejects
        BY <1>2, <3>2
        DEF DocumenterFails, DeveloperFails, TesterRejects, Executing, world
      <3> QED
        BY <1>5, <3>1, <3>2
    <2> QED
      BY <1>1, <2>1, NoIssueKeeps
  <1>6. CASE RequirementsDone \/ PlanningApproved \/ TestingDone
    <2>1. (\E a : AnswerCompleted(a, used)) /\ UNCHANGED <<issues, slips>>
      BY <1>6 DEF RequirementsDone, PlanningApproved, TestingDone, world
    <2> QED
      BY <1>1, <2>1, NoIssueKeeps
  <1>7. CASE IssueDrafted \/ DevelopmentDone \/ MergeGate \/ Prepare
    <2>1. /\ \/ UNCHANGED vars
             \/ \E p \in RoleStart .. RoleCount[stage], n \in Counts : \E a :
                   AnswerFailed(p, a, n)
             \/ \E a : AnswerCompleted(a, used)
          /\ UNCHANGED <<issues, slips>>
      <3>1. CASE IssueDrafted
        BY <3>1 DEF IssueDrafted, GoOn, world
      <3>2. CASE DevelopmentDone
        BY <1>2, <3>2, Pipeline DEF DevelopmentDone, Executing, world
      <3>3. CASE MergeGate
        <4>1. 2 \in RoleStart .. RoleCount[stage]
          BY <1>2, <3>3, Pipeline DEF MergeGate, Executing
        <4> QED
          BY <1>2, <3>3, <4>1 DEF MergeGate, OpenMerge, world
      <3>4. CASE Prepare
        <4>1. 2 \in RoleStart .. RoleCount[stage]
          BY <1>2, <3>4, Pipeline DEF Prepare, Executing
        <4> QED
          BY <1>2, <3>4, <4>1 DEF Prepare, GoOn, world
      <3> QED
        BY <1>7, <3>1, <3>2, <3>3, <3>4
    <2> QED
      BY <1>1, <2>1, NoIssueKeeps
  <1> QED
    BY <1>3, <1>4, <1>5, <1>6, <1>7 DEF Execute

LEMMA IssueInvInit == RolesInit => IssueInv
  BY DEF RolesInit, Init, IssueInv, Looping

(* A run that ends before its time leaves its issue in the file, or a slip *)
(* behind.                                                                 *)
LEMMA FaultsKeepIssue ==
    ASSUME Inv, RolesInv, IssueInv, RThrow \/ RCrash \/ CreateIssueThrows \/ MergeThrows
    PROVE  IssueInv'
  <1>1. pc' \in {"idle", "orphaned"} /\ UNCHANGED disk
    BY DEF RThrow, RCrash, CreateIssueThrows, MergeThrows, Throws, Throw, Crash
  <1>2. CASE RThrow \/ RCrash
    <2>1. /\ issues' = issues /\ Forgets
          /\ pc \notin {"idle", "orphaned"}
      BY <1>2 DEF RThrow, RCrash, Throw, Crash, Running
    <2>2. ASSUME slips' = {}, issues > 0
          PROVE  OnceRecorded(disk)
      <3>1. slips = {} /\ HasAdapter
        BY <2>1, <2>2 DEF Forgets, IssueInv
      <3>2. pc = "save" /\ stage = Issue => state.completed = disk.completed
        BY <2>1, <2>2, <3>1 DEF Forgets
      <3>3. pc \in Steps
        BY DEF Inv, TypeOK
      <3> QED
        BY <2>1, <2>2, <3>1, <3>2, <3>3 DEF IssueInv, OnceRecorded, Looping, Steps
    <2> QED
      BY <1>1, <2>1, <2>2 DEF IssueInv, OnceRecorded, Looping
  <1>3. CASE CreateIssueThrows
    <2>1. pc = "execute" /\ at = "create" /\ HasAdapter
      BY <1>3 DEF CreateIssueThrows, Executing, RolesInv, AtWork
    <2>2. slips' # {} \/ UNCHANGED <<issues, slips>>
      BY <1>3 DEF CreateIssueThrows
    <2> QED
      BY <1>1, <2>1, <2>2 DEF IssueInv, OnceRecorded, Looping
  <1>4. CASE MergeThrows
    <2>1. pc = "execute" /\ UNCHANGED <<issues, slips>>
      BY <1>4 DEF MergeThrows, Executing, world
    <2> QED
      BY <1>1, <2>1 DEF IssueInv, OnceRecorded, Looping
  <1> QED
    BY <1>2, <1>3, <1>4

LEMMA IssueInvNext ==
    ASSUME Inv, RolesInv, IssueInv, [RolesNext]_rolesVars
    PROVE  IssueInv'
  <1> USE DEF IssueInv, OnceRecorded, Looping
  <1>1. CASE \E again \in BOOLEAN : RStart(again)
    BY <1>1 DEF RStart, Start, Idle, world
  <1>2. CASE RClearMarker
    BY <1>2 DEF RClearMarker, ClearMarker
  <1>3. CASE RWritePlan
    BY <1>3 DEF RWritePlan, WritePlan, Idle, world, RolesInv, RolesTypeOK
  <1>4. CASE RLoad
    BY <1>4 DEF RLoad, Load, Idle, world
  <1>5. CASE RCheck
    <2>1. /\ UNCHANGED <<issues, slips, disk, stage>>
          /\ pc = "check" /\ pc' \in {"save", "begin"}
      BY <1>5 DEF RCheck, Check, Idle, world, runVars
    <2>2. state'.completed = state.completed
      BY <2>1, <1>5 DEF RCheck, Check, Inv, TypeOK, WorkflowStates
    <2> QED
      BY <2>1, <2>2
  <1>6. CASE RBeginStage \/ RSave
    <2>1. /\ disk' \in Written(state) /\ state' = state
          /\ state \in WorkflowStates /\ UNCHANGED <<issues, slips>>
          /\ pc \in {"begin", "save"} /\ pc' \in {"execute", "check", "idle"}
      BY <1>6 DEF RBeginStage, BeginStage, RSave, Save, Idle, world, Inv, TypeOK
    <2>2. disk'.completed = state.completed /\ disk' # NoState
      BY <2>1, WrittenKeeps, StateIsPresent
    <2> QED
      BY <2>1, <2>2
  <1>7. CASE Execute
    BY <1>7, ExecuteKeepsIssue
  <1>8. CASE CreateIssueThrows \/ MergeThrows \/ RThrow \/ RCrash
    BY <1>8, FaultsKeepIssue
  <1>9. CASE RLockGoesStale \/ RCancel \/ UNCHANGED rolesVars
    BY <1>9 DEF RLockGoesStale, RCancel, LockGoesStale, Cancel, rolesVars, roleVars, vars,
                runVars
  <1> QED
    BY <1>1, <1>2, <1>3, <1>4, <1>5, <1>6, <1>7, <1>8, <1>9 DEF RolesNext, RolesRun

-----------------------------------------------------------------------------
(* Theorems.                                                               *)

(* Every behaviour of the roles is a behaviour of the loop: all theorems   *)
(* about the loop hold of the stage executors of the program.              *)
THEOREM RolesImplementWorkflow == RolesSpec => ImplementsWorkflow
  <1>1. RolesInit => Init
    BY DEF RolesInit
  <1>2. Inv /\ RolesInv /\ [RolesNext]_rolesVars => [Next]_vars
    BY RolesRefine
  <1> QED
    BY <1>1, <1>2, RolesInvHolds, PTL DEF RolesSpec, ImplementsWorkflow, Spec

(* Type correctness of the artifacts, the executor and the world.          *)
THEOREM RolesTypeCorrect == RolesSpec => []RolesTypeOK
  <1>1. RolesInv => RolesTypeOK
    BY DEF RolesInv
  <1> QED
    BY <1>1, RolesInvHolds, PTL

(* Whatever was resumed, skipped or retried before, nothing is committed,  *)
(* pushed or merged but through an open gate, verified, documented (or by  *)
(* plan not), and unasked only after a review the plan did not skip on its *)
(* own.                                                                    *)
THEOREM MergesReviewed == RolesSpec => []MergesOnlyReviewed
  <1>1. ASSUME Inv, RolesInv, pc = "execute", at \in {"prepare", "push", "automate"}
        PROVE  /\ arts.gate = "approve" /\ arts.verified /\ arts.dev
               /\ arts.docs \/ Skipped("documenter")
               /\ unasked => ~Skipped("reviewer") \/ arts.approval
    <2>1. stage = Merge /\ arts.gate = "approve"
      BY <1>1 DEF RolesInv, AtWork
    <2>2. Skipped("reviewer") => arts.approval
      BY <1>1 DEF RolesInv, Allowed, Skipped
    <2>3. WorkDone
      BY <1>1, <2>1, ExecutingFacts
    <2> QED
      BY <2>1, <2>2, <2>3 DEF WorkDone
  <1>2. Inv /\ RolesInv => MergesOnlyReviewed
    BY <1>1 DEF MergesOnlyReviewed
  <1> QED
    BY <1>2, RolesInvHolds, PTL

(* A resume that starts at the documenter finds what the developer handed  *)
(* over.                                                                   *)
THEOREM DeveloperKept == RolesSpec => []DeveloperOutputKept
  <1>1. RolesInv => DeveloperOutputKept
    BY DEF RolesInv, AtWork, DeveloperOutputKept
  <1> QED
    BY <1>1, RolesInvHolds, PTL

(* A second issue takes a lost answer to the first, a run that ends before *)
(* the file tells of it, or an issue stage that ran over its budget: no    *)
(* other fault, failure, plan, cancellation or resume makes one.           *)
THEOREM IssueCause == RolesSpec => []IssueRepeatedForCause
  <1>1. Inv /\ RolesInv /\ IssueInv /\ [RolesNext]_rolesVars => IssueInv'
    BY IssueInvNext
  <1>2. RolesSpec => []IssueInv
    BY <1>1, IssueInvInit, RolesInvHolds, PTL DEF RolesSpec
  <1>3. Inv /\ RolesInv /\ IssueInv => IssueRepeatedForCause
    BY DEF IssueInv, OnceRecorded, Looping, IssueRepeatedForCause, Inv, TypeOK, Steps,
           RolesInv, RolesTypeOK
  <1> QED
    BY <1>2, <1>3, RolesInvHolds, PTL
=============================================================================
