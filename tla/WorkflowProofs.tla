---------------------------- MODULE WorkflowProofs ----------------------------
(***************************************************************************)
(* Proofs about Workflow, for every pipeline, every budget and every       *)
(* number of faults.  The invariant says how the file, the run's copy and  *)
(* the loop index agree at each step of the loop; a crash or a throw may   *)
(* leave the file as it is at any of them.                                 *)
(***************************************************************************)
EXTENDS Workflow, TLAPS

AgreesWithProgress(s) ==
    \A t \in Stages : /\ t < NextStage(s) => s.progress[t] = RoleCount[t]
                      /\ t > NextStage(s) => s.progress[t] = 0
                      /\ s.progress[t] <= RoleCount[t]

(* What holds of a workflow state wherever it is kept.                     *)
Consistent(s) ==
    /\ IsStagePrefix(s.completed)
    /\ s.status = "completed" => Len(s.completed) = NumStages /\ s.currentNode = None
    /\ s.currentNode # None => s.currentNode = NextStage(s)
    /\ s.failedStage # None => s.failedStage = NextStage(s)
    /\ OverBudget(s) /\ s.currentStage # None => s.currentStage = NextStage(s)
    /\ AgreesWithProgress(s)

Looping == pc \in {"check", "begin", "execute", "save"}

(* The run's copy has come from the file, or from nothing in a fresh run.  *)
InStep == \/ state.completed = disk.completed
          \/ ~resume /\ state.completed = <<>>

Ahead == state.completed = Append(disk.completed, NextStage(disk))

Position ==
    /\ pc \in {"clear", "load", "plan"} => state = InitialState /\ stage = 1 /\ start = 1
    /\ pc \in {"clear", "plan"} => ~resume
    /\ pc = "load" => resume
    /\ pc \in {"check", "begin", "execute"} =>
           /\ stage = NextStage(state)
           /\ state.status # "completed"
           /\ Present => InStep
    /\ pc \in {"begin", "execute"} =>
           /\ stage <= NumStages
           /\ state.currentStage = stage /\ state.currentNode = stage
           /\ state.failedStage = None
           /\ state.status = "in_progress"
           /\ ~OverBudget(state)
    /\ pc = "execute" => Present /\ disk.completed = state.completed
    /\ pc = "save" =>
           /\ Present => InStep \/ Ahead
           /\ state.status = "in_progress" =>
                  /\ stage <= NumStages
                  /\ NextStage(state) = stage + 1
                  /\ state.currentNode = None /\ state.failedStage = None
                  /\ ~OverBudget(state)

CancelSeen == begun = 1 => marker /\ pc # "begin"

(* In a resumed run the copy is never behind the file, and a stage after   *)
(* the first one starts from nothing.                                      *)
RolesKept ==
    Looping /\ resume =>
        /\ start <= stage
        /\ Present => \A t \in Stages \ Restarting : disk.progress[t] <= state.progress[t]
        /\ pc # "save" /\ start < stage /\ stage <= NumStages => state.progress[stage] = 0
        /\ pc = "save" /\ state.status = "in_progress" /\ stage < NumStages
               => state.progress[stage + 1] = 0

Inv == /\ TypeOK
       /\ Present => Consistent(disk)
       /\ Looping => Consistent(state)
       /\ Position
       /\ CancelStops
       /\ CancelSeen

RoleInv == Inv /\ RolesKept

-----------------------------------------------------------------------------
(* The operators on workflow states keep states, and keep them consistent. *)

LEMMA StateIsPresent == \A s \in WorkflowStates : s # NoState
  <1> SUFFICES ASSUME NEW s \in WorkflowStates, s = NoState
               PROVE  FALSE
    OBVIOUS
  <1>1. "completed" \in DOMAIN s
    BY DEF WorkflowStates
  <1>2. DOMAIN s = {"status"}
    BY DEF NoState
  <1> QED
    BY <1>1, <1>2

LEMMA InitialIsState ==
    /\ InitialState \in WorkflowStates
    /\ Consistent(InitialState)
  <1>1. InitialState \in WorkflowStates
    BY WorkflowAssumption DEF InitialState, WorkflowStates, Stages, None, Errors, Counts
  <1>2. Consistent(InitialState)
    BY WorkflowAssumption
    DEF InitialState, Consistent, IsStagePrefix, NextStage, OverBudget,
        AgreesWithProgress, Stages, None
  <1> QED
    BY <1>1, <1>2

LEMMA Firsts == 0 \in Counts /\ 1 \in 1 .. NumStages + 1 /\ 0 \in 0 .. MaxFaults
  BY WorkflowAssumption DEF Counts

LEMMA SumIsCount == \A a, b \in Counts : Sum(a, b) \in Counts
  BY WorkflowAssumption DEF Sum, Counts

(* What a write may change of a state.                                     *)
LEMMA WrittenKeeps ==
    ASSUME NEW s \in WorkflowStates, NEW w \in Written(s)
    PROVE  /\ w \in WorkflowStates
           /\ w.completed = s.completed /\ w.progress = s.progress
           /\ w.status = s.status /\ w.currentNode = s.currentNode
           /\ w.currentStage = s.currentStage /\ w.failedStage = s.failedStage
           /\ OverBudget(w) => OverBudget(s)
           /\ Consistent(s) => Consistent(w)
  <1>1. CASE w = s
    BY <1>1
  <1>2. CASE w = [s EXCEPT !.runs = 0]
    <2>1. w \in WorkflowStates
      <3>1. 0 \in Counts
        BY WorkflowAssumption DEF Counts
      <3> QED
        BY <1>2, <3>1 DEF WorkflowStates
    <2>2. /\ w.completed = s.completed /\ w.progress = s.progress
          /\ w.status = s.status /\ w.currentNode = s.currentNode
          /\ w.currentStage = s.currentStage /\ w.failedStage = s.failedStage
      BY <1>2 DEF WorkflowStates
    <2>3. ~OverBudget(w)
      BY <1>2, WorkflowAssumption DEF WorkflowStates, OverBudget
    <2>4. Consistent(s) => Consistent(w)
      BY <2>2, <2>3 DEF Consistent, AgreesWithProgress, NextStage
    <2> QED
      BY <2>1, <2>2, <2>3, <2>4
  <1> QED
    BY <1>1, <1>2 DEF Written

(* A consistent state names a stage, or the end, to go on with.            *)
LEMMA StartIsNext ==
    ASSUME NEW s \in WorkflowStates, Consistent(s)
    PROVE  /\ StartIndex(s) = NextStage(s)
           /\ NextStage(s) \in 1 .. NumStages + 1
  <1>1. Len(s.completed) \in Nat
    BY DEF WorkflowStates
  <1>2. Len(s.completed) <= NumStages
    BY <1>1, WorkflowAssumption DEF Consistent, IsStagePrefix
  <1> QED
    BY <1>1, <1>2, WorkflowAssumption DEF Consistent, StartIndex, NextStage

(* Completing the next stage extends the prefix by it.                     *)
LEMMA CompletingExtends ==
    ASSUME NEW s \in WorkflowStates, IsStagePrefix(s.completed),
           NEW t \in Stages, t = NextStage(s)
    PROVE  /\ IsStagePrefix(Append(s.completed, t))
           /\ Len(Append(s.completed, t)) = t
           /\ Append(s.completed, t) \in Seq(Stages)
  <1>1. s.completed \in Seq(Stages)
    BY DEF WorkflowStates
  <1>2. Append(s.completed, t) \in Seq(Stages) /\ Len(Append(s.completed, t)) = t
    BY <1>1 DEF NextStage
  <1>3. \A k \in 1 .. t : Append(s.completed, t)[k] = k
    BY <1>1 DEF NextStage, IsStagePrefix
  <1> QED
    BY <1>2, <1>3 DEF IsStagePrefix, Stages

-----------------------------------------------------------------------------
(* The invariant holds at first and is kept by every action.               *)

LEMMA InvInit == Init => Inv
  <1> SUFFICES ASSUME Init
               PROVE  Inv
    OBVIOUS
  <1>1. TypeOK
    <2>1. resume \in BOOLEAN /\ marker \in BOOLEAN
      BY Zenon DEF Init
    <2> QED
      BY <2>1, InitialIsState, Firsts DEF Init, TypeOK, Steps
  <1> QED
    BY <1>1 DEF Init, Inv, Present, Looping, Position, CancelStops, CancelSeen

LEMMA StartKeeps ==
    ASSUME Inv, NEW again \in BOOLEAN, Start(again)
    PROVE  Inv'
  <1>1. TypeOK'
    BY InitialIsState, Firsts DEF Inv, Start, TypeOK, Steps
  <1>2. Position'
    BY DEF Inv, TypeOK, Start, Position
  <1> QED
    BY <1>1, <1>2 DEF Inv, Start, Present, Looping, CancelStops, CancelSeen

LEMMA ClearMarkerKeeps ==
    ASSUME Inv, ClearMarker
    PROVE  Inv'
  <1> USE DEF Inv, ClearMarker, runVars
  <1>1. TypeOK'
    <2>1. marker' \in BOOLEAN
      BY Zenon
    <2> QED
      BY <2>1, Firsts DEF TypeOK, Steps
  <1>2. Position'
    <2>1. NextStage(state) = 1 /\ state.completed = <<>> /\ state.status # "completed"
      BY DEF Position, NextStage, InitialState
    <2> QED
      BY <2>1 DEF Position, Present, InStep, NextStage
  <1>3. Looping' => Consistent(state)'
    BY InitialIsState DEF Position
  <1> QED
    BY <1>1, <1>2, <1>3 DEF Present, CancelStops, CancelSeen

LEMMA WritePlanKeeps ==
    ASSUME Inv, WritePlan
    PROVE  Inv'
  <1> USE DEF Inv, WritePlan, runVars
  <1>1. state' = [InitialState EXCEPT !.planned = TRUE]
    BY DEF Position
  <1>2. state' \in WorkflowStates
    BY <1>1, InitialIsState DEF WorkflowStates
  <1>3. /\ state'.completed = <<>> /\ state'.status # "completed"
        /\ Consistent(state')
    BY <1>1, InitialIsState, WorkflowAssumption
    DEF InitialState, Consistent, IsStagePrefix, NextStage, OverBudget,
        AgreesWithProgress, Stages, None
  <1>4. TypeOK'
    BY <1>2 DEF TypeOK, Steps
  <1>5. Position'
    BY <1>3 DEF Position, NextStage, InStep
  <1> QED
    BY <1>3, <1>4, <1>5 DEF Present, CancelStops, CancelSeen

LEMMA LoadKeeps ==
    ASSUME Inv, Load
    PROVE  Inv'
  <1> USE DEF Inv, Load
  <1>1. CASE disk = NoState
    <2>1. TypeOK'
      BY <1>1 DEF TypeOK, Steps
    <2>2. Position'
      <3>1. NextStage(state) = 1 /\ state.status # "completed"
        BY DEF Position, NextStage, InitialState
      <3> QED
        BY <1>1, <3>1 DEF Position, Present, NextStage
    <2>3. Looping' => Consistent(state)'
      BY <1>1, InitialIsState DEF Position
    <2> QED
      BY <1>1, <2>1, <2>2, <2>3 DEF Present, CancelStops, CancelSeen
  <1>2. CASE disk # NoState
    <2>1. disk \in WorkflowStates /\ Consistent(disk)
      BY <1>2 DEF TypeOK, Present
    <2>2. StartIndex(disk) = NextStage(disk) /\ NextStage(disk) \in 1 .. NumStages + 1
      BY <2>1, StartIsNext
    <2>3. TypeOK'
      BY <1>2, <2>1, <2>2 DEF TypeOK, Steps
    <2>4. Position'
      BY <1>2, <2>1, <2>2 DEF Position, Present, InStep, NextStage
    <2> QED
      BY <1>2, <2>1, <2>3, <2>4 DEF Present, CancelStops, CancelSeen
  <1> QED
    BY <1>1, <1>2

LEMMA CheckKeeps ==
    ASSUME Inv, Check
    PROVE  Inv'
  <1> USE DEF Inv, runVars
  <1>1. /\ state \in WorkflowStates /\ Consistent(state)
        /\ stage = NextStage(state) /\ state.status # "completed"
        /\ Present => InStep
        /\ pc = "check"
    BY DEF Check, Cancelled, TypeOK, Position, Looping
  <1>2. stage \in 1 .. NumStages + 1
    BY DEF TypeOK
  <1>3. ASSUME stage > NumStages,
               state' = [state EXCEPT !.status = "completed", !.error = "none",
                                    !.currentStage = None, !.currentNode = None,
                                    !.failedStage = None],
               pc' = "save"
        PROVE  Inv'
    <2>1. state' \in WorkflowStates
      BY <1>1, <1>3 DEF WorkflowStates, Errors
    <2>2. /\ state'.completed = state.completed /\ state'.progress = state.progress
          /\ state'.status = "completed" /\ state'.currentNode = None
          /\ state'.currentStage = None /\ state'.failedStage = None
      BY <1>1, <1>3 DEF WorkflowStates
    <2>3. Len(state.completed) = NumStages
      BY <1>1, <1>2, <1>3, WorkflowAssumption DEF NextStage, WorkflowStates
    <2>4. Consistent(state')
      BY <1>1, <2>2, <2>3 DEF Consistent, AgreesWithProgress, NextStage
    <2>5. TypeOK'
      BY <1>3, <2>1 DEF Check, Cancelled, TypeOK, Steps
    <2>6. Position'
      BY <1>1, <1>3, <2>2 DEF Check, Cancelled, Position, Present, InStep
    <2> QED
      BY <1>3, <2>4, <2>5, <2>6 DEF Check, Cancelled, Present, CancelStops, CancelSeen
  <1>4. ASSUME OverBudget(state),
               state' = [state EXCEPT !.status = "failed", !.error = "budget",
                          !.failedStage = IF state.currentStage # None
                                          THEN state.currentStage ELSE @],
               pc' = "save"
        PROVE  Inv'
    <2>1. state' \in WorkflowStates
      BY <1>1, <1>4 DEF WorkflowStates, Errors
    <2>2. /\ state'.completed = state.completed /\ state'.progress = state.progress
          /\ state'.status = "failed" /\ state'.currentNode = state.currentNode
          /\ state'.currentStage = state.currentStage
          /\ state'.runs = state.runs /\ state'.planned = state.planned
          /\ state'.failedStage = IF state.currentStage # None
                                  THEN state.currentStage ELSE state.failedStage
      BY <1>1, <1>4 DEF WorkflowStates
    <2>3. Consistent(state')
      BY <1>1, <1>4, <2>2 DEF Consistent, AgreesWithProgress, NextStage, OverBudget
    <2>4. TypeOK'
      BY <1>4, <2>1 DEF Check, Cancelled, TypeOK, Steps
    <2>5. Position'
      BY <1>1, <1>4, <2>2 DEF Check, Cancelled, Position, Present, InStep
    <2> QED
      BY <1>4, <2>3, <2>4, <2>5 DEF Check, Cancelled, Present, CancelStops, CancelSeen
  <1>5. ASSUME state' = [state EXCEPT !.status = "failed", !.error = "cancelled"],
               pc' = "save"
        PROVE  Inv'
    <2>1. state' \in WorkflowStates
      BY <1>1, <1>5 DEF WorkflowStates, Errors
    <2>2. /\ state'.completed = state.completed /\ state'.progress = state.progress
          /\ state'.status = "failed" /\ state'.currentNode = state.currentNode
          /\ state'.currentStage = state.currentStage
          /\ state'.runs = state.runs /\ state'.planned = state.planned
          /\ state'.failedStage = state.failedStage
      BY <1>1, <1>5 DEF WorkflowStates
    <2>3. Consistent(state')
      BY <1>1, <2>2 DEF Consistent, AgreesWithProgress, NextStage, OverBudget
    <2>4. TypeOK'
      BY <1>5, <2>1 DEF Check, Cancelled, TypeOK, Steps
    <2>5. Position'
      BY <1>1, <1>5, <2>2 DEF Check, Cancelled, Position, Present, InStep
    <2> QED
      BY <1>5, <2>3, <2>4, <2>5 DEF Check, Cancelled, Present, CancelStops, CancelSeen
  <1>6. ASSUME stage <= NumStages, ~OverBudget(state), ~marker,
               state' = [state EXCEPT !.status = "in_progress", !.error = "none",
                                    !.currentStage = stage, !.currentNode = stage,
                                    !.failedStage = None],
               pc' = "begin"
        PROVE  Inv'
    <2>1. stage \in Stages
      BY <1>2, <1>6, WorkflowAssumption DEF Stages
    <2>2. state' \in WorkflowStates
      BY <1>1, <1>6, <2>1 DEF WorkflowStates, Errors
    <2>3. /\ state'.completed = state.completed /\ state'.progress = state.progress
          /\ state'.status = "in_progress" /\ state'.currentNode = stage
          /\ state'.currentStage = stage
          /\ state'.runs = state.runs /\ state'.planned = state.planned
          /\ state'.failedStage = None
      BY <1>1, <1>6 DEF WorkflowStates
    <2>4. Consistent(state')
      BY <1>1, <1>6, <2>3 DEF Consistent, AgreesWithProgress, NextStage, OverBudget
    <2>5. TypeOK'
      BY <1>6, <2>2 DEF Check, Cancelled, TypeOK, Steps
    <2>6. Position'
      BY <1>1, <1>6, <2>3 DEF Check, Cancelled, Position, Present, InStep, NextStage, OverBudget
    <2>7. CancelStops' /\ CancelSeen'
      BY <1>6 DEF Check, Cancelled, CancelStops, CancelSeen, TypeOK
    <2> QED
      BY <1>6, <2>4, <2>5, <2>6, <2>7 DEF Check, Cancelled, Present
  <1> QED
    BY <1>3, <1>4, <1>5, <1>6 DEF Check, Cancelled

LEMMA BeginStageKeeps ==
    ASSUME Inv, BeginStage
    PROVE  Inv'
  <1> USE DEF Inv, BeginStage, runVars
  <1>1. state \in WorkflowStates /\ Consistent(state)
    BY DEF TypeOK, Looping
  <1>2. /\ disk' \in WorkflowStates /\ Consistent(disk')
        /\ disk'.completed = state.completed
    BY <1>1, WrittenKeeps
  <1>3. begun' \in {0, 1}
    BY DEF TypeOK, CancelStops, CancelSeen
  <1>4. TypeOK'
    BY <1>2, <1>3 DEF TypeOK, Steps
  <1>5. Position'
    BY <1>1, <1>2, StateIsPresent DEF Position, Present, InStep
  <1>6. CancelStops' /\ CancelSeen'
    BY <1>3 DEF CancelStops, CancelSeen, TypeOK
  <1> QED
    BY <1>1, <1>2, <1>4, <1>5, <1>6 DEF Present

(* What executors leave in the run's copy before its fate is decided.      *)
LEMMA MergedKeeps ==
    ASSUME Inv, pc = "execute", NEW n \in Counts, NEW p \in 0 .. RoleCount[stage]
    PROVE  /\ Merged(p, n) \in WorkflowStates
           /\ Merged(p, n) = [state EXCEPT !.progress = Merged(p, n).progress,
                                           !.runs = Merged(p, n).runs]
           /\ Merged(p, n).progress = [state.progress EXCEPT ![stage] = p]
  <1>1. stage \in Stages
    BY WorkflowAssumption DEF Inv, TypeOK, Position, Stages
  <1>2. RoleCount[stage] \in Nat /\ p \in Nat
    BY <1>1, WorkflowAssumption
  <1>3. state \in WorkflowStates /\ state.runs \in Counts
    BY DEF Inv, TypeOK, WorkflowStates
  <1>4. Sum(state.runs, n) \in Counts
    BY <1>3, SumIsCount
  <1>5. [state.progress EXCEPT ![stage] = p] \in [Stages -> Nat]
    BY <1>1, <1>2, <1>3 DEF WorkflowStates
  <1>6. Merged(p, n) = [state EXCEPT !.progress = [state.progress EXCEPT ![stage] = p],
                                     !.runs = Sum(state.runs, n)]
    BY <1>3 DEF Merged, WorkflowStates
  <1> QED
    BY <1>3, <1>4, <1>5, <1>6 DEF WorkflowStates

LEMMA StopKeeps ==
    ASSUME Inv, pc = "execute", NEW n \in Counts, NEW p \in 0 .. RoleCount[stage],
           NEW e \in Errors, state' = StopFor(Merged(p, n), e),
           pc' = "save",
           UNCHANGED <<disk, runVars, marker, begun, faults>>
    PROVE  Inv'
  <1> DEFINE s == Merged(p, n)
  <1>1. stage \in Stages /\ stage = NextStage(state)
    BY WorkflowAssumption DEF Inv, TypeOK, Position, Stages
  <1>2. state \in WorkflowStates /\ Consistent(state)
    BY DEF Inv, TypeOK, Looping
  <1>3. /\ s \in WorkflowStates
        /\ s.completed = state.completed /\ s.currentStage = stage
        /\ s.progress = [state.progress EXCEPT ![stage] = p]
    <2>1. s \in WorkflowStates /\ s.progress = [state.progress EXCEPT ![stage] = p]
      BY MergedKeeps
    <2>2. s.completed = state.completed /\ s.currentStage = state.currentStage
      BY <1>2 DEF Merged, WorkflowStates
    <2> QED
      BY <2>1, <2>2 DEF Inv, Position
  <1>4. state' \in WorkflowStates
    BY <1>1, <1>3 DEF StopFor, WorkflowStates
  <1>5. /\ state'.completed = state.completed /\ state'.currentStage = stage
        /\ state'.progress = [state.progress EXCEPT ![stage] = p]
        /\ state'.status = "failed" /\ state'.failedStage = stage
        /\ state'.currentNode = stage
    BY <1>3 DEF StopFor, WorkflowStates
  <1>6. AgreesWithProgress(state')
    <2>1. state.progress \in [Stages -> Nat] /\ RoleCount \in [Stages -> Nat]
      BY <1>2, WorkflowAssumption DEF WorkflowStates
    <2> QED
      BY <1>1, <1>2, <1>5, <2>1 DEF Consistent, AgreesWithProgress, NextStage
  <1>7. Consistent(state')
    BY <1>1, <1>2, <1>5, <1>6 DEF Consistent, NextStage
  <1>8. TypeOK'
    BY <1>4 DEF Inv, TypeOK, Steps, runVars
  <1>9. Position'
    BY <1>5 DEF Inv, Position, Present, InStep, runVars
  <1> QED
    BY <1>7, <1>8, <1>9 DEF Inv, Present, CancelStops, CancelSeen, runVars

LEMMA CompleteKeeps ==
    ASSUME Inv, pc = "execute", NEW n \in Counts,
           ~OverBudget(Merged(RoleCount[stage], n)),
           state' = CompleteStage(Merged(RoleCount[stage], n)),
           pc' = "save",
           UNCHANGED <<disk, runVars, marker, begun, faults>>
    PROVE  Inv'
  <1> DEFINE s == Merged(RoleCount[stage], n)
  <1>1. stage \in Stages /\ stage = NextStage(state)
    BY WorkflowAssumption DEF Inv, TypeOK, Position, Stages
  <1>2. state \in WorkflowStates /\ Consistent(state)
    BY DEF Inv, TypeOK, Looping
  <1>3. RoleCount[stage] \in 0 .. RoleCount[stage]
    BY <1>1, WorkflowAssumption
  <1>4. /\ s \in WorkflowStates
        /\ s.completed = state.completed /\ s.currentStage = stage
        /\ s.status = "in_progress" /\ s.failedStage = None
        /\ s.progress = [state.progress EXCEPT ![stage] = RoleCount[stage]]
    <2>1. /\ s \in WorkflowStates
          /\ s.progress = [state.progress EXCEPT ![stage] = RoleCount[stage]]
      BY <1>3, MergedKeeps
    <2>2. /\ s.completed = state.completed /\ s.currentStage = state.currentStage
          /\ s.status = state.status /\ s.failedStage = state.failedStage
      BY <1>2 DEF Merged, WorkflowStates
    <2> QED
      BY <2>1, <2>2 DEF Inv, Position
  <1>5. /\ IsStagePrefix(Append(state.completed, stage))
        /\ Len(Append(state.completed, stage)) = stage
        /\ Append(state.completed, stage) \in Seq(Stages)
    BY <1>1, <1>2, CompletingExtends DEF Consistent
  <1>6. state' \in WorkflowStates
    BY <1>4, <1>5 DEF CompleteStage, WorkflowStates
  <1>7. /\ state'.completed = Append(state.completed, stage)
        /\ state'.progress = [state.progress EXCEPT ![stage] = RoleCount[stage]]
        /\ state'.status = "in_progress" /\ state'.failedStage = None
        /\ state'.currentNode = None
        /\ state'.runs = s.runs /\ state'.planned = s.planned
    BY <1>4 DEF CompleteStage, WorkflowStates
  <1>8. NextStage(state') = stage + 1
    BY <1>5, <1>7 DEF NextStage
  <1>9. AgreesWithProgress(state')
    <2>1. state.progress \in [Stages -> Nat] /\ RoleCount \in [Stages -> Nat]
      BY <1>2, WorkflowAssumption DEF WorkflowStates
    <2> SUFFICES ASSUME NEW t \in Stages
                 PROVE  /\ t < stage + 1 => state'.progress[t] = RoleCount[t]
                        /\ t > stage + 1 => state'.progress[t] = 0
                        /\ state'.progress[t] <= RoleCount[t]
      BY <1>8 DEF AgreesWithProgress
    <2>2. stage \in Int /\ t \in Int /\ RoleCount[t] \in Nat
      BY <1>1, <2>1, WorkflowAssumption DEF Stages
    <2>3. /\ t < stage => state.progress[t] = RoleCount[t]
          /\ t > stage => state.progress[t] = 0
          /\ state.progress[t] <= RoleCount[t]
      BY <1>1, <1>2 DEF Consistent, AgreesWithProgress
    <2>4. CASE t = stage
      <3>1. state'.progress[t] = RoleCount[t]
        BY <1>7, <2>1, <2>4
      <3> QED
        BY <2>2, <2>4, <3>1
    <2>5. CASE t # stage
      <3>1. state'.progress[t] = state.progress[t]
        BY <1>7, <2>1, <2>5
      <3> QED
        BY <2>2, <2>3, <2>5, <3>1
    <2> QED
      BY <2>4, <2>5
  <1>10. ~OverBudget(state')
    BY <1>7 DEF OverBudget
  <1>11. Consistent(state')
    BY <1>5, <1>7, <1>9, <1>10 DEF Consistent
  <1>12. TypeOK'
    BY <1>6 DEF Inv, TypeOK, Steps, runVars
  <1>13. Position'
    <2>1. Present' => Ahead'
      BY <1>1, <1>7 DEF Inv, Position, Present, Ahead, NextStage
    <2> QED
      BY <1>1, <1>7, <1>8, <1>10, <2>1 DEF Position, Stages, runVars
  <1> QED
    BY <1>11, <1>12, <1>13 DEF Inv, Present, CancelStops, CancelSeen, runVars

LEMMA ExecutorKeeps ==
    ASSUME Inv, ExecutorCompletes \/ ExecutorFails
    PROVE  Inv'
  <1>1. stage \in Stages /\ RoleCount[stage] \in Nat
    BY WorkflowAssumption DEF Inv, TypeOK, Position, Stages, ExecutorCompletes, ExecutorFails
  <1>2. CASE ExecutorCompletes
    <2>1. PICK n \in Counts :
             /\ state' = IF OverBudget(Merged(RoleCount[stage], n))
                         THEN StopFor(Merged(RoleCount[stage], n), "budget")
                         ELSE CompleteStage(Merged(RoleCount[stage], n))
      BY <1>2 DEF ExecutorCompletes
    <2>2. RoleCount[stage] \in 0 .. RoleCount[stage] /\ "budget" \in Errors
      BY <1>1, <2>1 DEF Errors
    <2> QED
      BY <1>2, <2>1, <2>2, StopKeeps, CompleteKeeps DEF ExecutorCompletes
  <1>3. CASE ExecutorFails
    <2>1. PICK n \in Counts, p \in RoleStart .. RoleCount[stage] :
             /\ state' = StopFor(Merged(p, n),
                                 IF OverBudget(Merged(p, n)) THEN "budget" ELSE "stage")
      BY <1>3 DEF ExecutorFails
    <2>2. RoleStart \in Nat
      BY <1>1 DEF RoleStart, Inv, TypeOK, WorkflowStates
    <2>3. /\ p \in 0 .. RoleCount[stage]
          /\ (IF OverBudget(Merged(p, n)) THEN "budget" ELSE "stage") \in Errors
      BY <1>1, <2>1, <2>2 DEF Errors
    <2> QED
      BY <1>3, <2>1, <2>3, StopKeeps DEF ExecutorFails
  <1> QED
    BY <1>2, <1>3

LEMMA SaveKeeps ==
    ASSUME Inv, Save
    PROVE  Inv'
  <1> USE DEF Inv, Save, runVars
  <1>1. state \in WorkflowStates /\ Consistent(state)
    BY DEF TypeOK, Looping
  <1>2. /\ disk' \in WorkflowStates /\ Consistent(disk')
        /\ disk'.completed = state.completed
    BY <1>1, WrittenKeeps
  <1>3. TypeOK'
    BY <1>2, WorkflowAssumption DEF TypeOK, Steps, Position
  <1>4. Position'
    BY <1>1, <1>2 DEF Position, Present, InStep, NextStage
  <1> QED
    BY <1>1, <1>2, <1>3, <1>4 DEF Present, CancelStops, CancelSeen

LEMMA FaultKeeps ==
    ASSUME Inv, Throw \/ Crash \/ LockGoesStale
    PROVE  Inv'
  <1> USE DEF Inv, Throw, Crash, LockGoesStale, runVars
  <1>1. faults' \in 0 .. MaxFaults
    BY WorkflowAssumption DEF TypeOK
  <1>2. TypeOK'
    BY <1>1 DEF TypeOK, Steps
  <1>3. Position'
    BY DEF Position
  <1> QED
    BY <1>2, <1>3 DEF Present, Looping, CancelStops, CancelSeen

LEMMA CancelKeeps ==
    ASSUME Inv, Cancel
    PROVE  Inv'
  <1> USE DEF Inv, Cancel, runVars
  <1>1. TypeOK'
    <2>1. marker' \in BOOLEAN
      BY Zenon
    <2> QED
      BY <2>1 DEF TypeOK
  <1>2. Position'
    BY DEF Position, Present, InStep, Ahead
  <1> QED
    BY <1>1, <1>2 DEF Present, Looping, CancelStops, CancelSeen

LEMMA InvNext == Inv /\ [Next]_vars => Inv'
  <1> SUFFICES ASSUME Inv, [Next]_vars
               PROVE  Inv'
    OBVIOUS
  <1>1. ASSUME NEW again \in BOOLEAN, Start(again)
        PROVE  Inv'
    BY <1>1, StartKeeps
  <1>2. CASE Run
    BY <1>2, ClearMarkerKeeps, WritePlanKeeps, LoadKeeps, CheckKeeps, BeginStageKeeps,
       ExecutorKeeps, SaveKeeps DEF Run
  <1>3. CASE Throw \/ Crash \/ LockGoesStale
    BY <1>3, FaultKeeps
  <1>4. CASE Cancel
    BY <1>4, CancelKeeps
  <1>5. CASE UNCHANGED vars
    BY <1>5 DEF vars, runVars, Inv, TypeOK, Present, Looping, Position, InStep, Ahead,
                CancelStops, CancelSeen
  <1> QED
    BY <1>1, <1>2, <1>3, <1>4, <1>5 DEF Next

(* The invariant, of every reachable state.                                *)
LEMMA InvHolds == Spec => []Inv
  BY InvInit, InvNext, PTL DEF Spec

-----------------------------------------------------------------------------
(* Theorems.                                                               *)

(* Type correctness of the file, the run and the history variables.        *)
THEOREM TypeCorrect == Spec => []TypeOK
  <1>1. Inv => TypeOK
    BY DEF Inv
  <1> QED
    BY <1>1, InvHolds, PTL

(* Whatever a run was stopped by and where, its file can be resumed: the   *)
(* resume goes on with the first stage that is not completed, which is the *)
(* one a failure blames, and there is none when it is called completed.    *)
THEOREM AlwaysResumable == Spec => []Resumable
  <1>1. Inv => Resumable
    <2> SUFFICES ASSUME Inv, Present
                 PROVE  /\ IsStagePrefix(disk.completed)
                        /\ NodeAgrees
                        /\ FailureBlamesOpenStage
                        /\ CompletedMeansAll
      BY DEF Resumable
    <2>1. IsStagePrefix(disk.completed)
      BY DEF Inv, Present, Consistent
    <2>2. NodeAgrees
      BY StartIsNext DEF Inv, TypeOK, NodeAgrees, Present, Consistent
    <2>3. FailureBlamesOpenStage
      BY DEF Inv, FailureBlamesOpenStage, Present, Consistent
    <2>4. CompletedMeansAll
      BY DEF Inv, CompletedMeansAll, Present, Consistent
    <2> QED
      BY <2>1, <2>2, <2>3, <2>4
  <1> QED
    BY <1>1, InvHolds, PTL

(* No stage is executed before its predecessors are done, or once it is    *)
(* done itself.                                                            *)
THEOREM OrderKept == Spec => []StagesInOrder
  <1>1. Inv => StagesInOrder
    BY DEF Inv, StagesInOrder, Position, Looping, Consistent
  <1> QED
    BY <1>1, InvHolds, PTL

(* The role progress in the file agrees with its completed stages.         *)
THEOREM ProgressCorrect == Spec => []ProgressAgrees
  <1>1. Inv => ProgressAgrees
    BY DEF Inv, ProgressAgrees, Consistent, AgreesWithProgress
  <1> QED
    BY <1>1, InvHolds, PTL

(* At most one stage begins after a cancellation, however many crashes and *)
(* resumes follow.                                                         *)
THEOREM CancelIsBounded == Spec => []CancelStops
  <1>1. Inv => CancelStops
    BY DEF Inv
  <1> QED
    BY <1>1, InvHolds, PTL

(* No write but the first of a fresh run takes back a completed stage, and *)
(* none completes more than one.                                           *)
THEOREM CompletedKept == Spec => [][KeepsCompleted]_vars
  <1>1. Inv /\ [Next]_vars => [KeepsCompleted]_vars
    <2> SUFFICES ASSUME Inv, Next, Present, disk' # disk
                 PROVE  \/ ~resume /\ disk'.completed = <<>>
                        \/ disk'.completed = disk.completed
                        \/ disk'.completed = Append(disk.completed, NextStage(disk))
      BY DEF KeepsCompleted
    <2>1. WritePlan \/ BeginStage \/ Save
      BY DEF Next, Run, Start, ClearMarker, Load, Check, ExecutorCompletes, ExecutorFails,
             Throw, Crash, LockGoesStale, Cancel
    <2>2. state \in WorkflowStates
      BY DEF Inv, TypeOK
    <2>3. CASE WritePlan
      <3>1. ~resume /\ state.completed = <<>>
        BY <2>3 DEF WritePlan, Inv, Position, InitialState
      <3> QED
        BY <2>2, <2>3, <3>1 DEF WritePlan, WorkflowStates
    <2>4. CASE BeginStage
      <3>1. InStep
        BY <2>4 DEF BeginStage, Inv, Position
      <3> QED
        BY <2>2, <2>4, <3>1, WrittenKeeps DEF BeginStage, InStep
    <2>5. CASE Save
      <3>1. InStep \/ Ahead
        BY <2>5 DEF Save, Inv, Position
      <3> QED
        BY <2>2, <2>5, <3>1, WrittenKeeps DEF Save, InStep, Ahead
    <2> QED
      BY <2>1, <2>3, <2>4, <2>5
  <1> QED
    BY <1>1, InvHolds, PTL DEF Spec

(* RolesKept is kept by every action, given the invariant.                 *)
LEMMA RolesKeptNext == Inv /\ RolesKept /\ [Next]_vars => RolesKept'
  <1> SUFFICES ASSUME Inv, RolesKept, [Next]_vars
               PROVE  RolesKept'
    OBVIOUS
  <1>0. /\ state \in WorkflowStates /\ stage \in Nat /\ start \in Nat /\ NumStages \in Nat
        /\ Inv'
    BY InvNext, WorkflowAssumption DEF Inv, TypeOK
  <1>1. CASE \E again \in BOOLEAN : Start(again)
    BY <1>1 DEF Start, RolesKept, Looping
  <1>2. CASE ClearMarker \/ WritePlan \/ Throw \/ Crash \/ LockGoesStale
    BY <1>2 DEF ClearMarker, WritePlan, Throw, Crash, LockGoesStale, runVars, RolesKept,
                Looping, Inv, Position
  <1>3. CASE Load
    <2>1. CASE disk = NoState
      BY <1>3, <2>1 DEF Load, RolesKept, Looping, Inv, Position, Present
    <2>2. CASE disk # NoState
      <3>1. disk \in WorkflowStates
        BY <2>2 DEF Inv, TypeOK
      <3>2. \A t \in Stages : disk.progress[t] \in Nat
        BY <3>1 DEF WorkflowStates
      <3>3. /\ state' = disk /\ disk' = disk /\ start' = stage'
            /\ stage' \in Nat /\ pc' # "save"
        BY <1>0, <1>3, <2>2 DEF Load, Inv, TypeOK
      <3> QED
        BY <3>2, <3>3 DEF RolesKept
    <2> QED
      BY <2>1, <2>2
  <1>4. CASE Check
    <2>1. /\ state'.progress = state.progress
          /\ state'.status = "in_progress" => pc' # "save"
          /\ pc' = "begin" => stage <= NumStages
      BY <1>0, <1>4 DEF Check, Cancelled, WorkflowStates
    <2> QED
      BY <1>4, <2>1 DEF Check, Cancelled, RolesKept, Looping, Present, runVars
  <1>5. CASE BeginStage
    <2>1. disk'.progress = state.progress
      BY <1>0, <1>5, WrittenKeeps DEF BeginStage
    <2>2. \A t \in Stages : state.progress[t] \in Nat
      BY <1>0 DEF WorkflowStates
    <2> QED
      BY <1>5, <2>1, <2>2 DEF BeginStage, RolesKept, Looping, runVars
  <1>6. CASE ExecutorCompletes \/ ExecutorFails
    <2> SUFFICES ASSUME resume
                 PROVE  RolesKept'
      BY <1>6 DEF ExecutorCompletes, ExecutorFails, runVars, RolesKept
    <2>1. /\ stage \in Stages /\ stage = NextStage(state) /\ pc = "execute"
          /\ Present /\ disk.completed = state.completed
          /\ RoleCount[stage] \in Nat
      BY <1>6, WorkflowAssumption
      DEF ExecutorCompletes, ExecutorFails, Inv, TypeOK, Position, Stages
    <2>2. /\ state.progress \in [Stages -> Nat]
          /\ disk \in WorkflowStates /\ disk.progress \in [Stages -> Nat]
      BY <1>0, <2>1 DEF Inv, TypeOK, Present, WorkflowStates
    <2>3. /\ start <= stage
          /\ \A t \in Stages \ Restarting : disk.progress[t] <= state.progress[t]
          /\ start < stage => state.progress[stage] = 0
      BY <2>1, WorkflowAssumption DEF RolesKept, Looping, Stages
    <2>4. RoleStart \in Nat /\ RoleStart <= RoleCount[stage]
      BY <2>1, <2>2 DEF RoleStart, Inv, Looping, Consistent, AgreesWithProgress
    <2>5. PICK n \in Counts, p \in RoleStart .. RoleCount[stage] :
             /\ state'.progress = [state.progress EXCEPT ![stage] = p]
             /\ state'.status \in {"in_progress", "failed"}
      <3>1. CASE ExecutorCompletes
        <4>1. PICK n \in Counts :
                 state' = IF OverBudget(Merged(RoleCount[stage], n))
                          THEN StopFor(Merged(RoleCount[stage], n), "budget")
                          ELSE CompleteStage(Merged(RoleCount[stage], n))
          BY <3>1 DEF ExecutorCompletes
        <4>2. RoleCount[stage] \in 0 .. RoleCount[stage]
          BY <2>1
        <4>3. /\ Merged(RoleCount[stage], n) \in WorkflowStates
              /\ Merged(RoleCount[stage], n).progress
                    = [state.progress EXCEPT ![stage] = RoleCount[stage]]
          BY <2>1, <4>2, MergedKeeps
        <4>4. Merged(RoleCount[stage], n).status = "in_progress"
          BY <1>0, <2>1 DEF Merged, WorkflowStates, Inv, Position
        <4>5. /\ state'.progress = Merged(RoleCount[stage], n).progress
              /\ state'.status \in {"in_progress", "failed"}
          BY <4>1, <4>3, <4>4 DEF StopFor, CompleteStage, WorkflowStates
        <4>6. RoleCount[stage] \in RoleStart .. RoleCount[stage]
          BY <2>1, <2>4
        <4> QED
          BY <4>3, <4>5, <4>6
      <3>2. CASE ExecutorFails
        <4>1. PICK n \in Counts, p \in RoleStart .. RoleCount[stage] :
                 state' = StopFor(Merged(p, n),
                                  IF OverBudget(Merged(p, n)) THEN "budget" ELSE "stage")
          BY <3>2 DEF ExecutorFails
        <4>2. p \in 0 .. RoleCount[stage]
          BY <2>1, <2>4
        <4>3. /\ Merged(p, n) \in WorkflowStates
              /\ Merged(p, n).progress = [state.progress EXCEPT ![stage] = p]
          BY <2>1, <4>2, MergedKeeps
        <4>4. state'.progress = Merged(p, n).progress /\ state'.status = "failed"
          BY <4>1, <4>3 DEF StopFor, WorkflowStates
        <4> QED
          BY <4>3, <4>4
      <3> QED
        BY <1>6, <3>1, <3>2
    <2>6. p \in Nat /\ RoleStart <= p
      BY <2>1, <2>4
    <2>7. stage \notin Restarting => disk.progress[stage] <= p
      BY <1>0, <2>1, <2>2, <2>3, <2>6 DEF RoleStart
    <2>8. disk' = disk /\ pc' = "save" /\ stage' = stage /\ start' = start
      BY <1>6 DEF ExecutorCompletes, ExecutorFails, runVars
    <2>9. \A t \in Stages \ Restarting : disk.progress[t] <= state'.progress[t]
      BY <2>2, <2>3, <2>5, <2>7
    <2>10. stage < NumStages => state'.progress[stage + 1] = 0
      <3> SUFFICES ASSUME stage < NumStages
                   PROVE  state'.progress[stage + 1] = 0
        OBVIOUS
      <3>1. stage + 1 \in Stages /\ stage + 1 # stage /\ stage + 1 > stage
        BY <1>0, <2>1 DEF Stages
      <3>2. state.progress[stage + 1] = 0
        BY <2>1, <3>1 DEF Inv, Looping, Consistent, AgreesWithProgress
      <3> QED
        BY <2>2, <2>5, <3>1, <3>2
    <2> QED
      BY <2>3, <2>8, <2>9, <2>10 DEF RolesKept
  <1>7. CASE Save
    <2>1. disk'.progress = state.progress /\ state' = state
      BY <1>0, <1>7, WrittenKeeps DEF Save
    <2>2. \A t \in Stages : state.progress[t] \in Nat
      BY <1>0 DEF WorkflowStates
    <2> QED
      BY <1>0, <1>7, <2>1, <2>2 DEF Save, RolesKept, Looping, runVars
  <1>8. CASE Cancel \/ UNCHANGED vars
    BY <1>8 DEF Cancel, vars, runVars, RolesKept, Looping, Present
  <1> QED
    BY <1>1, <1>2, <1>3, <1>4, <1>5, <1>6, <1>7, <1>8 DEF Next, Run

(* A resumed workflow does not forget roles that were done, except in the  *)
(* stages that start over by design.                                       *)
THEOREM ProgressKept == Spec => [][KeepsProgress]_vars
  <1>1. Init => RolesKept
    BY DEF Init, RolesKept, Looping
  <1>2. Spec => []RolesKept
    BY <1>1, RolesKeptNext, InvHolds, PTL DEF Spec
  <1>3. Inv /\ RolesKept /\ [Next]_vars => [KeepsProgress]_vars
    <2> SUFFICES ASSUME Inv, RolesKept, Next, Present, resume, disk' # disk,
                        NEW t \in Stages \ Restarting
                 PROVE  disk'.progress[t] >= disk.progress[t]
      BY DEF KeepsProgress
    <2>1. WritePlan \/ BeginStage \/ Save
      BY DEF Next, Run, Start, ClearMarker, Load, Check, ExecutorCompletes, ExecutorFails,
             Throw, Crash, LockGoesStale, Cancel
    <2>2. ~WritePlan
      BY DEF WritePlan, Inv, Position
    <2>3. state \in WorkflowStates /\ disk \in WorkflowStates
      BY DEF Inv, TypeOK, Present
    <2>4. disk'.progress = state.progress /\ pc \in {"begin", "save"}
      BY <2>1, <2>2, <2>3, WrittenKeeps DEF BeginStage, Save
    <2>5. disk.progress[t] <= state.progress[t]
      BY <2>4 DEF RolesKept, Looping
    <2>6. disk.progress[t] \in Nat /\ state.progress[t] \in Nat
      BY <2>3 DEF WorkflowStates
    <2> QED
      BY <2>4, <2>5, <2>6
  <1> QED
    BY <1>2, <1>3, InvHolds, PTL DEF Spec

(* Resumes never lose work: neither completed stages nor, within a stage   *)
(* that does not start over by design, the roles that were done.           *)
THEOREM WorkKept == Spec => KeepsWork
  BY CompletedKept, ProgressKept, PTL DEF KeepsWork
=============================================================================
