------------------------------ MODULE Ultrawork ------------------------------
(***************************************************************************)
(* runUltrawork (execution/ultrawork.ts): tasks with dependencies, run in  *)
(* waves.  A wave is every task whose dependencies have completed; its     *)
(* tasks run side by side, the next wave waits for all of them.  The       *)
(* development stage gives it its two tasks, /ulw-loop the items of a text.*)
(*                                                                         *)
(* Nothing is awaited between the end of a wave and the start of the next, *)
(* where no task runs: merging and scheduling are steps of their own.      *)
(* Outputs are objects whose fields are assigned to those of the result:   *)
(* which tasks' own fields it has, and whose value a field that all set.   *)
(***************************************************************************)
EXTENDS Naturals, Sequences, FiniteSets

CONSTANTS
    Ids,        \* task ids, ordered as localeCompare orders them
    Inputs      \* the lists of tasks the callers may give

Backgrounds == {"yes", "no", "unset"}

ASSUME UltraworkAssumption ==
    /\ Ids \subseteq Nat \ {0}
    /\ Inputs \subseteq [list : Seq(Ids),
                         dependsOn : [Ids -> SUBSET Ids],
                         background : [Ids -> Backgrounds]]

VARIABLES
    input,      \* the tasks as they were given
    pc,         \* what runUltrawork does next
    pending,    \* tasks that have not completed
    completed,  \* tasks that have
    completedTaskIds,
    waves,      \* the waves so far
    outputs,    \* the merged outputs
    status,     \* of each task: waiting, running, done or failed
    produced,   \* the tasks that answered with an output
    answer      \* the status that is returned, the failedTaskId with it

vars == <<input, pc, pending, completed, completedTaskIds, waves, outputs,
          status, produced, answer>>

-----------------------------------------------------------------------------
None == 0      \* no task

Tasks == {input.list[i] : i \in DOMAIN input.list}

(* validateTasks: no id twice, no dependency that is not on the list.      *)
Valid == /\ \A i, j \in DOMAIN input.list : input.list[i] = input.list[j] => i = j
         /\ \A t \in Tasks : input.dependsOn[t] \subseteq Tasks

Init == /\ input \in Inputs
        /\ pc = "validate"
        /\ pending = {} /\ completed = {}
        /\ completedTaskIds = <<>> /\ waves = <<>>
        /\ outputs = [from |-> {}, shared |-> None]
        /\ status = [t \in Ids |-> "waiting"]
        /\ produced = {}
        /\ answer = [status |-> "none", failedTaskId |-> None]

Return(result, task) ==
    /\ answer' = [status |-> result, failedTaskId |-> task]
    /\ pc' = "ended"

taskVars == <<input, status, produced>>
results == <<completedTaskIds, waves, outputs>>

Validate == /\ pc = "validate"
            /\ IF Valid
               THEN pc' = "schedule" /\ pending' = Tasks /\ UNCHANGED answer
               ELSE Return("failed", None) /\ UNCHANGED pending
            /\ UNCHANGED <<taskVars, completed, results>>

-----------------------------------------------------------------------------
(* Mutant: one dependency is enough (some for every).                      *)
RunnableSome == {t \in pending : \/ input.dependsOn[t] = {}
                                \/ input.dependsOn[t] \cap completed # {}}

Runnable == {t \in pending : input.dependsOn[t] \subseteq completed}

(* The comparator of the sort: background tasks first, then by id.  It     *)
(* contradicts itself where one task says false and another says nothing,  *)
(* and the sort may then leave any order.                                  *)
Before(l, r) == IF input.background[l] = input.background[r]
                THEN l < r
                ELSE input.background[l] = "yes"

Contradictory(S) == {"no", "unset"} \subseteq {input.background[t] : t \in S}

Orders(S) ==
    {w \in [1 .. Cardinality(S) -> S] :
        /\ \A t \in S : \E i \in DOMAIN w : w[i] = t
        /\ Contradictory(S) \/ \A i, j \in DOMAIN w : i < j => Before(w[i], w[j])}

StartWave == /\ pc = "schedule"
             /\ Runnable # {}
             /\ \E w \in Orders(Runnable) : waves' = Append(waves, w)
             /\ status' = [t \in Ids |-> IF t \in Runnable THEN "running" ELSE status[t]]
             /\ pc' = "await"
             /\ UNCHANGED <<input, pending, completed, completedTaskIds, outputs,
                            produced, answer>>

(* Mutant: looked for before the first wave only.                          *)
BlockedAtFirst == /\ pc = "schedule" /\ waves = <<>>
                  /\ pending # {} /\ Runnable = {}
                  /\ Return("failed", None)
                  /\ UNCHANGED <<taskVars, pending, completed, results>>

Blocked == /\ pc = "schedule"
           /\ pending # {} /\ Runnable = {}
           /\ Return("failed", None)
           /\ UNCHANGED <<taskVars, pending, completed, results>>

Complete == /\ pc = "schedule"
            /\ pending = {}
            /\ Return("completed", None)
            /\ UNCHANGED <<taskVars, pending, completed, results>>

(* A task's run answers or throws, which fails it; a failed task may have  *)
(* an output as well.                                                      *)
TaskEnds(t) ==
    /\ status[t] = "running"
    /\ \E how \in {"done", "failed"} : status' = [status EXCEPT ![t] = how]
    /\ produced' \in {produced, produced \cup {t}}
    /\ UNCHANGED <<input, pc, pending, completed, results, answer>>

-----------------------------------------------------------------------------
Wave == waves[Len(waves)]
Members == {Wave[i] : i \in DOMAIN Wave}

AllSettled == pc = "await" /\ \A t \in Members : status[t] # "running"

(* The first k of the wave assign their outputs, one after the other.      *)
AssignOutputs(k) ==
    LET givers == {i \in 1 .. k : Wave[i] \in produced}
    IN  \/ givers = {} /\ UNCHANGED outputs
        \/ \E last \in givers :
              /\ \A i \in givers : i <= last
              /\ outputs' = [from |-> outputs.from \cup {Wave[i] : i \in givers},
                             shared |-> Wave[last]]

(* Mutant: whichever failed is blamed.                                     *)
WaveFailsAnywhere ==
    /\ AllSettled
    /\ \E k \in DOMAIN Wave : /\ status[Wave[k]] = "failed"
                             /\ AssignOutputs(k)
                             /\ Return("failed", Wave[k])
    /\ UNCHANGED <<taskVars, pending, completed, completedTaskIds, waves>>

(* The first of the wave that failed is the one that is blamed.  The others*)
(* of the wave are not listed as completed, whatever they have done.       *)
WaveFails ==
    /\ AllSettled
    /\ \E k \in DOMAIN Wave :
          /\ status[Wave[k]] = "failed"
          /\ \A i \in 1 .. k - 1 : status[Wave[i]] # "failed"
          /\ AssignOutputs(k)
          /\ Return("failed", Wave[k])
    /\ UNCHANGED <<taskVars, pending, completed, completedTaskIds, waves>>

(* Mutant: the tasks stay pending.                                         *)
WaveCompletesKeeping ==
    /\ AllSettled
    /\ \A t \in Members : status[t] # "failed"
    /\ AssignOutputs(Len(Wave))
    /\ completed' = completed \cup Members
    /\ completedTaskIds' = completedTaskIds \o Wave
    /\ pc' = "schedule"
    /\ UNCHANGED <<taskVars, pending, waves, answer>>

WaveCompletes ==
    /\ AllSettled
    /\ \A t \in Members : status[t] # "failed"
    /\ AssignOutputs(Len(Wave))
    /\ pending' = pending \ Members
    /\ completed' = completed \cup Members
    /\ completedTaskIds' = completedTaskIds \o Wave
    /\ pc' = "schedule"
    /\ UNCHANGED <<taskVars, waves, answer>>

Scheduler == Validate \/ StartWave \/ Blocked \/ Complete \/ WaveFails \/ WaveCompletes

Next == Scheduler \/ \E t \in Ids : TaskEnds(t)

Spec == Init /\ [][Next]_vars

(* The loop goes on when it can.  Nothing is assumed of tasks: that of the *)
(* development script has no timer, and none of the loop's own is set on   *)
(* any.                                                                    *)
FairSpec == Spec /\ WF_vars(Scheduler)

-----------------------------------------------------------------------------
(* Properties.                                                             *)

(* Type correctness; the two sets and the list of completed tasks agree.   *)
UltraworkTypeOK ==
    /\ input \in Inputs
    /\ pc \in {"validate", "schedule", "await", "ended"}
    /\ pending \subseteq Tasks /\ completed \subseteq Tasks
    /\ pending \cap completed = {}
    /\ completedTaskIds \in Seq(Tasks)
    /\ waves \in Seq(Seq(Tasks))
    /\ outputs \in [from : SUBSET Tasks, shared : Tasks \cup {None}]
    /\ status \in [Ids -> {"waiting", "running", "done", "failed"}]
    /\ produced \subseteq Ids
    /\ answer \in [status : {"none", "completed", "failed"}, failedTaskId : Tasks \cup {None}]

(* The waves implement the task graph: no task is started before all it    *)
(* depends on are done, or twice, or after a failure; none is running when *)
(* the caller goes on; "completed" means all, and "dependency cycle or     *)
(* blocked" is said only of tasks that wait for each other.                *)
Graph == INSTANCE TaskGraph
         WITH valid <- Valid, tasks <- Tasks, dependsOn <- input.dependsOn,
              answer <- answer.status

ImplementsTaskGraph == Graph!Spec

InWave(t, k) == \E i \in DOMAIN waves[k] : waves[k][i] = t

Precedes(t, u) ==
    \E k, m \in DOMAIN waves : \E i \in DOMAIN waves[k], j \in DOMAIN waves[m] :
        waves[k][i] = t /\ waves[m][j] = u /\ (k < m \/ (k = m /\ i < j))

(* No task waits for a wave that it does not depend on.                    *)
WavesMinimal ==
    \A k \in DOMAIN waves : \A t \in Tasks : InWave(t, k) =>
        /\ \A d \in input.dependsOn[t] : \E j \in 1 .. k - 1 : InWave(d, j)
        /\ k > 1 => \E d \in input.dependsOn[t] : InWave(d, k - 1)

(* The failure that is blamed, the outputs, the one that wins a field which*)
(* several set, and the list of completed tasks follow from the results of *)
(* the tasks and their places in the waves.                                *)
AnswerFromResults ==
    LET begun == {t \in Tasks : \E k \in DOMAIN waves : InWave(t, k)}
        failed == {t \in begun : status[t] = "failed"}
        blamed == answer.failedTaskId
        reported == IF failed = {} THEN begun
                    ELSE {t \in begun : t = blamed \/ Precedes(t, blamed)}
    IN  /\ failed = {} <=> blamed = None
        /\ \A t \in failed : t = blamed \/ Precedes(blamed, t)
        /\ outputs.from = produced \cap reported
        /\ outputs.from = {} <=> outputs.shared = None
        /\ \A t \in outputs.from : t = outputs.shared \/ Precedes(t, outputs.shared)
        /\ completed = {completedTaskIds[i] : i \in DOMAIN completedTaskIds}
        /\ completed = {t \in begun : \A k \in DOMAIN waves : InWave(t, k) =>
                                         \A u \in failed : ~InWave(u, k)}

(* The tasks and what each of them answers determine the result, and the   *)
(* order in which they end, side by side, has no part in it.               *)
AnswerDetermined == pc = "ended" => WavesMinimal /\ AnswerFromResults

(* The caller gets its answer, also for cycles and after failures, unless  *)
(* it waits for a task that never ends: the loop itself, whatever waits in *)
(* its graph and whichever task failed, holds nobody up.                   *)
UltraworkEnds == <>(pc = "ended") \/ <>[](\E t \in Tasks : status[t] = "running")
=============================================================================
