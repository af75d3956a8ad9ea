--------------------------- MODULE UltraworkProofs ---------------------------
(***************************************************************************)
(* Ultrawork for any tasks: types, and that the waves implement TaskGraph. *)
(*                                                                         *)
(* The inductive invariant Inv says, for each place of runUltrawork, how   *)
(* far the tasks are: those of `completed` are done, those of the wave     *)
(* under way were runnable, all others wait.                               *)
(***************************************************************************)
EXTENDS Ultrawork, FiniteSetTheorems, TLAPS

WaitingOutside(S) == \A t \in Ids \ S : status[t] = "waiting"

BeforeStart == /\ pending = {} /\ completed = {}
               /\ WaitingOutside({})

Between == /\ Valid
           /\ pending \cup completed = Tasks
           /\ \A t \in completed : status[t] = "done"
           /\ WaitingOutside(completed)

UnderWay == /\ Valid
            /\ pending \cup completed = Tasks
            /\ waves # <<>>
            /\ Members \subseteq pending
            /\ \A t \in completed : status[t] = "done"
            /\ \A t \in Members : /\ status[t] # "waiting"
                                  /\ input.dependsOn[t] \subseteq completed
            /\ WaitingOutside(completed \cup Members)

Inv == /\ UltraworkTypeOK
       /\ pc = "validate" => BeforeStart
       /\ pc = "schedule" => Between
       /\ pc = "await" => UnderWay
       /\ pc = "ended" <=> answer.status # "none"
       /\ pc = "ended" => \A t \in Ids : status[t] # "running"

-----------------------------------------------------------------------------
(* The ids on a list are ids, and what they depend on are ids.             *)
LEMMA InputTypes ==
    ASSUME input \in Inputs
    PROVE  /\ input.list \in Seq(Ids)
           /\ Tasks \subseteq Ids
           /\ input.dependsOn \in [Ids -> SUBSET Ids]
  <1>1. input.list \in Seq(Ids) /\ input.dependsOn \in [Ids -> SUBSET Ids]
    BY UltraworkAssumption
  <1> QED
    BY <1>1 DEF Tasks

(* The wave under way is a sequence of tasks.                              *)
LEMMA WaveTypes ==
    ASSUME waves \in Seq(Seq(Tasks)), waves # <<>>
    PROVE  /\ Wave \in Seq(Tasks)
           /\ Members \subseteq Tasks
  <1>1. Wave \in Seq(Tasks)
    BY DEF Wave
  <1> QED
    BY <1>1 DEF Members

LEMMA AppendLast ==
    ASSUME NEW S, NEW s \in Seq(S), NEW e \in S
    PROVE  /\ Append(s, e) \in Seq(S) /\ Append(s, e) # <<>>
           /\ Append(s, e)[Len(Append(s, e))] = e
  OBVIOUS

(* There are finitely many tasks.                                          *)
LEMMA FinitelyMany ==
    ASSUME input \in Inputs
    PROVE  IsFiniteSet(Tasks)
  <1>1. input.list \in Seq(Ids)
    BY InputTypes
  <1>2. DOMAIN input.list = 1 .. Len(input.list) /\ Len(input.list) \in Nat
    BY <1>1
  <1>3. IsFiniteSet(DOMAIN input.list)
    BY <1>2, FS_Interval
  <1>4. input.list \in Surjection(DOMAIN input.list, Tasks)
    BY <1>1 DEF Tasks, Surjection
  <1> QED
    BY <1>3, <1>4, FS_Surjection

(* An order of a set of tasks is a sequence of just these tasks.           *)
LEMMA OrderOf ==
    ASSUME NEW S, S \subseteq Tasks, NEW w \in Orders(S), input \in Inputs
    PROVE  w \in Seq(Tasks) /\ {w[i] : i \in DOMAIN w} = S
  <1>1. Cardinality(S) \in Nat
    BY FinitelyMany, FS_Subset, FS_CardinalityType
  <1>2. w \in [1 .. Cardinality(S) -> S] /\ \A t \in S : \E i \in DOMAIN w : w[i] = t
    BY DEF Orders
  <1>3. w \in Seq(Tasks)
    BY <1>1, <1>2
  <1>4. {w[i] : i \in DOMAIN w} \subseteq S /\ S \subseteq {w[i] : i \in DOMAIN w}
    BY <1>2
  <1> QED
    BY <1>3, <1>4

(* What is assigned comes from the wave.                                   *)
LEMMA AssignTypes ==
    ASSUME UltraworkTypeOK, UnderWay, NEW k \in 0 .. Len(Wave), AssignOutputs(k)
    PROVE  outputs' \in [from : SUBSET Tasks, shared : Tasks \cup {None}]
  <1>1. waves \in Seq(Seq(Tasks)) /\ waves # <<>>
    BY DEF UltraworkTypeOK, UnderWay
  <1>2. Wave \in Seq(Tasks)
    BY <1>1, WaveTypes
  <1>3. \A i \in 1 .. k : Wave[i] \in Tasks
    BY <1>2
  <1>4. outputs \in [from : SUBSET Tasks, shared : Tasks \cup {None}]
    BY DEF UltraworkTypeOK
  <1> DEFINE givers == {i \in 1 .. k : Wave[i] \in produced}
  <1>5. CASE UNCHANGED outputs
    BY <1>4, <1>5
  <1>6. CASE \E last \in givers :
                outputs' = [from |-> outputs.from \cup {Wave[i] : i \in givers},
                            shared |-> Wave[last]]
    BY <1>3, <1>4, <1>6
  <1> QED
    BY <1>5, <1>6 DEF AssignOutputs

-----------------------------------------------------------------------------
LEMMA InvInit == Init => Inv
  <1> SUFFICES ASSUME Init PROVE Inv
    OBVIOUS
  <1>1. UltraworkTypeOK
    BY InputTypes DEF Init, UltraworkTypeOK
  <1>2. BeforeStart
    BY DEF Init, BeforeStart, WaitingOutside
  <1> QED
    BY <1>1, <1>2 DEF Init, Inv

LEMMA InvValidate == Inv /\ Validate => Inv'
  <1> SUFFICES ASSUME Inv, Validate PROVE Inv'
    OBVIOUS
  <1> USE DEF Validate, taskVars, results, Return
  <1>1. UltraworkTypeOK /\ BeforeStart /\ Tasks' = Tasks /\ (Valid' <=> Valid)
    BY DEF Inv, Tasks, Valid
  <1>2. UltraworkTypeOK'
    BY <1>1 DEF UltraworkTypeOK, BeforeStart
  <1>3. pc' = "schedule" => Between'
    BY <1>1 DEF BeforeStart, Between, WaitingOutside
  <1>4. pc' = "ended" => \A t \in Ids : status'[t] # "running"
    BY <1>1 DEF BeforeStart, WaitingOutside
  <1> QED
    BY <1>2, <1>3, <1>4 DEF Inv, UltraworkTypeOK

LEMMA InvStartWave == Inv /\ StartWave => Inv'
  <1> SUFFICES ASSUME Inv, StartWave PROVE Inv'
    OBVIOUS
  <1> USE DEF StartWave
  <1>1. UltraworkTypeOK /\ Between /\ Tasks' = Tasks /\ (Valid' <=> Valid) /\ Runnable \subseteq Tasks
    BY DEF Inv, Tasks, Valid, Runnable, UltraworkTypeOK
  <1>2. PICK w \in Orders(Runnable) : waves' = Append(waves, w)
    OBVIOUS
  <1>3. w \in Seq(Tasks) /\ {w[i] : i \in DOMAIN w} = Runnable
    BY <1>1, OrderOf DEF UltraworkTypeOK
  <1>4. waves' \in Seq(Seq(Tasks)) /\ waves' # <<>> /\ Wave' = w
    <2>1. waves \in Seq(Seq(Tasks)) /\ w \in Seq(Tasks)
      BY <1>1, <1>3 DEF UltraworkTypeOK
    <2> QED
      BY <1>2, <2>1, AppendLast, Zenon DEF Wave
  <1>5. Members' = Runnable
    BY <1>3, <1>4 DEF Members
  <1>6. UltraworkTypeOK'
    BY <1>1, <1>4 DEF UltraworkTypeOK
  <1>7. UnderWay'
    <2>1. \A t \in Ids : status'[t] = IF t \in Runnable THEN "running" ELSE status[t]
      OBVIOUS
    <2>2. Runnable \subseteq Ids /\ completed \subseteq Ids
      BY <1>1, InputTypes DEF UltraworkTypeOK
    <2>3. Runnable \subseteq pending /\ \A t \in Runnable : input.dependsOn[t] \subseteq completed
      BY DEF Runnable
    <2>4. \A t \in completed : status'[t] = "done"
      BY <1>1, <2>1, <2>2, <2>3 DEF Between, UltraworkTypeOK
    <2>5. \A t \in Ids \ (completed \cup Runnable) : status'[t] = "waiting"
      BY <1>1, <2>1 DEF Between, WaitingOutside
    <2> QED
      BY <1>1, <1>4, <1>5, <2>1, <2>2, <2>3, <2>4, <2>5 DEF UnderWay, Between, WaitingOutside
  <1> QED
    BY <1>6, <1>7 DEF Inv

LEMMA InvAnswer == Inv /\ (Blocked \/ Complete) => Inv'
  <1> SUFFICES ASSUME Inv, Blocked \/ Complete PROVE Inv'
    OBVIOUS
  <1> USE DEF Blocked, Complete, taskVars, results, Return
  <1>1. UltraworkTypeOK /\ Between /\ Tasks' = Tasks
    BY DEF Inv, Tasks
  <1>2. UltraworkTypeOK'
    BY <1>1 DEF UltraworkTypeOK
  <1>3. \A t \in Ids : status'[t] # "running"
    BY <1>1 DEF Between, WaitingOutside
  <1> QED
    BY <1>2, <1>3 DEF Inv

LEMMA InvTaskEnds == ASSUME Inv, NEW t \in Ids, TaskEnds(t) PROVE Inv'
  <1> USE DEF TaskEnds, taskVars, results
  <1>1. UltraworkTypeOK /\ Tasks' = Tasks /\ (Valid' <=> Valid) /\ Members' = Members
    BY DEF Inv, Tasks, Valid, Members, Wave
  <1>2. pc = "await" /\ UnderWay
    BY DEF Inv, UltraworkTypeOK, BeforeStart, Between, WaitingOutside
  <1>3. t \in Members
    BY <1>2 DEF UnderWay, WaitingOutside
  <1>4. status' \in [Ids -> {"waiting", "running", "done", "failed"}] /\ status'[t] \in {"done", "failed"}
    BY <1>1 DEF UltraworkTypeOK
  <1>5. UltraworkTypeOK'
    BY <1>1, <1>4 DEF UltraworkTypeOK
  <1>6. \A u \in Ids \ {t} : status'[u] = status[u]
    BY <1>1 DEF UltraworkTypeOK
  <1>7. t \notin completed
    BY <1>1, <1>2, <1>3 DEF UltraworkTypeOK, UnderWay
  <1>8. UnderWay'
    BY <1>1, <1>2, <1>3, <1>4, <1>6, <1>7, InputTypes DEF UnderWay, WaitingOutside, UltraworkTypeOK
  <1> QED
    BY <1>2, <1>5, <1>8 DEF Inv

LEMMA InvWaveFails == Inv /\ WaveFails => Inv'
  <1> SUFFICES ASSUME Inv, WaveFails PROVE Inv'
    OBVIOUS
  <1>1. UltraworkTypeOK /\ UnderWay /\ Tasks' = Tasks
    BY DEF Inv, WaveFails, AllSettled, taskVars, Tasks
  <1>2. PICK k \in DOMAIN Wave : AssignOutputs(k) /\ Return("failed", Wave[k])
    BY DEF WaveFails
  <1>3. Wave \in Seq(Tasks)
    BY <1>1, WaveTypes DEF UltraworkTypeOK, UnderWay
  <1>4. outputs' \in [from : SUBSET Tasks, shared : Tasks \cup {None}]
    BY <1>1, <1>2, <1>3, AssignTypes
  <1>5. answer' = [status |-> "failed", failedTaskId |-> Wave[k]] /\ pc' = "ended"
    BY <1>2 DEF Return
  <1>6. UltraworkTypeOK'
    BY <1>1, <1>3, <1>4, <1>5 DEF UltraworkTypeOK, WaveFails, taskVars
  <1>7. \A t \in Ids : status'[t] # "running"
    BY <1>1 DEF UnderWay, WaitingOutside, WaveFails, AllSettled, taskVars
  <1> QED
    BY <1>5, <1>6, <1>7 DEF Inv

LEMMA InvWaveCompletes == Inv /\ WaveCompletes => Inv'
  <1> SUFFICES ASSUME Inv, WaveCompletes PROVE Inv'
    OBVIOUS
  <1> USE DEF WaveCompletes, taskVars
  <1>1. UltraworkTypeOK /\ UnderWay /\ Tasks' = Tasks /\ (Valid' <=> Valid)
    BY DEF Inv, AllSettled, Tasks, Valid
  <1>2. Wave \in Seq(Tasks) /\ Members \subseteq Tasks
    BY <1>1, WaveTypes DEF UltraworkTypeOK, UnderWay
  <1>3. outputs' \in [from : SUBSET Tasks, shared : Tasks \cup {None}]
    BY <1>1, <1>2, AssignTypes
  <1>4. completedTaskIds' \in Seq(Tasks)
    BY <1>1, <1>2 DEF UltraworkTypeOK
  <1>5. UltraworkTypeOK'
    BY <1>1, <1>2, <1>3, <1>4 DEF UltraworkTypeOK
  <1>6. \A t \in Members : status[t] = "done"
    BY <1>1, <1>2, InputTypes DEF AllSettled, UnderWay, UltraworkTypeOK
  <1>7. Between'
    BY <1>1, <1>6 DEF Between, UnderWay, WaitingOutside
  <1> QED
    BY <1>1, <1>5, <1>7 DEF Inv, AllSettled

LEMMA InvNext == Inv /\ [Next]_vars => Inv'
  <1>1. Inv /\ UNCHANGED vars => Inv'
    BY DEF vars, Inv, UltraworkTypeOK, BeforeStart, Between, UnderWay, WaitingOutside,
           Members, Wave, Tasks, Valid
  <1> QED
    BY <1>1, InvValidate, InvStartWave, InvAnswer, InvTaskEnds, InvWaveFails,
       InvWaveCompletes DEF Next, Scheduler

LEMMA InvHolds == Spec => []Inv
  BY InvInit, InvNext, PTL DEF Spec

(* Type correctness, for any ids and any lists of tasks.                   *)
THEOREM TypeCorrect == Spec => []UltraworkTypeOK
  <1>1. Inv => UltraworkTypeOK
    BY DEF Inv
  <1> QED
    BY <1>1, InvHolds, PTL

-----------------------------------------------------------------------------
(* Every step of the waves is a step of the task graph, or none.           *)
TaskGraphStep == [Graph!Next]_(Graph!vars)

LEMMA ValidateRefines == Inv /\ Validate => TaskGraphStep
  <1> SUFFICES ASSUME Inv, Validate PROVE TaskGraphStep
    OBVIOUS
  <1> USE DEF Validate, taskVars
  <1>1. Tasks' = Tasks /\ (Valid' <=> Valid) /\ input' = input /\ status' = status
    BY DEF Tasks, Valid
  <1>2. CASE Valid
    BY <1>1, <1>2 DEF TaskGraphStep, Graph!vars
  <1>3. CASE ~Valid
    <2>1. Tasks \subseteq Ids
      BY InputTypes DEF Inv, UltraworkTypeOK
    <2>2. answer.status = "none" /\ answer'.status = "failed"
      BY <1>3 DEF Inv, UltraworkTypeOK, Return
    <2>3. Graph!Quiet
      BY <2>1 DEF Inv, BeforeStart, WaitingOutside, Graph!Quiet
    <2>4. Graph!Answer("failed")
      BY <1>1, <1>3, <2>2, <2>3 DEF Graph!Answer
    <2> QED
      BY <2>4 DEF TaskGraphStep, Graph!Next
  <1> QED
    BY <1>2, <1>3

(* A wave is started of tasks that are ready, after no failure.            *)
LEMMA StartWaveRefines == Inv /\ StartWave => TaskGraphStep
  <1> SUFFICES ASSUME Inv, StartWave PROVE TaskGraphStep
    OBVIOUS
  <1>1. Tasks' = Tasks /\ (Valid' <=> Valid) /\ input' = input /\ answer' = answer
    BY DEF StartWave, Tasks, Valid
  <1>2. UltraworkTypeOK /\ Between /\ answer.status = "none"
    BY DEF Inv, StartWave, UltraworkTypeOK
  <1>3. Tasks \subseteq Ids /\ Runnable \subseteq pending
    BY <1>2, InputTypes DEF UltraworkTypeOK, Runnable
  <1>4. ~Graph!Failure
    BY <1>2, <1>3 DEF Between, WaitingOutside, Graph!Failure
  <1>5. \A t \in Runnable : /\ status[t] = "waiting"
                            /\ \A d \in input.dependsOn[t] : status[d] = "done"
    BY <1>2, <1>3 DEF Between, WaitingOutside, Runnable, UltraworkTypeOK
  <1>6. Graph!Start(Runnable)
    BY <1>1, <1>2, <1>4, <1>5 DEF StartWave, Between, Graph!Start
  <1>7. Runnable \in SUBSET Tasks
    BY <1>2, <1>3 DEF UltraworkTypeOK
  <1> QED
    BY <1>6, <1>7 DEF TaskGraphStep, Graph!Next

(* When nothing is runnable, each pending task waits for a pending one.    *)
LEMMA BlockedRefines == Inv /\ Blocked => TaskGraphStep
  <1> SUFFICES ASSUME Inv, Blocked PROVE TaskGraphStep
    OBVIOUS
  <1>1. Tasks' = Tasks /\ (Valid' <=> Valid) /\ input' = input /\ status' = status
    BY DEF Blocked, taskVars, Tasks, Valid
  <1>2. UltraworkTypeOK /\ Between
    BY DEF Inv, Blocked
  <1>3. answer.status = "none" /\ answer'.status = "failed"
    BY DEF Inv, Blocked, Return
  <1>4. Tasks \subseteq Ids /\ pending \subseteq Tasks
    BY <1>2, InputTypes DEF UltraworkTypeOK
  <1>5. Graph!Quiet
    BY <1>2, <1>4 DEF Between, WaitingOutside, Graph!Quiet
  <1>6. ASSUME NEW t \in pending
        PROVE  status[t] = "waiting" /\ input.dependsOn[t] \cap pending # {}
    <2>1. status[t] = "waiting"
      BY <1>2, <1>4 DEF Between, WaitingOutside, UltraworkTypeOK
    <2>2. PICK d \in input.dependsOn[t] : d \notin completed
      BY DEF Blocked, Runnable
    <2>3. d \in Tasks
      BY <1>2, <1>4, <2>2 DEF Between, Valid
    <2> QED
      BY <1>2, <2>1, <2>2, <2>3 DEF Between
  <1>7. Graph!Deadlocked
    BY <1>4, <1>6 DEF Blocked, Graph!Deadlocked
  <1>8. Graph!Answer("failed")
    BY <1>1, <1>3, <1>5, <1>7 DEF Graph!Answer
  <1> QED
    BY <1>8 DEF TaskGraphStep, Graph!Next

LEMMA CompleteRefines == Inv /\ Complete => TaskGraphStep
  <1> SUFFICES ASSUME Inv, Complete PROVE TaskGraphStep
    OBVIOUS
  <1>1. Tasks' = Tasks /\ (Valid' <=> Valid) /\ input' = input /\ status' = status
    BY DEF Complete, taskVars, Tasks, Valid
  <1>2. answer.status = "none" /\ answer'.status = "completed"
    BY DEF Inv, Complete, Return
  <1>3. Valid /\ \A t \in Tasks : status[t] = "done"
    BY DEF Inv, Complete, Between
  <1>4. Graph!Answer("completed")
    BY <1>1, <1>2, <1>3 DEF Graph!Answer, Graph!Quiet
  <1> QED
    BY <1>4 DEF TaskGraphStep, Graph!Next

LEMMA TaskEndsRefines ==
    ASSUME Inv, NEW t \in Ids, TaskEnds(t)
    PROVE  TaskGraphStep
  <1>1. Tasks' = Tasks /\ (Valid' <=> Valid) /\ input' = input /\ answer' = answer
    BY DEF TaskEnds, Tasks, Valid
  <1>2. UltraworkTypeOK /\ UnderWay
    BY DEF Inv, TaskEnds, UltraworkTypeOK, BeforeStart, Between, WaitingOutside
  <1>3. t \in Tasks
    BY <1>2, WaveTypes DEF UnderWay, WaitingOutside, TaskEnds, UltraworkTypeOK
  <1>4. PICK how \in {"done", "failed"} : status' = [status EXCEPT ![t] = how]
    BY DEF TaskEnds
  <1>5. Graph!End(t, how)
    BY <1>1, <1>4 DEF TaskEnds, Graph!End
  <1> QED
    BY <1>3, <1>5 DEF TaskGraphStep, Graph!Next

LEMMA WaveFailsRefines == Inv /\ WaveFails => TaskGraphStep
  <1> SUFFICES ASSUME Inv, WaveFails PROVE TaskGraphStep
    OBVIOUS
  <1>1. Tasks' = Tasks /\ (Valid' <=> Valid) /\ input' = input /\ status' = status
    BY DEF WaveFails, taskVars, Tasks, Valid
  <1>2. UltraworkTypeOK /\ UnderWay /\ answer.status = "none"
    BY DEF Inv, WaveFails, AllSettled
  <1>3. answer'.status = "failed"
    BY DEF WaveFails, Return
  <1>4. Tasks \subseteq Ids
    BY <1>2, InputTypes DEF UltraworkTypeOK
  <1>5. Graph!Quiet
    BY <1>2, <1>4 DEF UnderWay, WaitingOutside, WaveFails, AllSettled, Graph!Quiet
  <1>6. Graph!Failure
    BY <1>2, WaveTypes DEF UltraworkTypeOK, UnderWay, WaveFails, Members, Graph!Failure
  <1>7. Graph!Answer("failed")
    BY <1>1, <1>2, <1>3, <1>5, <1>6 DEF Graph!Answer
  <1> QED
    BY <1>7 DEF TaskGraphStep, Graph!Next

LEMMA WaveCompletesRefines == Inv /\ WaveCompletes => TaskGraphStep
  BY DEF WaveCompletes, taskVars, Tasks, Valid, TaskGraphStep, Graph!vars

(* For any tasks the waves keep what TaskGraph promises: no task before all*)
(* it depends on, none twice or after a failure, and true answers.         *)
THEOREM WavesImplement == Spec => ImplementsTaskGraph
  <1>1. Init => Graph!Init
    <2>1. Valid \in BOOLEAN
      BY DEF Valid
    <2> QED
      BY <2>1, InputTypes DEF Init, Graph!Init
  <1>2. Inv /\ UNCHANGED vars => TaskGraphStep
    BY DEF vars, Tasks, Valid, TaskGraphStep, Graph!vars
  <1>3. Inv /\ [Next]_vars => TaskGraphStep
    BY <1>2, ValidateRefines, StartWaveRefines, BlockedRefines, CompleteRefines,
       TaskEndsRefines, WaveFailsRefines, WaveCompletesRefines DEF Next, Scheduler
  <1> QED
    BY <1>1, <1>3, InvHolds, PTL DEF Spec, ImplementsTaskGraph, Graph!Spec, TaskGraphStep

-----------------------------------------------------------------------------
(* What is recorded follows from the results: the invariant Told adds what *)
(* the lists, the waves and the outputs say at each place.                 *)

(* Of the first c waves all the tasks have completed.                      *)
Recorded(c) ==
    /\ \A t \in Tasks : t \in completed <=> \E k \in 1 .. c : InWave(t, k)
    /\ completed = {completedTaskIds[i] : i \in DOMAIN completedTaskIds}
    /\ outputs.from = produced \cap completed
    /\ outputs.from = {} <=> outputs.shared = None
    /\ \A t \in outputs.from : t = outputs.shared \/ Precedes(t, outputs.shared)
    /\ WavesMinimal

(* A task that has not been started waits for one of the last wave.        *)
Waiting(c) ==
    \A t \in pending : \E d \in input.dependsOn[t] : \A k \in 1 .. c - 1 : ~InWave(d, k)

Distinct == \A i, j \in DOMAIN Wave : Wave[i] = Wave[j] => i = j

Told == /\ pc = "validate" => /\ waves = <<>> /\ completedTaskIds = <<>>
                              /\ outputs.from = {} /\ outputs.shared = None
        /\ pc # "ended" => answer.failedTaskId = None
        /\ pc = "schedule" => /\ Recorded(Len(waves))
                              /\ Len(waves) > 0 => Waiting(Len(waves))
        /\ pc = "await" => /\ Recorded(Len(waves) - 1)
                           /\ Distinct
                           /\ \A t \in pending \ Members : ~(input.dependsOn[t] \subseteq completed)
        /\ AnswerDetermined

(* What a new wave adds to the waves there were.                           *)
LEMMA AppendWave ==
    ASSUME UltraworkTypeOK, NEW w \in Seq(Tasks), waves' = Append(waves, w)
    PROVE  /\ Len(waves) \in Nat /\ Len(waves') = Len(waves) + 1
           /\ DOMAIN waves = 1 .. Len(waves) /\ DOMAIN waves' = 1 .. Len(waves')
           /\ \A t, k : k \in 1 .. Len(waves) => (InWave(t, k)' <=> InWave(t, k))
           /\ \A t, k : k = Len(waves) + 1 => (InWave(t, k)' <=> \E i \in DOMAIN w : w[i] = t)
           /\ \A t, u : Precedes(t, u) => Precedes(t, u)'
           /\ Wave' = w
  <1>1. waves \in Seq(Seq(Tasks))
    BY DEF UltraworkTypeOK
  <1>2. /\ Len(waves) \in Nat /\ Len(waves') = Len(waves) + 1
        /\ DOMAIN waves = 1 .. Len(waves) /\ DOMAIN waves' = 1 .. Len(waves')
        /\ \A k \in 1 .. Len(waves) : waves'[k] = waves[k]
        /\ waves'[Len(waves) + 1] = w
    BY <1>1
  <1>3. ASSUME NEW t, NEW k \in 1 .. Len(waves)
        PROVE  InWave(t, k)' <=> InWave(t, k)
    <2>1. waves'[k] = waves[k]
      BY <1>2
    <2> QED
      BY <2>1 DEF InWave
  <1>4. ASSUME NEW t, NEW k, k = Len(waves) + 1
        PROVE  InWave(t, k)' <=> \E i \in DOMAIN w : w[i] = t
    <2>1. waves'[k] = w
      BY <1>2, <1>4
    <2> QED
      BY <2>1 DEF InWave
  <1>5. ASSUME NEW t, NEW u, Precedes(t, u)
        PROVE  Precedes(t, u)'
    <2>1. PICK k \in DOMAIN waves, m \in DOMAIN waves :
             \E i \in DOMAIN waves[k], j \in DOMAIN waves[m] :
                waves[k][i] = t /\ waves[m][j] = u /\ (k < m \/ (k = m /\ i < j))
      BY <1>5 DEF Precedes
    <2>2. /\ k \in DOMAIN waves' /\ m \in DOMAIN waves'
          /\ waves'[k] = waves[k] /\ waves'[m] = waves[m]
      BY <1>2
    <2> QED
      BY <2>1, <2>2 DEF Precedes
  <1>6. Wave' = w
    BY <1>2 DEF Wave
  <1> QED
    BY <1>2, <1>3, <1>4, <1>5, <1>6

(* What stays while the waves stay.                                        *)
LEMMA WavesStay ==
    ASSUME UNCHANGED <<input, waves>>
    PROVE  /\ \A t, k : InWave(t, k)' <=> InWave(t, k)
           /\ \A t, u : Precedes(t, u)' <=> Precedes(t, u)
           /\ WavesMinimal' <=> WavesMinimal
           /\ Tasks' = Tasks /\ Wave' = Wave /\ Members' = Members
           /\ Distinct' <=> Distinct
  <1>1. \A t, k : InWave(t, k)' <=> InWave(t, k)
    BY DEF InWave
  <1>2. \A t, u : Precedes(t, u)' <=> Precedes(t, u)
    BY DEF Precedes
  <1>3. Tasks' = Tasks /\ Wave' = Wave
    BY DEF Tasks, Wave
  <1>4. WavesMinimal' <=> WavesMinimal
    BY <1>1, <1>3 DEF WavesMinimal
  <1> QED
    BY <1>1, <1>2, <1>3, <1>4 DEF Members, Distinct

LEMMA RecordedStays ==
    ASSUME NEW c, Recorded(c), UNCHANGED <<input, waves, completed, completedTaskIds, outputs>>,
           produced' \cap completed = produced \cap completed
    PROVE  Recorded(c)'
  BY WavesStay DEF Recorded

(* The order of a wave names each of its tasks once.                       *)
LEMMA OrderDistinct ==
    ASSUME NEW S, S \subseteq Tasks, NEW w \in Orders(S), input \in Inputs
    PROVE  \A i, j \in DOMAIN w : w[i] = w[j] => i = j
  <1>1. IsFiniteSet(S) /\ Cardinality(S) \in Nat
    BY FinitelyMany, FS_Subset, FS_CardinalityType
  <1> DEFINE D == 1 .. Cardinality(S)
  <1>2. w \in [D -> S] /\ \A t \in S : \E i \in DOMAIN w : w[i] = t
    BY DEF Orders
  <1>3. w \in Surjection(D, S)
    BY <1>2 DEF Surjection
  <1>4. IsFiniteSet(D) /\ Cardinality(D) = Cardinality(S)
    BY <1>1, FS_Interval
  <1>5. w \in Injection(D, S)
    BY <1>1, <1>3, <1>4, FS_SurjSameCardinalityImpliesInj
  <1> QED
    BY <1>2, <1>5 DEF Injection, IsInjective

LEMMA ToldInit == Init => Told
  BY DEF Init, Told, AnswerDetermined

LEMMA ToldStartWave == Inv /\ Told /\ StartWave => Told'
  <1> SUFFICES ASSUME Inv, Told, StartWave PROVE Told'
    OBVIOUS
  <1>0. PICK n \in Nat : n = Len(waves)
    BY DEF Inv, UltraworkTypeOK
  <1>1. /\ UltraworkTypeOK /\ Between /\ Recorded(n) /\ (n > 0 => Waiting(n))
        /\ answer.failedTaskId = None
    BY <1>0 DEF Inv, Told, StartWave
  <1>2. PICK w \in Orders(Runnable) : waves' = Append(waves, w)
    BY DEF StartWave
  <1>3. Runnable \subseteq Tasks /\ Runnable \subseteq pending /\ input \in Inputs
    BY <1>1 DEF Runnable, UltraworkTypeOK
  <1>4. /\ w \in Seq(Tasks) /\ {w[i] : i \in DOMAIN w} = Runnable
        /\ \A i, j \in DOMAIN w : w[i] = w[j] => i = j
    BY <1>3, OrderOf, OrderDistinct
  <1>5. /\ n \in Nat /\ Len(waves') = n + 1
        /\ DOMAIN waves = 1 .. n /\ DOMAIN waves' = 1 .. Len(waves')
        /\ \A t, k : k \in 1 .. n => (InWave(t, k)' <=> InWave(t, k))
        /\ \A t, k : k = n + 1 => (InWave(t, k)' <=> t \in Runnable)
        /\ \A t, u : Precedes(t, u) => Precedes(t, u)'
        /\ Wave' = w /\ Members' = Runnable
    <2>1. /\ n \in Nat /\ Len(waves') = n + 1
          /\ DOMAIN waves = 1 .. n /\ DOMAIN waves' = 1 .. Len(waves')
          /\ \A t, k : k \in 1 .. n => (InWave(t, k)' <=> InWave(t, k))
          /\ \A t, k : k = n + 1 => (InWave(t, k)' <=> \E i \in DOMAIN w : w[i] = t)
          /\ \A t, u : Precedes(t, u) => Precedes(t, u)'
          /\ Wave' = w
      BY <1>0, <1>1, <1>2, <1>4, AppendWave
    <2> QED
      BY <1>4, <2>1 DEF Members
  <1>6. UNCHANGED <<input, pending, completed, completedTaskIds, outputs, produced, answer>>
        /\ pc' = "await" /\ Tasks' = Tasks
    BY DEF StartWave, Tasks
  <1>7. WavesMinimal'
    <2> SUFFICES ASSUME NEW k \in 1 .. n + 1, NEW t \in Tasks, InWave(t, k)'
                 PROVE  /\ \A d \in input.dependsOn[t] : \E j \in 1 .. k - 1 : InWave(d, j)'
                        /\ k > 1 => \E d \in input.dependsOn[t] : InWave(d, k - 1)'
      BY <1>5, <1>6 DEF WavesMinimal
    <2>1. CASE k \in 1 .. n
      <3>1. InWave(t, k)
        BY <1>5, <2>1
      <3>2. /\ \A d \in input.dependsOn[t] : \E j \in 1 .. k - 1 : InWave(d, j)
            /\ k > 1 => \E d \in input.dependsOn[t] : InWave(d, k - 1)
        BY <1>1, <1>5, <2>1, <3>1 DEF Recorded, WavesMinimal
      <3>3. 1 .. k - 1 \subseteq 1 .. n /\ (k > 1 => k - 1 \in 1 .. n)
        BY <1>5, <2>1
      <3> QED
        BY <1>5, <3>2, <3>3
    <2>2. CASE k = n + 1
      <3>1. t \in Runnable /\ t \in pending /\ input.dependsOn[t] \subseteq completed
        BY <1>5, <2>2 DEF Runnable
      <3>2. \A d \in completed : \E j \in 1 .. n : InWave(d, j)
        BY <1>1 DEF Recorded, UltraworkTypeOK
      <3>3. k - 1 = n /\ \A d, j : j \in 1 .. n => (InWave(d, j)' <=> InWave(d, j))
        BY <1>5, <2>2
      <3>4. ASSUME k > 1
            PROVE  \E d \in input.dependsOn[t] : InWave(d, n)'
        <4>1. n > 0
          BY <1>5, <2>2, <3>4
        <4>2. PICK d \in input.dependsOn[t] : \A j \in 1 .. n - 1 : ~InWave(d, j)
          BY <1>1, <3>1, <4>1 DEF Waiting
        <4>3. PICK j \in 1 .. n : InWave(d, j)
          BY <3>1, <3>2
        <4>4. j = n
          BY <1>5, <4>2, <4>3
        <4> QED
          BY <3>3, <4>3, <4>4
      <3> QED
        BY <3>1, <3>2, <3>3, <3>4
    <2> QED
      BY <1>5, <2>1, <2>2
  <1>8. Recorded(n)'
    <2>1. \A t \in Tasks : t \in completed <=> \E k \in 1 .. n : InWave(t, k)'
      BY <1>1, <1>5 DEF Recorded
    <2>2. \A t \in outputs.from : t = outputs.shared \/ Precedes(t, outputs.shared)'
      BY <1>1, <1>5, <1>6 DEF Recorded
    <2> QED
      BY <1>1, <1>6, <1>7, <2>1, <2>2 DEF Recorded
  <1>9. Len(waves') - 1 = n
    BY <1>5
  <1>10. Distinct'
    BY <1>4, <1>5 DEF Distinct
  <1>11. \A t \in pending \ Runnable : ~(input.dependsOn[t] \subseteq completed)
    BY DEF Runnable
  <1> QED
    BY <1>1, <1>5, <1>6, <1>8, <1>9, <1>10, <1>11 DEF Told, AnswerDetermined

(* Before a failure the answer names no task.                              *)
LEMMA ToldValidate == Inv /\ Told /\ Validate => Told'
  <1> SUFFICES ASSUME Inv, Told, Validate PROVE Told'
    OBVIOUS
  <1>1. /\ UltraworkTypeOK /\ completed = {} /\ waves = <<>> /\ completedTaskIds = <<>>
        /\ outputs.from = {} /\ outputs.shared = None /\ answer.failedTaskId = None
    BY DEF Inv, Told, Validate, BeforeStart
  <1>2. /\ UNCHANGED <<input, waves, completed, completedTaskIds, outputs, produced, status>>
        /\ Tasks' = Tasks
    BY DEF Validate, taskVars, results, Tasks
  <1>3. /\ \A t, k : ~(k \in DOMAIN waves /\ InWave(t, k))
        /\ DOMAIN waves = {} /\ Len(waves) = 0 /\ 1 .. 0 = {}
        /\ DOMAIN completedTaskIds = {}
    BY <1>1
  <1>4. WavesMinimal'
    BY <1>2, <1>3 DEF WavesMinimal
  <1>5. Recorded(Len(waves))'
    BY <1>1, <1>2, <1>3, <1>4 DEF Recorded
  <1>6. pc' = "ended" => answer'.failedTaskId = None /\ AnswerFromResults'
    <2>1. pc' = "ended" => answer'.failedTaskId = None
      BY DEF Validate, Return
    <2> QED
      BY <1>1, <1>2, <1>3, <2>1 DEF AnswerFromResults
  <1>7. pc' # "ended" => pc' = "schedule" /\ answer'.failedTaskId = None
    BY <1>1 DEF Validate, Return
  <1> QED
    BY <1>2, <1>3, <1>4, <1>5, <1>6, <1>7 DEF Told, AnswerDetermined

(* Without a failure every wave has completed.                             *)
LEMMA ToldAnswer == Inv /\ Told /\ (Blocked \/ Complete) => Told'
  <1> SUFFICES ASSUME Inv, Told, Blocked \/ Complete PROVE Told'
    OBVIOUS
  <1>1. /\ UltraworkTypeOK /\ Between /\ Recorded(Len(waves))
        /\ Len(waves) \in Nat /\ DOMAIN waves = 1 .. Len(waves)
    BY DEF Inv, Told, Blocked, Complete, UltraworkTypeOK
  <1>2. /\ UNCHANGED <<input, waves, completed, completedTaskIds, outputs, produced, status>>
        /\ pc' = "ended" /\ answer'.failedTaskId = None
    BY DEF Blocked, Complete, taskVars, results, Return
  <1>3. /\ \A t, k : InWave(t, k)' <=> InWave(t, k)
        /\ \A t, u : Precedes(t, u)' <=> Precedes(t, u)
        /\ WavesMinimal' <=> WavesMinimal
        /\ Tasks' = Tasks
    BY <1>2, WavesStay
  <1>4. completed = {t \in Tasks : \E k \in DOMAIN waves : InWave(t, k)}
    BY <1>1 DEF Recorded, UltraworkTypeOK
  <1>5. {t \in completed : status[t] = "failed"} = {}
    BY <1>1 DEF Between
  <1>6. AnswerFromResults'
    BY <1>1, <1>2, <1>3, <1>4, <1>5 DEF AnswerFromResults, Recorded
  <1> QED
    BY <1>1, <1>2, <1>3, <1>6 DEF Told, AnswerDetermined, Recorded

LEMMA ToldTaskEnds == ASSUME Inv, Told, NEW t \in Ids, TaskEnds(t) PROVE Told'
  <1>1. UltraworkTypeOK /\ pc = "await" /\ UnderWay
    BY DEF Inv, UltraworkTypeOK, BeforeStart, Between, WaitingOutside, TaskEnds
  <1>2. t \notin completed
    BY <1>1 DEF UnderWay, TaskEnds
  <1>3. /\ UNCHANGED <<input, pc, pending, completed, completedTaskIds, waves, outputs, answer>>
        /\ produced' \cap completed = produced \cap completed
    BY <1>2 DEF TaskEnds, results
  <1>4. Recorded(Len(waves) - 1)'
    <2>1. PICK c : c = Len(waves) - 1
      OBVIOUS
    <2>2. Recorded(c)'
      BY <1>1, <1>3, <2>1, RecordedStays DEF Told
    <2> QED
      BY <1>3, <2>1, <2>2 DEF Recorded
  <1>5. (Distinct' <=> Distinct) /\ Members' = Members
    BY <1>3, WavesStay
  <1> QED
    BY <1>1, <1>3, <1>4, <1>5 DEF Told, AnswerDetermined

(* What the first k of a wave add to the outputs.                          *)
LEMMA AssignRecords ==
    ASSUME UltraworkTypeOK, waves # <<>>, Recorded(Len(waves) - 1),
           NEW k \in 0 .. Len(Wave), AssignOutputs(k), UNCHANGED <<input, waves>>
    PROVE  /\ outputs'.from = outputs.from \cup (produced \cap {Wave[i] : i \in 1 .. k})
           /\ outputs'.from = {} <=> outputs'.shared = None
           /\ \A t \in outputs'.from : t = outputs'.shared \/ Precedes(t, outputs'.shared)
  <1>0. PICK n \in Nat : n = Len(waves) /\ n > 0 /\ DOMAIN waves = 1 .. n
    BY DEF UltraworkTypeOK
  <1>1. /\ Wave \in Seq(Tasks) /\ Wave = waves[n] /\ DOMAIN Wave = 1 .. Len(Wave)
        /\ None \notin Tasks /\ Len(Wave) \in Nat
    BY <1>0, WaveTypes, InputTypes, UltraworkAssumption DEF UltraworkTypeOK, None, Wave
  <1>2. /\ \A t \in outputs.from : \E m \in 1 .. n - 1 : InWave(t, m)
        /\ outputs.from = {} <=> outputs.shared = None
        /\ \A t \in outputs.from : t = outputs.shared \/ Precedes(t, outputs.shared)
    BY <1>0 DEF Recorded, UltraworkTypeOK
  <1> DEFINE givers == {i \in 1 .. k : Wave[i] \in produced}
  <1>3. {Wave[i] : i \in givers} = produced \cap {Wave[i] : i \in 1 .. k}
    OBVIOUS
  <1>4. CASE givers = {} /\ UNCHANGED outputs
    BY <1>2, <1>3, <1>4
  <1>5. ASSUME NEW last \in givers, \A i \in givers : i <= last,
               outputs' = [from |-> outputs.from \cup {Wave[i] : i \in givers},
                           shared |-> Wave[last]]
        PROVE  /\ outputs'.from = outputs.from \cup (produced \cap {Wave[i] : i \in 1 .. k})
               /\ outputs'.from = {} <=> outputs'.shared = None
               /\ \A t \in outputs'.from : t = outputs'.shared \/ Precedes(t, outputs'.shared)
    <2>1. last \in DOMAIN Wave /\ Wave[last] \in Tasks /\ Wave[last] # None
      BY <1>1
    <2>2. ASSUME NEW t \in outputs.from
          PROVE  Precedes(t, Wave[last])
      <3>1. PICK m \in 1 .. n - 1 : InWave(t, m)
        BY <1>2
      <3>2. PICK i \in DOMAIN waves[m] : waves[m][i] = t
        BY <3>1 DEF InWave
      <3>3. m \in DOMAIN waves /\ n \in DOMAIN waves /\ m < n
        BY <1>0, <3>1
      <3> QED
        BY <1>1, <2>1, <3>2, <3>3 DEF Precedes
    <2>3. ASSUME NEW i \in givers
          PROVE  i = last \/ Precedes(Wave[i], Wave[last])
      <3>1. i \in DOMAIN Wave /\ (i = last \/ i < last)
        BY <1>1, <1>5
      <3>2. n \in DOMAIN waves
        BY <1>0
      <3> QED
        BY <1>1, <2>1, <3>1, <3>2 DEF Precedes
    <2>4. /\ outputs'.from = outputs.from \cup {Wave[i] : i \in givers}
          /\ outputs'.shared = Wave[last]
      BY <1>5
    <2> QED
      BY <1>3, <2>1, <2>2, <2>3, <2>4
  <1> QED
    BY <1>4, <1>5 DEF AssignOutputs

(* u names what s or t names.                                              *)
Joins(s, t, u) ==
    \A e : (\E i \in DOMAIN u : u[i] = e) <=>
               (\E i \in DOMAIN s : s[i] = e) \/ (\E i \in DOMAIN t : t[i] = e)

(* Two lists, one behind the other, name what either names.                *)
LEMMA ConcatRange ==
    ASSUME NEW S, NEW s \in Seq(S), NEW t \in Seq(S), NEW u, u = s \o t
    PROVE  Joins(s, t, u)
  <1>1. /\ DOMAIN (s \o t) = 1 .. Len(s) + Len(t)
        /\ DOMAIN s = 1 .. Len(s) /\ DOMAIN t = 1 .. Len(t)
        /\ Len(s) \in Nat /\ Len(t) \in Nat
    OBVIOUS
  <1>2. \A i \in 1 .. Len(s) + Len(t) :
           (s \o t)[i] = IF i <= Len(s) THEN s[i] ELSE t[i - Len(s)]
    OBVIOUS
  <1>3. ASSUME NEW i \in DOMAIN t
        PROVE  i + Len(s) \in DOMAIN (s \o t) /\ (s \o t)[i + Len(s)] = t[i]
    <2>1. i + Len(s) \in 1 .. Len(s) + Len(t) /\ ~(i + Len(s) <= Len(s))
          /\ i + Len(s) - Len(s) = i
      BY <1>1
    <2> QED
      BY <1>1, <1>2, <2>1
  <1>4. ASSUME NEW i \in DOMAIN s
        PROVE  i \in DOMAIN (s \o t) /\ (s \o t)[i] = s[i]
    BY <1>1, <1>2
  <1>5. ASSUME NEW i \in DOMAIN (s \o t)
        PROVE  \/ i \in DOMAIN s /\ (s \o t)[i] = s[i]
               \/ \E j \in DOMAIN t : (s \o t)[i] = t[j]
    <2>1. i <= Len(s) => i \in DOMAIN s
      BY <1>1
    <2>2. ~(i <= Len(s)) => i - Len(s) \in DOMAIN t
      BY <1>1
    <2> QED
      BY <1>1, <1>2, <2>1, <2>2
  <1>6. /\ \A i \in DOMAIN t : \E j \in DOMAIN u : u[j] = t[i]
        /\ \A i \in DOMAIN s : i \in DOMAIN u /\ u[i] = s[i]
        /\ \A i \in DOMAIN u : \/ i \in DOMAIN s /\ u[i] = s[i]
                              \/ \E j \in DOMAIN t : u[i] = t[j]
    BY <1>3, <1>4, <1>5
  <1>7. ASSUME NEW e
        PROVE  (\E i \in DOMAIN u : u[i] = e) <=>
                  (\E i \in DOMAIN s : s[i] = e) \/ (\E i \in DOMAIN t : t[i] = e)
    <2>1. ASSUME NEW i \in DOMAIN u, u[i] = e
          PROVE  (\E j \in DOMAIN s : s[j] = e) \/ (\E j \in DOMAIN t : t[j] = e)
      BY <1>6, <2>1, Zenon
    <2>2. ASSUME NEW i \in DOMAIN s, s[i] = e
          PROVE  \E j \in DOMAIN u : u[j] = e
      BY <1>6, <2>2, Zenon
    <2>3. ASSUME NEW i \in DOMAIN t, t[i] = e
          PROVE  \E j \in DOMAIN u : u[j] = e
      BY <1>6, <2>3, Zenon
    <2> QED
      BY <2>1, <2>2, <2>3, Zenon
  <1> QED
    BY <1>7, Zenon DEF Joins

LEMMA ToldWaveCompletes == Inv /\ Told /\ WaveCompletes => Told'
  <1> SUFFICES ASSUME Inv, Told, WaveCompletes PROVE Told'
    OBVIOUS
  <1>1. /\ UltraworkTypeOK /\ UnderWay /\ Recorded(Len(waves) - 1) /\ Distinct
        /\ answer.failedTaskId = None
        /\ \A t \in pending \ Members : ~(input.dependsOn[t] \subseteq completed)
    BY DEF Inv, Told, WaveCompletes, AllSettled
  <1>2. PICK n \in Nat : n = Len(waves) /\ n > 0 /\ DOMAIN waves = 1 .. n
    BY <1>1 DEF UltraworkTypeOK, UnderWay
  <1>3. /\ UNCHANGED <<input, waves, produced, status, answer>> /\ pc' = "schedule"
        /\ pending' = pending \ Members /\ completed' = completed \cup Members
        /\ completedTaskIds' = completedTaskIds \o Wave /\ AssignOutputs(Len(Wave))
    BY DEF WaveCompletes, taskVars
  <1>4. /\ Wave \in Seq(Tasks) /\ Wave = waves[n] /\ DOMAIN Wave = 1 .. Len(Wave)
        /\ Len(Wave) \in 0 .. Len(Wave) /\ Members \subseteq Tasks
        /\ Members = {Wave[i] : i \in 1 .. Len(Wave)}
    <2>1. Wave \in Seq(Tasks) /\ Wave = waves[n] /\ Members \subseteq Tasks
      BY <1>1, <1>2, WaveTypes DEF UltraworkTypeOK, UnderWay, Wave
    <2> QED
      BY <2>1 DEF Members
  <1>5. /\ \A t, k : InWave(t, k)' <=> InWave(t, k)
        /\ \A t, u : Precedes(t, u)' <=> Precedes(t, u)
        /\ WavesMinimal' <=> WavesMinimal
        /\ Tasks' = Tasks /\ waves' = waves /\ Len(waves') = n
    BY <1>2, <1>3, WavesStay
  <1>6. \A t : InWave(t, n) <=> t \in Members
    BY <1>4 DEF InWave
  <1>7. \A t \in Tasks : t \in completed' <=> \E k \in 1 .. n : InWave(t, k)
    <2>1. \A t \in Tasks : t \in completed <=> \E k \in 1 .. n - 1 : InWave(t, k)
      BY <1>1, <1>2 DEF Recorded
    <2>2. \A k : k \in 1 .. n <=> k \in 1 .. n - 1 \/ k = n
      BY <1>2
    <2> QED
      BY <1>3, <1>6, <2>1, <2>2
  <1>8. completed' = {completedTaskIds'[i] : i \in DOMAIN completedTaskIds'}
    <2>1. completedTaskIds \in Seq(Tasks)
      BY <1>1 DEF UltraworkTypeOK
    <2>2. {completedTaskIds'[i] : i \in DOMAIN completedTaskIds'}
            = {completedTaskIds[i] : i \in DOMAIN completedTaskIds} \cup {Wave[i] : i \in DOMAIN Wave}
      <3>1. Wave \in Seq(Tasks) /\ completedTaskIds' = completedTaskIds \o Wave
        BY <1>3, <1>4
      <3>2. Joins(completedTaskIds, Wave, completedTaskIds')
        BY <2>1, <3>1, ConcatRange, Zenon
      <3> QED
        BY <3>2 DEF Joins
    <2> QED
      BY <1>1, <1>3, <1>4, <2>2 DEF Recorded
  <1>9. /\ outputs'.from = outputs.from \cup (produced \cap Members)
        /\ outputs'.from = {} <=> outputs'.shared = None
        /\ \A t \in outputs'.from : t = outputs'.shared \/ Precedes(t, outputs'.shared)
    BY <1>1, <1>3, <1>4, AssignRecords DEF UnderWay
  <1>10. outputs'.from = produced' \cap completed'
    BY <1>1, <1>3, <1>9 DEF Recorded
  <1>11. Recorded(Len(waves))'
    BY <1>1, <1>5, <1>7, <1>8, <1>9, <1>10 DEF Recorded
  <1>12. Waiting(Len(waves))'
    <2> SUFFICES ASSUME NEW t \in pending'
                 PROVE  \E d \in input.dependsOn[t] : \A k \in 1 .. n - 1 : ~InWave(d, k)
      BY <1>3, <1>5 DEF Waiting
    <2>1. PICK d \in input.dependsOn[t] : d \notin completed
      BY <1>1, <1>3
    <2>2. d \in Tasks
      BY <1>1, <1>3, <2>1 DEF UnderWay, Valid, UltraworkTypeOK
    <2> QED
      BY <1>1, <1>2, <2>1, <2>2 DEF Recorded
  <1> QED
    BY <1>1, <1>3, <1>11, <1>12 DEF Told, AnswerDetermined

(* The wave under way is the one with the failures.                        *)
LEMMA ToldWaveFails == Inv /\ Told /\ WaveFails => Told'
  <1> SUFFICES ASSUME Inv, Told, WaveFails PROVE Told'
    OBVIOUS
  <1>1. /\ UltraworkTypeOK /\ UnderWay /\ Recorded(Len(waves) - 1) /\ Distinct
    BY DEF Inv, Told, WaveFails, AllSettled
  <1>2. PICK n \in Nat : n = Len(waves) /\ n > 0 /\ DOMAIN waves = 1 .. n
    <2>1. waves \in Seq(Seq(Tasks)) /\ waves # <<>>
      BY <1>1 DEF UltraworkTypeOK, UnderWay
    <2> QED
      BY <2>1
  <1>3. PICK k \in DOMAIN Wave : /\ status[Wave[k]] = "failed"
                                 /\ \A i \in 1 .. k - 1 : status[Wave[i]] # "failed"
                                 /\ AssignOutputs(k)
                                 /\ Return("failed", Wave[k])
    BY DEF WaveFails
  <1>4. /\ UNCHANGED <<input, waves, produced, status, pending, completed, completedTaskIds>>
        /\ pc' = "ended" /\ answer'.failedTaskId = Wave[k]
    BY <1>3 DEF WaveFails, taskVars, Return
  <1>5. /\ Wave \in Seq(Tasks) /\ Wave = waves[n] /\ DOMAIN Wave = 1 .. Len(Wave)
        /\ k \in 1 .. Len(Wave) /\ k \in 0 .. Len(Wave) /\ Members \subseteq Tasks
        /\ Wave[k] \in Tasks /\ Wave[k] # None
        /\ Members = {Wave[i] : i \in 1 .. Len(Wave)}
    <2>1. Wave \in Seq(Tasks) /\ Wave = waves[n] /\ Members \subseteq Tasks
      BY <1>1, <1>2, WaveTypes DEF UltraworkTypeOK, UnderWay, Wave
    <2>2. None \notin Tasks
      BY <1>1, InputTypes, UltraworkAssumption DEF UltraworkTypeOK, None
    <2> QED
      BY <1>3, <2>1, <2>2 DEF Members
  <1>6. /\ \A t, m : InWave(t, m)' <=> InWave(t, m)
        /\ \A t, u : Precedes(t, u)' <=> Precedes(t, u)
        /\ WavesMinimal' /\ Tasks' = Tasks
    BY <1>1, <1>4, WavesStay DEF Recorded
  <1>7. \A t : InWave(t, n) <=> t \in Members
    BY <1>5 DEF InWave
  <1> DEFINE begun == {t \in Tasks : \E m \in DOMAIN waves : InWave(t, m)}
             failed == {t \in begun : status[t] = "failed"}
             first == {Wave[i] : i \in 1 .. k}
  <1>8. begun = completed \cup Members /\ completed \cap Members = {}
        /\ \A t \in Tasks : t \in completed <=> \E m \in 1 .. n - 1 : InWave(t, m)
    <2>1. \A t \in Tasks : t \in completed <=> \E m \in 1 .. n - 1 : InWave(t, m)
      BY <1>1, <1>2 DEF Recorded
    <2>2. \A m : m \in 1 .. n <=> m \in 1 .. n - 1 \/ m = n
      BY <1>2
    <2>3. completed \subseteq Tasks /\ completed \cap Members = {}
      BY <1>1 DEF UltraworkTypeOK, UnderWay
    <2> QED
      BY <1>2, <1>5, <1>7, <2>1, <2>2, <2>3
  <1>9. failed = {t \in Members : status[t] = "failed"} /\ Wave[k] \in failed
    BY <1>1, <1>3, <1>5, <1>8 DEF UnderWay
  (* A place before the one that is blamed.                                *)
  <1>10. ASSUME NEW t, Precedes(t, Wave[k])
         PROVE  (\E m \in 1 .. n - 1 : InWave(t, m)) \/ t \in first
    <2>1. PICK m \in DOMAIN waves, l \in DOMAIN waves :
             \E i \in DOMAIN waves[m], j \in DOMAIN waves[l] :
                waves[m][i] = t /\ waves[l][j] = Wave[k] /\ (m < l \/ (m = l /\ i < j))
      BY <1>10 DEF Precedes
    <2>2. PICK i \in DOMAIN waves[m], j \in DOMAIN waves[l] :
             waves[m][i] = t /\ waves[l][j] = Wave[k] /\ (m < l \/ (m = l /\ i < j))
      BY <2>1
    <2>3. CASE m < n
      <3>1. m \in 1 .. n - 1 /\ InWave(t, m)
        BY <1>2, <2>2, <2>3 DEF InWave
      <3> QED
        BY <3>1
    <2>4. CASE m = n
      <3>1. l = n /\ i < j
        BY <1>2, <2>2, <2>4
      <3>2. j = k
        BY <1>1, <1>5, <2>2, <3>1 DEF Distinct
      <3>3. i \in 1 .. k /\ Wave[i] = t
        BY <1>5, <2>2, <2>4, <3>1, <3>2
      <3> QED
        BY <3>3
    <2> QED
      BY <1>2, <2>3, <2>4
  <1>11. ASSUME NEW i \in 1 .. Len(Wave), NEW j \in 1 .. Len(Wave), i < j
         PROVE  Precedes(Wave[i], Wave[j])
    <2>1. n \in DOMAIN waves
      BY <1>2
    <2> QED
      BY <1>5, <1>11, <2>1 DEF Precedes
  <1>12. ASSUME NEW t \in completed
         PROVE  Precedes(t, Wave[k])
    <2>1. PICK m \in 1 .. n - 1 : InWave(t, m)
      BY <1>1, <1>8 DEF UltraworkTypeOK
    <2>2. PICK i \in DOMAIN waves[m] : waves[m][i] = t
      BY <2>1 DEF InWave
    <2>3. m \in DOMAIN waves /\ n \in DOMAIN waves /\ m < n
      BY <1>2, <2>1
    <2> QED
      BY <1>5, <2>2, <2>3 DEF Precedes
  <1>13. {t \in begun : t = Wave[k] \/ Precedes(t, Wave[k])} = completed \cup first
    <2>1. first \subseteq Members /\ \A t \in first : t = Wave[k] \/ Precedes(t, Wave[k])
      <3> SUFFICES ASSUME NEW i \in 1 .. k
                   PROVE  Wave[i] \in Members /\ (i = k \/ Precedes(Wave[i], Wave[k]))
        OBVIOUS
      <3>1. i \in 1 .. Len(Wave) /\ (i = k \/ i < k)
        BY <1>5
      <3> QED
        BY <1>5, <1>11, <3>1
    <2>2. ASSUME NEW t \in begun, t = Wave[k] \/ Precedes(t, Wave[k])
          PROVE  t \in completed \cup first
      <3>1. Wave[k] \in first
        BY <1>5
      <3> QED
        BY <1>8, <1>10, <2>2, <3>1
    <2> QED
      BY <1>8, <1>12, <2>1, <2>2
  <1>14. \A t \in failed : t = Wave[k] \/ Precedes(Wave[k], t)
    <2> SUFFICES ASSUME NEW i \in 1 .. Len(Wave), status[Wave[i]] = "failed"
                 PROVE  i = k \/ Precedes(Wave[k], Wave[i])
      BY <1>5, <1>9
    <2>1. i = k \/ k < i
      BY <1>3, <1>5
    <2> QED
      BY <1>5, <1>11, <2>1
  <1>15. completed = {t \in begun : \A m \in DOMAIN waves : InWave(t, m) =>
                                      \A u \in failed : ~InWave(u, m)}
    <2>1. ASSUME NEW t \in completed, NEW m \in DOMAIN waves, InWave(t, m), NEW u \in failed
          PROVE  ~InWave(u, m)
      <3>1. m # n
        BY <1>7, <1>8, <2>1
      <3>2. m \in 1 .. n - 1
        BY <1>2, <3>1
      <3>3. u \in Tasks /\ u \notin completed
        BY <1>5, <1>8, <1>9
      <3> QED
        BY <1>8, <3>2, <3>3
    <2>2. ASSUME NEW t \in Members
          PROVE  \E m \in DOMAIN waves : InWave(t, m) /\ \E u \in failed : InWave(u, m)
      <3>1. n \in DOMAIN waves /\ InWave(t, n) /\ InWave(Wave[k], n)
        BY <1>2, <1>5, <1>7
      <3> QED
        BY <1>9, <3>1
    <2> QED
      BY <1>8, <2>1, <2>2
  <1>16. /\ outputs'.from = outputs.from \cup (produced \cap first)
         /\ outputs'.from = {} <=> outputs'.shared = None
         /\ \A t \in outputs'.from : t = outputs'.shared \/ Precedes(t, outputs'.shared)
    BY <1>1, <1>3, <1>4, <1>5, AssignRecords DEF UnderWay
  <1>17. outputs'.from = produced \cap (completed \cup first)
    BY <1>1, <1>16 DEF Recorded
  <1>18. begun' = begun /\ failed' = failed
    BY <1>4, <1>6
  <1>19. completed = {completedTaskIds[i] : i \in DOMAIN completedTaskIds}
    BY <1>1 DEF Recorded
  <1>20. AnswerFromResults'
    <2>1. answer'.failedTaskId # None /\ failed # {}
      BY <1>4, <1>5, <1>9
    <2> HIDE DEF begun, failed, first
    <2>2. AnswerFromResults' <=>
            /\ failed' = {} <=> answer'.failedTaskId = None
            /\ \A t \in failed' : \/ t = answer'.failedTaskId
                                  \/ Precedes(answer.failedTaskId, t)'
            /\ outputs'.from = produced' \cap
                  (IF failed' = {} THEN begun'
                   ELSE {t \in begun' : \/ t = answer'.failedTaskId
                                        \/ Precedes(t, answer.failedTaskId)'})
            /\ outputs'.from = {} <=> outputs'.shared = None
            /\ \A t \in outputs'.from : t = outputs'.shared \/ Precedes(t, outputs.shared)'
            /\ completed' = {completedTaskIds'[i] : i \in DOMAIN completedTaskIds'}
            /\ completed' = {t \in begun' : \A m \in DOMAIN waves' : InWave(t, m)' =>
                                              \A u \in failed' : ~InWave(u, m)'}
      BY DEF AnswerFromResults, begun, failed
    <2> QED
      BY <1>4, <1>6, <1>13, <1>14, <1>15, <1>16, <1>17, <1>18, <1>19, <2>1, <2>2
  <1> QED
    BY <1>4, <1>6, <1>20 DEF Told, AnswerDetermined

LEMMA ToldNext == Inv /\ Told /\ [Next]_vars => Told'
  <1>1. Inv /\ Told /\ UNCHANGED vars => Told'
    <2> SUFFICES ASSUME Told, UNCHANGED vars PROVE Told'
      OBVIOUS
    <2>1. UNCHANGED <<input, pc, pending, completed, completedTaskIds, waves, outputs,
                      status, produced, answer>>
      BY DEF vars
    <2> QED
      BY <2>1, WavesStay DEF Told, Recorded, Waiting, AnswerDetermined, AnswerFromResults
  <1> QED
    BY <1>1, ToldValidate, ToldStartWave, ToldAnswer, ToldTaskEnds, ToldWaveCompletes,
       ToldWaveFails DEF Next, Scheduler

(* For any tasks, with any results and in any order of their ends: no task *)
(* waits for a wave that it does not depend on; the first failure of the   *)
(* wave is blamed; outputs and completed tasks follow from the results.    *)
THEOREM AnswerFollows == Spec => []AnswerDetermined
  <1>1. Told => AnswerDetermined
    BY DEF Told
  <1>2. Spec => []Told
    BY InvHolds, ToldInit, ToldNext, PTL DEF Spec
  <1> QED
    BY <1>1, <1>2, PTL
=============================================================================
