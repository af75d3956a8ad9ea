-------------------------- MODULE SessionModesProofs --------------------------
(***************************************************************************)
(* Proofs about SessionModes, for any processes, commands, stages and      *)
(* iterations.                                                             *)
(***************************************************************************)
EXTENDS SessionModes, TLAPS

(* The contract of a mode's file: what is not active is over, and dated.   *)
Proper(m, s) ==
    /\ s \in ModeStates
    /\ s.phase \in Phases(m) \cup TerminalPhases
    /\ s.active <=> s.phase \notin TerminalPhases
    /\ s.active <=> ~s.finished
    /\ m = "ralph" /\ s.active => s.iteration > 0

(* What a run holds at each of its places.                                 *)
Placed(x) ==
    /\ x.pc \in {"read", "starting", "open", "check", "announce", "execute", "announced",
                 "blame", "fail", "final"} => x.mode = "orchestrator"
    /\ x.pc \in {"reopen", "begin"} => x.mode # "orchestrator"
    /\ x.pc = "work" => x.mode = "ultrawork" /\ x.phase \in DOMAIN PhaseAfter
    /\ x.pc \in {"iterate", "evaluate", "verify", "finish"} =>
          x.mode = "ralph" /\ x.iteration > 0
    /\ x.pc \in {"iterate", "evaluate", "verify"} => x.phase \in {"executing", "fixing"}
    /\ x.pc \in {"read", "starting", "acquire", "reopen", "begin"} => x.phase = "starting"
    /\ x.pc \in {"announce", "execute"} => x.done < NumStages
    /\ x.mode = "orchestrator" /\ x.pc \in {"release", "final"} =>
          x.result \in {"completed", "cancelled", "failed"}

LockedSteps == {"open", "check", "announce", "execute", "announced", "blame", "fail",
                "release", "reopen", "begin", "work", "iterate", "evaluate", "verify",
                "finish"}

Locked(r) == run[r].pc \in LockedSteps

(* A run that has the state file of a mode active, or is to write its end. *)
Tends(x, m) ==
    \/ m = "orchestrator" /\ x.mode = m /\ x.pc \notin {"idle", "read", "starting"}
    \/ m = "ultrawork" /\ x.pc = "work"
    \/ m = "ralph" /\ x.pc \in {"iterate", "evaluate", "verify", "finish"}

Typed == /\ workflow \in Workflows
         /\ marker \in BOOLEAN
         /\ lock \in Runs \cup {Free, Dead}
         /\ run \in [Runs -> RunStates]
         /\ count \in [commands : 0 .. MaxCommands, cancels : 0 .. MaxCancels,
                       faults : 0 .. MaxFaults]
         /\ seen \in History

Files == /\ file \in [Modes -> ModeStates \cup {NoFile}]
         /\ \A m \in Modes : file[m] = NoFile \/ Proper(m, file[m])

Cancelling ==
    \/ cancel = NoCancel
    \/ /\ cancel \in Cancels
       /\ \A m \in cancel.unread : file[m] # NoFile
       /\ \A m \in cancel.queue : Proper(m, cancel.read[m])

Exclusive == \A r \in Runs : Locked(r) => lock = r

(* An active file has a run that will write its end.                       *)
Manned ==
    count.faults = 0 /\ ~seen.overwrote =>
        \A m \in Modes : file[m] # NoFile /\ file[m].active =>
            \E r \in Runs : Tends(run[r], m)

(* While commands do not overlap, what is complete stays so until the next *)
(* one has taken the file over.                                            *)
OneOrchestrator ==
    ~seen.overlap => \A r, q \in Runs : Orchestrating(r) /\ Orchestrating(q) => r = q

CompleteInTime ==
    ~seen.overlap /\ ~seen.overwrote =>
        /\ file["orchestrator"].phase = "complete" =>
              /\ workflow.status = "completed"
              /\ \A r \in Runs : ~Tends(run[r], "orchestrator")
        /\ \A r \in Runs : /\ run[r].mode = "orchestrator"
                           /\ run[r].pc \in {"release", "final"}
                           /\ run[r].result = "completed"
                           => workflow.status = "completed"

Inv == /\ Typed /\ Files /\ Cancelling
       /\ \A r \in Runs : Placed(run[r])
       /\ Exclusive
       /\ Manned
       /\ RalphCompletesOverDoneUltrawork
       /\ OneOrchestrator
       /\ CompleteInTime

-----------------------------------------------------------------------------
(* A turn of a run, part by part.                                          *)

(* The run becomes y.                                                      *)
Turn(r, y) ==
    /\ y \in RunStates /\ Placed(y)
    /\ run' = [run EXCEPT ![r] = y]
    /\ run[r].pc # "idle"
    /\ y.pc # "idle" /\ y.mode = "orchestrator" => run[r].mode = "orchestrator"
    /\ y.mode = "ralph" /\ y.result = "completed" /\ y.pc \in {"verify", "finish"} =>
          \/ file' = file /\ TodosDone
          \/ /\ run[r].mode = "ralph" /\ run[r].result = "completed"
             /\ run[r].pc \in {"verify", "finish"}
    /\ UNCHANGED <<cancel, count, seen>> /\ marker' \in BOOLEAN

KeepsLock(r, y) ==
    \/ lock' = lock /\ (y.pc \in LockedSteps => Locked(r))
    \/ lock = Free /\ lock' = r
    \/ lock' = (IF lock = r THEN Free ELSE lock) /\ y.pc \notin LockedSteps

KeepsFile(r, y) ==
    /\ file' = file
    /\ \A m \in Modes : Tends(run[r], m) => Tends(y, m)
    /\ Tends(y, "orchestrator") => Tends(run[r], "orchestrator")

Saves(r, y, s) ==
    /\ Proper(run[r].mode, s) /\ Save(run[r].mode, s)
    /\ s.active => Tends(y, run[r].mode)
    /\ run[r].mode = "orchestrator" /\ s.phase = "complete" =>
          /\ run[r].pc = "final" /\ run[r].result = "completed" /\ y.pc = "idle"
          /\ workflow' = workflow
    /\ run[r].mode = "ultrawork" => Locked(r)

Finished(x) == /\ x.mode = "orchestrator" /\ x.pc \in {"release", "final"}
               /\ x.result = "completed"

KeepsWorkflow(r, y) ==
    /\ workflow' \in Workflows
    /\ workflow' = workflow \/ Tends(run[r], "orchestrator")
    /\ Finished(y) => \/ workflow'.status = "completed"
                      \/ workflow' = workflow /\ Finished(run[r])

LEMMA TurnRuns ==
    ASSUME Inv, NEW r \in Runs, NEW y, Turn(r, y)
    PROVE  /\ run' \in [Runs -> RunStates] /\ run'[r] = y
           /\ \A q \in Runs \ {r} : run'[q] = run[q]
           /\ \A q \in Runs : Placed(run'[q])
  BY DEF Inv, Typed, Turn

LEMMA NoFileIsNone == NoFile \notin ModeStates
  BY DEF NoFile, ModeStates

LEMMA TurnTypes ==
    ASSUME Inv, NEW r \in Runs, NEW y, Turn(r, y), KeepsLock(r, y), KeepsWorkflow(r, y)
    PROVE  Typed' /\ Exclusive' /\ (\A q \in Runs : Placed(run[q])')
  <1>1. /\ run' \in [Runs -> RunStates] /\ run'[r] = y
        /\ \A q \in Runs \ {r} : run'[q] = run[q]
        /\ \A q \in Runs : Placed(run'[q])
    BY TurnRuns
  <1>2. Typed'
    <2>1. lock' \in Runs \cup {Free, Dead}
      BY Zenon DEF Inv, Typed, KeepsLock
    <2> QED
      BY <1>1, <2>1 DEF Inv, Typed, Turn, KeepsWorkflow
  <1>3. Exclusive'
    <2> SUFFICES ASSUME NEW q \in Runs, Locked(q)'
                 PROVE  lock' = q
      BY DEF Exclusive
    <2>1. Exclusive /\ \A p \in Runs : p # Free
      BY ModesAssumption DEF Inv, Free
    <2>2. q # r => Locked(q)
      BY <1>1 DEF Locked
    <2>3. q = r => y.pc \in LockedSteps
      BY <1>1 DEF Locked
    <2> QED
      BY <2>1, <2>2, <2>3 DEF KeepsLock, Exclusive
  <1> QED
    BY <1>1, <1>2, <1>3

LEMMA TendsMode ==
    ASSUME NEW x, Placed(x), NEW m, Tends(x, m)
    PROVE  x.mode = m /\ x.pc # "idle"
  BY DEF Placed, Tends

LEMMA TurnFiles ==
    ASSUME Inv, NEW r \in Runs, NEW y, Turn(r, y),
           KeepsFile(r, y) \/ \E s : Saves(r, y, s)
    PROVE  Files' /\ Manned'
  <1>1. /\ run'[r] = y /\ Placed(run[r]) /\ Files /\ Manned
        /\ \A q \in Runs \ {r} : run'[q] = run[q]
        /\ run[r].mode \in Modes
    BY TurnRuns DEF Inv, Typed, RunStates
  <1>2. CASE KeepsFile(r, y)
    <2>1. Files'
      BY <1>1, <1>2 DEF KeepsFile, Files
    <2>2. ASSUME NEW m \in Modes, NEW q \in Runs, Tends(run[q], m)
          PROVE  Tends(run'[q], m)
      BY <1>1, <1>2, <2>2 DEF KeepsFile
    <2>3. Manned'
      <3> SUFFICES ASSUME count.faults = 0, ~seen.overwrote, NEW m \in Modes,
                          file[m] # NoFile, file[m].active
                   PROVE  \E q \in Runs : Tends(run'[q], m)
        BY <1>2 DEF Manned, Turn, KeepsFile
      <3>1. PICK q \in Runs : Tends(run[q], m)
        BY <1>1 DEF Manned
      <3> QED
        BY <2>2, <3>1
    <2> QED
      BY <2>1, <2>3
  <1>3. ASSUME NEW s, Saves(r, y, s)
        PROVE  Files' /\ Manned'
    <2> DEFINE mode == run[r].mode
    <2>1. /\ Proper(mode, s) /\ file' = [file EXCEPT ![mode] = s]
          /\ s.active => Tends(y, mode)
      BY <1>3 DEF Saves, Save
    <2> HIDE DEF mode
    <2>2. mode \in Modes
      BY <1>1 DEF mode
    <2>3. /\ file'[mode] = s /\ \A m \in Modes \ {mode} : file'[m] = file[m]
      BY <1>1, <2>1, <2>2 DEF Files
    <2>4. Files'
      <3>1. file' \in [Modes -> ModeStates \cup {NoFile}]
        BY <1>1, <2>1, <2>2 DEF Files, Proper
      <3> QED
        BY <1>1, <2>1, <2>3, <3>1 DEF Files
    <2>5. Manned'
      <3> SUFFICES ASSUME count.faults = 0, ~seen.overwrote, NEW m \in Modes,
                          file'[m] # NoFile, file'[m].active
                   PROVE  \E q \in Runs : Tends(run'[q], m)
        BY DEF Manned, Turn
      <3>1. CASE m = mode
        BY <1>1, <2>1, <2>3, <3>1
      <3>2. CASE m # mode
        <4>1. PICK q \in Runs : Tends(run[q], m)
          BY <1>1, <2>3, <3>2 DEF Manned
        <4>2. q # r
          BY <1>1, <3>2, <4>1, TendsMode DEF mode
        <4> QED
          BY <1>1, <4>1, <4>2
      <3> QED
        BY <3>1, <3>2
    <2> QED
      BY <2>4, <2>5
  <1> QED
    BY <1>2, <1>3

LEMMA ModesDiffer ==
    /\ "orchestrator" \in Modes /\ "ultrawork" \in Modes /\ "ralph" \in Modes
    /\ "orchestrator" # "ultrawork" /\ "ralph" # "ultrawork" /\ "orchestrator" # "ralph"
  BY DEF Modes

(* What a turn leaves of the file of another mode.                         *)
LEMMA TurnFile ==
    ASSUME Inv, NEW r \in Runs, NEW y, Turn(r, y),
           KeepsFile(r, y) \/ \E s : Saves(r, y, s),
           NEW m \in Modes, m # run[r].mode
    PROVE  file'[m] = file[m]
  BY DEF Inv, Typed, RunStates, Files, KeepsFile, Saves, Save

(* A file that is there stays there, for a /cancel that has listed it.     *)
LEMMA TurnCancel ==
    ASSUME Inv, NEW r \in Runs, NEW y, Turn(r, y),
           KeepsFile(r, y) \/ \E s : Saves(r, y, s)
    PROVE  Cancelling'
  <1>1. \A m \in Modes : file[m] # NoFile => file'[m] # NoFile
    <2>1. CASE KeepsFile(r, y)
      BY <2>1 DEF KeepsFile
    <2>2. ASSUME NEW s, Saves(r, y, s), NEW m \in Modes, file[m] # NoFile
          PROVE  file'[m] # NoFile
      <3>1. s # NoFile /\ s \in ModeStates
        BY <2>2, NoFileIsNone DEF Saves, Proper
      <3> QED
        BY <2>2, <3>1 DEF Saves, Save, Inv, Files
    <2> QED
      BY <2>1, <2>2
  <1>2. cancel \in Cancels => cancel.unread \in SUBSET Modes
    BY DEF Cancels
  <1> QED
    BY <1>1, <1>2 DEF Inv, Cancelling, Turn

LEMMA TurnRalph ==
    ASSUME Inv, NEW r \in Runs, NEW y, Turn(r, y),
           KeepsFile(r, y) \/ \E s : Saves(r, y, s)
    PROVE  RalphCompletesOverDoneUltrawork'
  <1>1. /\ run'[r] = y /\ Placed(run[r]) /\ Files /\ RalphCompletesOverDoneUltrawork
        /\ Exclusive
        /\ \A q \in Runs \ {r} : run'[q] = run[q]
    BY TurnRuns DEF Inv
  <1> SUFFICES ASSUME NEW q \in Runs, run'[q].mode = "ralph", run'[q].result = "completed",
                      run'[q].pc \in {"verify", "finish"}, ~seen.overwrote
               PROVE  file'["ultrawork"].phase \in {"absent", "complete"}
    BY DEF RalphCompletesOverDoneUltrawork, At, Turn
  <1>2. CASE /\ run[q].mode = "ralph" /\ run[q].result = "completed"
             /\ run[q].pc \in {"verify", "finish"}
    <2>1. file["ultrawork"].phase \in {"absent", "complete"}
      BY <1>1, <1>2 DEF RalphCompletesOverDoneUltrawork, At
    <2>2. run[r].mode = "ultrawork" => KeepsFile(r, y)
      <3> SUFFICES ASSUME run[r].mode = "ultrawork", NEW s, Saves(r, y, s)
                   PROVE  FALSE
        OBVIOUS
      <3>1. Locked(r) /\ Locked(q)
        BY <1>2 DEF Saves, Locked, LockedSteps
      <3> QED
        BY <1>1, <1>2, <3>1 DEF Exclusive
    <2> QED
      BY <2>1, <2>2, TurnFile, ModesDiffer DEF KeepsFile
  <1>3. CASE q = r /\ file' = file /\ TodosDone
    <2>1. file["ultrawork"] = NoFile \/ Proper("ultrawork", file["ultrawork"])
      BY <1>1, ModesDiffer DEF Files
    <2>2. NoFile.phase = "absent"
      BY DEF NoFile
    <2> QED
      BY <1>3, <2>1, <2>2 DEF TodosDone, Proper, TerminalPhases
  <1> QED
    BY <1>1, <1>2, <1>3 DEF Turn

LEMMA TurnComplete ==
    ASSUME Inv, NEW r \in Runs, NEW y, Turn(r, y), KeepsWorkflow(r, y),
           KeepsFile(r, y) \/ \E s : Saves(r, y, s)
    PROVE  OneOrchestrator' /\ CompleteInTime'
  <1>1. /\ run'[r] = y /\ Placed(run[r]) /\ Placed(y) /\ OneOrchestrator /\ CompleteInTime
        /\ \A q \in Runs \ {r} : run'[q] = run[q]
        /\ seen' = seen
    BY TurnRuns DEF Inv, Turn
  <1>2. \A q \in Runs : Orchestrating(q)' => Orchestrating(q)
    BY <1>1 DEF Orchestrating, Turn
  <1>3. OneOrchestrator'
    BY <1>1, <1>2 DEF OneOrchestrator
  <1>4. ASSUME ~seen.overlap, ~seen.overwrote
        PROVE  /\ \A q \in Runs : Finished(run'[q]) => workflow'.status = "completed"
               /\ file'["orchestrator"].phase = "complete" =>
                     /\ workflow'.status = "completed"
                     /\ \A q \in Runs : ~Tends(run'[q], "orchestrator")
    <2>1. \A q \in Runs : Finished(run[q]) => workflow.status = "completed"
      BY <1>1, <1>4 DEF CompleteInTime, Finished
    <2>2. file["orchestrator"].phase = "complete" =>
             /\ workflow.status = "completed"
             /\ \A q \in Runs : ~Tends(run[q], "orchestrator")
      BY <1>1, <1>4 DEF CompleteInTime
    <2>3. \A q \in Runs : Orchestrating(r) /\ Orchestrating(q) => q = r
      BY <1>1, <1>4 DEF OneOrchestrator
    <2>4. \A q \in Runs : /\ Finished(run[q]) => Orchestrating(q)
                          /\ Tends(run[q], "orchestrator") => Orchestrating(q)
      BY DEF Finished, Tends, Orchestrating
    <2>5. \A q \in Runs : Finished(run'[q]) => workflow'.status = "completed"
      <3> SUFFICES ASSUME NEW q \in Runs, Finished(run'[q])
                   PROVE  workflow'.status = "completed"
        OBVIOUS
      <3>1. CASE q = r
        BY <1>1, <2>1, <3>1 DEF KeepsWorkflow
      <3>2. CASE q # r
        BY <1>1, <2>1, <2>3, <2>4, <3>2 DEF KeepsWorkflow
      <3> QED
        BY <3>1, <3>2
    <2>6. ASSUME file'["orchestrator"].phase = "complete"
          PROVE  /\ workflow'.status = "completed"
                 /\ \A q \in Runs : ~Tends(run'[q], "orchestrator")
      <3>1. CASE KeepsFile(r, y)
        BY <1>1, <2>2, <2>6, <3>1 DEF KeepsFile, KeepsWorkflow
      <3>2. ASSUME NEW s, Saves(r, y, s), run[r].mode # "orchestrator"
            PROVE  /\ workflow'.status = "completed"
                   /\ \A q \in Runs : ~Tends(run'[q], "orchestrator")
        <4>1. file'["orchestrator"] = file["orchestrator"]
          BY <3>2, TurnFile, ModesDiffer
        <4>2. workflow' = workflow
          BY <1>1, <3>2, TendsMode DEF KeepsWorkflow
        <4>3. ~Tends(y, "orchestrator")
          BY <1>1, <3>2, TendsMode DEF Turn
        <4> QED
          BY <1>1, <2>2, <2>6, <4>1, <4>2, <4>3
      <3>3. ASSUME NEW s, Saves(r, y, s), run[r].mode = "orchestrator"
            PROVE  /\ workflow'.status = "completed"
                   /\ \A q \in Runs : ~Tends(run'[q], "orchestrator")
        <4>1. file'["orchestrator"] = s
          BY <3>3, ModesDiffer DEF Inv, Files, Saves, Save
        <4>2. /\ run[r].pc = "final" /\ run[r].result = "completed" /\ y.pc = "idle"
              /\ workflow' = workflow
          BY <2>6, <3>3, <4>1 DEF Saves
        <4>3. Finished(run[r]) /\ Orchestrating(r)
          BY <3>3, <4>2 DEF Finished, Orchestrating
        <4>4. workflow.status = "completed"
          BY <2>1, <4>3
        <4>5. \A q \in Runs : ~Tends(run'[q], "orchestrator")
          BY <1>1, <2>3, <2>4, <4>2, <4>3, TendsMode
        <4> QED
          BY <4>2, <4>4, <4>5
      <3> QED
        BY <3>1, <3>2, <3>3
    <2> QED
      BY <2>5, <2>6
  <1>5. CompleteInTime'
    BY <1>1, <1>4 DEF CompleteInTime, Finished
  <1> QED
    BY <1>3, <1>5

LEMMA TurnKeeps ==
    ASSUME Inv, NEW r \in Runs, NEW y, Turn(r, y), KeepsLock(r, y), KeepsWorkflow(r, y),
           KeepsFile(r, y) \/ \E s : Saves(r, y, s)
    PROVE  Inv'
  BY TurnTypes, TurnFiles, TurnCancel, TurnRalph, TurnComplete DEF Inv

-----------------------------------------------------------------------------
(* What the steps do to their run.                                         *)

SameBut(x, y, step, result) ==
    /\ y.pc = step /\ y.result = result
    /\ y.mode = x.mode /\ y.done = x.done /\ y.phase = x.phase /\ y.iteration = x.iteration

LEMMA Goes ==
    ASSUME Inv, NEW r \in Runs, NEW step \in Steps, Goto(r, step)
    PROVE  \E y \in RunStates : /\ run' = [run EXCEPT ![r] = y]
                               /\ SameBut(run[r], y, step, run[r].result)
  <1> DEFINE y == [run[r] EXCEPT !.pc = step]
  <1>1. run[r] \in RunStates /\ run' = [run EXCEPT ![r] = y]
    BY DEF Inv, Typed, Goto
  <1>2. y \in RunStates
    BY <1>1, Zenon DEF RunStates
  <1>3. SameBut(run[r], y, step, run[r].result)
    BY <1>1 DEF SameBut, RunStates
  <1> QED
    BY <1>1, <1>2, <1>3

LEMMA Ending ==
    ASSUME Inv, NEW r \in Runs, NEW step \in Steps, NEW result \in Outcomes,
           End(r, step, result)
    PROVE  \E y \in RunStates : /\ run' = [run EXCEPT ![r] = y]
                               /\ SameBut(run[r], y, step, result)
  <1> DEFINE y == [run[r] EXCEPT !.pc = step, !.result = result]
  <1>1. run[r] \in RunStates /\ run' = [run EXCEPT ![r] = y]
    BY DEF Inv, Typed, End
  <1>2. y \in RunStates
    BY <1>1, Zenon DEF RunStates
  <1>3. SameBut(run[r], y, step, result)
    BY <1>1 DEF SameBut, RunStates
  <1> QED
    BY <1>1, <1>2, <1>3

LEMMA IdleRuns ==
    /\ Idle \in RunStates /\ Placed(Idle)
    /\ Idle.pc = "idle" /\ Idle.mode = "orchestrator"
  <1>1. 0 \in 0 .. NumStages /\ 0 \in 0 .. MaxIterations
    BY ModesAssumption
  <1>2. Idle \in RunStates
    BY <1>1 DEF Idle, RunStates, Steps, Modes, Outcomes, Phases
  <1> QED
    BY <1>2 DEF Idle, Placed

LEMMA Phased ==
    /\ Phases("orchestrator") = {"starting", "stage"}
    /\ Phases("ultrawork") = {"starting", "scheduling", "executing", "verifying"}
    /\ Phases("ralph") = {"starting", "executing", "verifying", "fixing"}
    /\ UNION {Phases(m) : m \in Modes} =
          {"starting", "stage", "scheduling", "executing", "verifying", "fixing"}
  BY DEF Phases, Modes

LEMMA ActiveIsProper ==
    ASSUME NEW m \in Modes, NEW phase \in Phases(m), NEW n \in 0 .. MaxIterations,
           m = "ralph" => n > 0
    PROVE  Proper(m, Active(phase, n)) /\ Active(phase, n).active
  <1>1. phase \in UNION {Phases(k) : k \in Modes} /\ phase \notin TerminalPhases
    BY Phased DEF Modes, TerminalPhases
  <1> QED
    BY <1>1 DEF Proper, Active, ModeStates

LEMMA TerminalIsProper ==
    ASSUME NEW m \in Modes, NEW phase \in TerminalPhases, NEW n \in 0 .. MaxIterations
    PROVE  /\ Proper(m, Terminal(phase, n)) /\ ~Terminal(phase, n).active
           /\ Terminal(phase, n).phase = phase
  BY DEF Proper, Terminal, ModeStates

-----------------------------------------------------------------------------
(* /orchestrate, step by step.                                             *)

LEMMA AcquireKeeps ==
    ASSUME Inv, NEW r \in Runs, Acquire(r)
    PROVE  Inv'
  <1>1. Placed(run[r]) /\ run[r] \in RunStates /\ run[r].pc = "acquire"
    BY DEF Inv, Typed, Acquire, At
  <1>2. CASE lock = Free /\ lock' = r /\ run[r].mode = "orchestrator" /\ Goto(r, "open")
    <2>1. PICK y \in RunStates : /\ run' = [run EXCEPT ![r] = y]
                                 /\ SameBut(run[r], y, "open", run[r].result)
      BY <1>2, Goes DEF Steps
    <2>2. Turn(r, y)
      BY <1>1, <1>2, <2>1 DEF Turn, SameBut, Placed, Acquire, Outside, Inv, Typed
    <2>3. KeepsLock(r, y) /\ KeepsFile(r, y) /\ KeepsWorkflow(r, y)
      BY <1>1, <1>2, <2>1 DEF Acquire, SameBut, KeepsLock, KeepsFile, KeepsWorkflow, Tends,
                              Finished, Inv, Typed
    <2> QED
      BY <2>2, <2>3, TurnKeeps
  <1>3. CASE lock = Free /\ lock' = r /\ run[r].mode # "orchestrator" /\ Goto(r, "reopen")
    <2>1. PICK y \in RunStates : /\ run' = [run EXCEPT ![r] = y]
                                 /\ SameBut(run[r], y, "reopen", run[r].result)
      BY <1>3, Goes DEF Steps
    <2>2. Turn(r, y)
      BY <1>1, <1>3, <2>1 DEF Turn, SameBut, Placed, Acquire, Outside, Inv, Typed
    <2>3. KeepsLock(r, y) /\ KeepsFile(r, y) /\ KeepsWorkflow(r, y)
      BY <1>1, <1>3, <2>1 DEF Acquire, SameBut, KeepsLock, KeepsFile, KeepsWorkflow, Tends,
                              Finished, Inv, Typed
    <2> QED
      BY <2>2, <2>3, TurnKeeps
  <1>4. CASE lock' = lock /\ run[r].mode = "orchestrator" /\ End(r, "final", "failed")
    <2>1. PICK y \in RunStates : /\ run' = [run EXCEPT ![r] = y]
                                 /\ SameBut(run[r], y, "final", "failed")
      BY <1>4, Ending DEF Steps, Outcomes
    <2>2. Turn(r, y)
      BY <1>1, <1>4, <2>1 DEF Turn, SameBut, Placed, Acquire, Outside, Inv, Typed
    <2>3. KeepsLock(r, y) /\ KeepsFile(r, y) /\ KeepsWorkflow(r, y)
      BY <1>1, <1>4, <2>1 DEF Acquire, SameBut, KeepsLock, KeepsFile, KeepsWorkflow, Tends,
                              Finished, Inv, Typed, LockedSteps
    <2> QED
      BY <2>2, <2>3, TurnKeeps
  <1>5. CASE lock' = lock /\ run[r].mode # "orchestrator" /\ Answer(r)
    <2>1. Turn(r, Idle)
      BY <1>1, <1>5, IdleRuns DEF Turn, Answer, Acquire, Outside, Inv, Typed
    <2>2. KeepsLock(r, Idle) /\ KeepsFile(r, Idle) /\ KeepsWorkflow(r, Idle)
      BY <1>1, <1>5, IdleRuns DEF Acquire, KeepsLock, KeepsFile, KeepsWorkflow, Tends,
                              Finished, Inv, Typed, LockedSteps
    <2> QED
      BY <2>1, <2>2, TurnKeeps
  <1> QED
    BY <1>2, <1>3, <1>4, <1>5 DEF Acquire

LEMMA ReadModeStateKeeps ==
    ASSUME Inv, NEW r \in Runs, ReadModeState(r)
    PROVE  Inv'
  <1>1. Placed(run[r]) /\ run[r] \in RunStates /\ run[r].pc = "read"
    BY DEF Inv, Typed, ReadModeState, At
  <1>2. CASE Answer(r)
    <2>1. Turn(r, Idle)
      BY <1>1, <1>2, IdleRuns DEF Turn, Answer, ReadModeState, Outside, Inv, Typed
    <2>2. KeepsLock(r, Idle) /\ KeepsFile(r, Idle) /\ KeepsWorkflow(r, Idle)
      BY <1>1, <1>2, IdleRuns DEF ReadModeState, KeepsLock, KeepsFile, KeepsWorkflow, Tends,
                                  Finished, Inv, Typed, LockedSteps
    <2> QED
      BY <2>1, <2>2, TurnKeeps
  <1>3. CASE Goto(r, "starting")
    <2>1. PICK y \in RunStates : /\ run' = [run EXCEPT ![r] = y]
                                 /\ SameBut(run[r], y, "starting", run[r].result)
      BY <1>3, Goes DEF Steps
    <2>2. Turn(r, y)
      BY <1>1, <2>1 DEF Turn, SameBut, Placed, ReadModeState, Outside, Inv, Typed
    <2>3. KeepsLock(r, y) /\ KeepsFile(r, y) /\ KeepsWorkflow(r, y)
      BY <1>1, <2>1 DEF ReadModeState, SameBut, KeepsLock, KeepsFile, KeepsWorkflow, Tends,
                        Finished, Inv, Typed, LockedSteps
    <2> QED
      BY <2>2, <2>3, TurnKeeps
  <1> QED
    BY <1>2, <1>3 DEF ReadModeState

LEMMA StartOrchestratorKeeps ==
    ASSUME Inv, NEW r \in Runs, StartOrchestrator(r)
    PROVE  Inv'
  <1>1. Placed(run[r]) /\ run[r] \in RunStates /\ run[r].pc = "starting"
    BY DEF Inv, Typed, StartOrchestrator, At
  <1>2. PICK y \in RunStates : /\ run' = [run EXCEPT ![r] = y]
                               /\ SameBut(run[r], y, "acquire", run[r].result)
    BY Goes DEF StartOrchestrator, Steps
  <1>3. Turn(r, y)
    BY <1>1, <1>2 DEF Turn, SameBut, Placed, StartOrchestrator, Outside, Inv, Typed
  <1>4. KeepsLock(r, y) /\ KeepsWorkflow(r, y)
    BY <1>1, <1>2 DEF StartOrchestrator, SameBut, KeepsLock, KeepsWorkflow, Tends,
                      Finished, Inv, Typed, LockedSteps
  <1>5. Saves(r, y, Active("starting", 0))
    <2>1. Proper("orchestrator", Active("starting", 0))
      BY ActiveIsProper, Phased, ModesAssumption, ModesDiffer
    <2> QED
      BY <1>1, <1>2, <2>1 DEF StartOrchestrator, Saves, Placed, Tends, SameBut, Active
  <1> QED
    BY <1>3, <1>4, <1>5, TurnKeeps

LEMMA OpenFreshKeeps ==
    ASSUME Inv, NEW r \in Runs, OpenFresh(r)
    PROVE  Inv'
  <1>1. Placed(run[r]) /\ run[r] \in RunStates /\ run[r].pc = "open"
    BY DEF Inv, Typed, OpenFresh, At
  <1>2. PICK y \in RunStates : /\ run' = [run EXCEPT ![r] = y]
                               /\ SameBut(run[r], y, "check", run[r].result)
    BY Goes DEF OpenFresh, Steps
  <1>3. Turn(r, y)
    BY <1>1, <1>2 DEF Turn, SameBut, Placed, OpenFresh, Inv, Typed
  <1>4. KeepsLock(r, y) /\ KeepsWorkflow(r, y) /\ KeepsFile(r, y)
    BY <1>1, <1>2 DEF OpenFresh, SameBut, KeepsLock, KeepsFile, KeepsWorkflow, Tends,
                      Finished, Inv, Typed, LockedSteps, Locked
  <1> QED
    BY <1>3, <1>4, TurnKeeps

LEMMA OpenResumedKeeps ==
    ASSUME Inv, NEW r \in Runs, OpenResumed(r)
    PROVE  Inv'
  <1>1. /\ Placed(run[r]) /\ run[r] \in RunStates /\ run[r].pc = "open"
        /\ workflow.done \in 0 .. NumStages
    BY DEF Inv, Typed, OpenResumed, At, Workflows
  <1>2. CASE workflow.status = "completed" /\ End(r, "release", "completed")
    <2>1. PICK y \in RunStates : /\ run' = [run EXCEPT ![r] = y]
                                 /\ SameBut(run[r], y, "release", "completed")
      BY <1>2, Ending DEF Steps, Outcomes
    <2>2. Turn(r, y)
      BY <1>1, <2>1 DEF Turn, SameBut, Placed, OpenResumed, Outside, Inv, Typed
    <2>3. KeepsLock(r, y) /\ KeepsFile(r, y) /\ KeepsWorkflow(r, y)
      BY <1>1, <1>2, <2>1 DEF OpenResumed, SameBut, KeepsLock, KeepsFile, KeepsWorkflow,
                        Tends, Finished, Inv, Typed, LockedSteps, Locked
    <2> QED
      BY <2>2, <2>3, TurnKeeps
  <1>3. CASE run' = [run EXCEPT ![r].pc = "check", ![r].done = workflow.done]
    <2> DEFINE y == [run[r] EXCEPT !.pc = "check", !.done = workflow.done]
    <2>1. run' = [run EXCEPT ![r] = y]
      BY <1>1, <1>3 DEF Inv, Typed
    <2>2. y \in RunStates
      BY <1>1, Zenon DEF RunStates, Steps
    <2>3. y.pc = "check" /\ y.mode = run[r].mode
      BY <1>1 DEF RunStates
    <2> HIDE DEF y
    <2>4. Turn(r, y)
      BY <1>1, <2>1, <2>2, <2>3 DEF Turn, Placed, OpenResumed, Outside, Inv, Typed
    <2>5. KeepsLock(r, y) /\ KeepsFile(r, y) /\ KeepsWorkflow(r, y)
      BY <1>1, <2>3 DEF OpenResumed, KeepsLock, KeepsFile, KeepsWorkflow, Placed,
                        Tends, Finished, Inv, Typed, LockedSteps, Locked
    <2> QED
      BY <2>4, <2>5, TurnKeeps
  <1> QED
    BY <1>2, <1>3 DEF OpenResumed

LEMMA CheckStageKeeps ==
    ASSUME Inv, NEW r \in Runs, CheckStage(r)
    PROVE  Inv'
  <1>1. /\ Placed(run[r]) /\ run[r] \in RunStates /\ run[r].pc = "check"
        /\ run[r].done \in 0 .. NumStages /\ NumStages \in 0 .. NumStages
    BY ModesAssumption DEF Inv, Typed, CheckStage, At, RunStates
  <1>2. ASSUME NEW result \in {"completed", "failed", "cancelled"}, End(r, "release", result),
               workflow' \in Workflows,
               result = "completed" => workflow'.status = "completed"
        PROVE  Inv'
    <2>1. PICK y \in RunStates : /\ run' = [run EXCEPT ![r] = y]
                                 /\ SameBut(run[r], y, "release", result)
      BY <1>2, Ending DEF Steps, Outcomes
    <2>2. Turn(r, y)
      BY <1>1, <2>1 DEF Turn, SameBut, Placed, CheckStage, Outside, Inv, Typed
    <2>3. KeepsLock(r, y) /\ KeepsFile(r, y)
      BY <1>1, <2>1 DEF CheckStage, SameBut, KeepsLock, KeepsFile,
                        Tends, LockedSteps, Locked
    <2>4. KeepsWorkflow(r, y)
      BY <1>1, <1>2, <2>1 DEF KeepsWorkflow, SameBut, Tends, Finished, Placed
    <2> QED
      BY <2>2, <2>3, <2>4, TurnKeeps
  <1>3. ASSUME Goto(r, "announce"), run[r].done < NumStages, workflow' \in Workflows
        PROVE  Inv'
    <2>1. PICK y \in RunStates : /\ run' = [run EXCEPT ![r] = y]
                                 /\ SameBut(run[r], y, "announce", run[r].result)
      BY <1>3, Goes DEF Steps
    <2>2. Turn(r, y)
      BY <1>1, <1>3, <2>1 DEF Turn, SameBut, Placed, CheckStage, Outside, Inv, Typed
    <2>3. KeepsLock(r, y) /\ KeepsFile(r, y) /\ KeepsWorkflow(r, y)
      BY <1>1, <1>3, <2>1 DEF CheckStage, SameBut, KeepsLock, KeepsFile, KeepsWorkflow,
                        Placed, Tends, Finished, LockedSteps, Locked
    <2> QED
      BY <2>2, <2>3, TurnKeeps
  <1>4. /\ [status |-> "completed", done |-> NumStages] \in Workflows
        /\ [status |-> "failed", done |-> run[r].done] \in Workflows
        /\ [status |-> "in_progress", done |-> run[r].done] \in Workflows
    BY <1>1 DEF Workflows
  <1> QED
    BY <1>2, <1>3, <1>4 DEF CheckStage

LEMMA AnnounceStageKeeps ==
    ASSUME Inv, NEW r \in Runs, AnnounceStage(r) \/ AnnounceCompleted(r)
    PROVE  Inv'
  <1>1. /\ Placed(run[r]) /\ run[r] \in RunStates
        /\ run[r].pc \in {"announce", "announced"}
        /\ run[r].pc = "announce" => run[r].done < NumStages
    BY DEF Inv, Typed, AnnounceStage, AnnounceCompleted, At, Placed
  <1>2. PICK step \in {"execute", "check"} :
          Goto(r, step) /\ (step = "execute" => run[r].pc = "announce")
    BY DEF AnnounceStage, AnnounceCompleted, At
  <1>3. PICK y \in RunStates : /\ run' = [run EXCEPT ![r] = y]
                               /\ SameBut(run[r], y, step, run[r].result)
    BY <1>2, Goes DEF Steps
  <1>4. /\ UNCHANGED <<workflow, lock, marker, cancel, count, seen>>
        /\ Save("orchestrator", Active("stage", 0))
    BY DEF AnnounceStage, AnnounceCompleted, Outside
  <1>5. Turn(r, y)
    BY <1>1, <1>2, <1>3, <1>4 DEF Turn, SameBut, Placed, Inv, Typed
  <1>6. KeepsLock(r, y) /\ KeepsWorkflow(r, y)
    BY <1>1, <1>2, <1>3, <1>4 DEF SameBut, KeepsLock, KeepsWorkflow, Tends,
                      Finished, Inv, Typed, LockedSteps, Locked
  <1>7. Saves(r, y, Active("stage", 0))
    <2>1. Proper("orchestrator", Active("stage", 0))
      BY ActiveIsProper, Phased, ModesAssumption, ModesDiffer
    <2> QED
      BY <1>1, <1>2, <1>3, <1>4, <2>1 DEF Saves, Placed, Tends, SameBut, Active
  <1> QED
    BY <1>5, <1>6, <1>7, TurnKeeps

LEMMA ExecuteStageKeeps ==
    ASSUME Inv, NEW r \in Runs, ExecuteStage(r)
    PROVE  Inv'
  <1>1. /\ Placed(run[r]) /\ run[r] \in RunStates /\ run[r].pc = "execute"
        /\ run[r].mode = "orchestrator" /\ run[r].done \in 0 .. NumStages
    BY DEF Inv, Typed, ExecuteStage, At, RunStates, Placed
  <1>2. PICK next \in 0 .. NumStages : next = run[r].done + 1
    BY <1>1, ModesAssumption DEF Placed
  <1>3. ASSUME NEW y \in RunStates, run' = [run EXCEPT ![r] = y], y.mode = "orchestrator",
               y.pc \in {"announced", "blame", "release"},
               y.pc = "release" => y.result = "failed",
               workflow' \in Workflows
        PROVE  Inv'
    <2>1. Turn(r, y)
      BY <1>1, <1>3 DEF Turn, Placed, ExecuteStage, Outside, Inv, Typed
    <2>2. KeepsLock(r, y) /\ KeepsFile(r, y) /\ KeepsWorkflow(r, y)
      BY <1>1, <1>3 DEF ExecuteStage, KeepsLock, KeepsFile, KeepsWorkflow,
                        Tends, Finished, LockedSteps, Locked
    <2> QED
      BY <2>1, <2>2, TurnKeeps
  <1>4. CASE /\ workflow' = [status |-> "in_progress", done |-> run[r].done + 1]
             /\ run' = [run EXCEPT ![r].pc = "announced", ![r].done = @ + 1]
    <2> DEFINE y == [run[r] EXCEPT !.pc = "announced", !.done = next]
    <2>1. run' = [run EXCEPT ![r] = y]
      BY <1>1, <1>2, <1>4 DEF Inv, Typed
    <2>2. y \in RunStates
      BY <1>1, Zenon DEF RunStates, Steps
    <2>3. y.pc = "announced" /\ y.mode = run[r].mode
      BY <1>1 DEF RunStates
    <2>4. workflow' \in Workflows
      BY <1>2, <1>4 DEF Workflows
    <2> QED
      BY <1>1, <1>3, <2>1, <2>2, <2>3, <2>4
  <1>5. CASE Goto(r, "blame") /\ workflow' = workflow
    BY <1>1, <1>3, <1>5, Goes DEF Steps, SameBut, Inv, Typed
  <1>6. ASSUME NEW step \in {"blame", "release"}, End(r, step, "failed"),
               workflow' \in Workflows
        PROVE  Inv'
    BY <1>1, <1>3, <1>6, Ending DEF Steps, Outcomes, SameBut
  <1>7. [status |-> "failed", done |-> run[r].done] \in Workflows
    BY <1>1 DEF Workflows
  <1> QED
    BY <1>4, <1>5, <1>6, <1>7 DEF ExecuteStage, Inv, Typed

LEMMA AnnounceFailedKeeps ==
    ASSUME Inv, NEW r \in Runs, AnnounceFailed(r)
    PROVE  Inv'
  <1>1. Placed(run[r]) /\ run[r] \in RunStates /\ run[r].pc = "blame"
    BY DEF Inv, Typed, AnnounceFailed, At
  <1>2. PICK step \in {"release", "fail"} :
          Goto(r, step) /\ (step = "release" => run[r].result = "failed")
    BY DEF AnnounceFailed
  <1>3. PICK y \in RunStates : /\ run' = [run EXCEPT ![r] = y]
                               /\ SameBut(run[r], y, step, run[r].result)
    BY <1>2, Goes DEF Steps
  <1>4. Turn(r, y)
    BY <1>1, <1>2, <1>3 DEF Turn, SameBut, Placed, AnnounceFailed, Outside, Inv, Typed
  <1>5. KeepsLock(r, y) /\ KeepsWorkflow(r, y)
    BY <1>1, <1>2, <1>3 DEF AnnounceFailed, SameBut, KeepsLock, KeepsWorkflow,
                      Finished, Inv, Typed, LockedSteps, Locked
  <1>6. Saves(r, y, Terminal("failed", 0))
    <2>1. /\ Proper("orchestrator", Terminal("failed", 0)) /\ ~Terminal("failed", 0).active
          /\ Terminal("failed", 0).phase = "failed"
      BY TerminalIsProper, ModesAssumption, ModesDiffer DEF TerminalPhases
    <2> QED
      BY <1>1, <1>2, <1>3, <2>1 DEF AnnounceFailed, Saves, Placed
  <1> QED
    BY <1>4, <1>5, <1>6, TurnKeeps

LEMMA FailStageKeeps ==
    ASSUME Inv, NEW r \in Runs, FailStage(r)
    PROVE  Inv'
  <1>1. /\ Placed(run[r]) /\ run[r] \in RunStates /\ run[r].pc = "fail"
        /\ run[r].done \in 0 .. NumStages
    BY DEF Inv, Typed, FailStage, At, RunStates
  <1>2. PICK y \in RunStates : /\ run' = [run EXCEPT ![r] = y]
                               /\ SameBut(run[r], y, "release", "failed")
    BY Ending DEF FailStage, Steps, Outcomes
  <1>3. Turn(r, y)
    BY <1>1, <1>2 DEF Turn, SameBut, Placed, FailStage, Outside, Inv, Typed
  <1>4. workflow' \in Workflows
    BY <1>1 DEF FailStage, Workflows
  <1>5. KeepsLock(r, y) /\ KeepsFile(r, y) /\ KeepsWorkflow(r, y)
    BY <1>1, <1>2, <1>4 DEF FailStage, SameBut, KeepsLock, KeepsFile, KeepsWorkflow,
                      Placed, Tends, Finished, LockedSteps, Locked
  <1> QED
    BY <1>3, <1>5, TurnKeeps

LEMMA FinalKeeps ==
    ASSUME Inv, NEW r \in Runs, Final(r)
    PROVE  Inv'
  <1>1. /\ Placed(run[r]) /\ run[r] \in RunStates /\ run[r].pc = "final"
        /\ run[r].mode = "orchestrator"
        /\ run[r].result \in {"completed", "cancelled", "failed"}
    BY DEF Inv, Typed, Final, At, Placed
  <1>2. Turn(r, Idle)
    BY <1>1, IdleRuns DEF Turn, Final, Answer, Outside, Inv, Typed
  <1>3. KeepsLock(r, Idle) /\ KeepsWorkflow(r, Idle)
    BY <1>1, IdleRuns DEF Final, KeepsLock, KeepsWorkflow, Finished, Inv, Typed,
                          LockedSteps
  <1>4. PICK phase \in TerminalPhases :
          /\ phase = (IF run[r].result = "completed" THEN "complete" ELSE run[r].result)
    BY <1>1 DEF TerminalPhases
  <1>5. Saves(r, Idle, Terminal(phase, 0))
    <2>1. /\ Proper("orchestrator", Terminal(phase, 0)) /\ ~Terminal(phase, 0).active
          /\ Terminal(phase, 0).phase = phase
      BY TerminalIsProper, ModesAssumption, ModesDiffer
    <2> QED
      BY <1>1, <1>4, <2>1, IdleRuns DEF Final, Saves
  <1> QED
    BY <1>2, <1>3, <1>5, TurnKeeps

-----------------------------------------------------------------------------
(* The other modes, step by step.                                          *)

LEMMA ReopenModeKeeps ==
    ASSUME Inv, NEW r \in Runs, ReopenMode(r)
    PROVE  Inv'
  <1>1. /\ Placed(run[r]) /\ run[r] \in RunStates /\ run[r].pc = "reopen"
        /\ run[r].mode # "orchestrator"
    BY DEF Inv, Typed, ReopenMode, At, Placed
  <1>2. ASSUME NEW y \in RunStates, run' = [run EXCEPT ![r] = y],
               NEW step \in {"release", "begin"}, NEW result,
               SameBut(run[r], y, step, result)
        PROVE  Inv'
    <2>1. Turn(r, y)
      BY <1>1, <1>2 DEF Turn, SameBut, Placed, ReopenMode, Outside, Inv, Typed
    <2>2. KeepsLock(r, y) /\ KeepsFile(r, y) /\ KeepsWorkflow(r, y)
      BY <1>1, <1>2 DEF ReopenMode, SameBut, KeepsLock, KeepsFile, KeepsWorkflow,
                        Tends, Finished, Inv, Typed, LockedSteps, Locked
    <2> QED
      BY <2>1, <2>2, TurnKeeps
  <1>3. CASE End(r, "release", StatusOf(file[run[r].mode].phase))
    BY <1>2, <1>3, Ending DEF Steps, Outcomes, StatusOf
  <1>4. CASE Goto(r, "begin")
    BY <1>2, <1>4, Goes DEF Steps
  <1> QED
    BY <1>3, <1>4 DEF ReopenMode

LEMMA BeginModeKeeps ==
    ASSUME Inv, NEW r \in Runs, BeginMode(r)
    PROVE  Inv'
  <1>1. Placed(run[r]) /\ run[r] \in RunStates /\ run[r].pc = "begin"
    BY DEF Inv, Typed, BeginMode, At
  <1>2. CASE /\ run[r].mode = "ultrawork" /\ Save("ultrawork", Active("starting", 0))
             /\ Goto(r, "work")
    <2>1. PICK y \in RunStates : /\ run' = [run EXCEPT ![r] = y]
                                 /\ SameBut(run[r], y, "work", run[r].result)
      BY <1>2, Goes DEF Steps
    <2>2. Turn(r, y)
      BY <1>1, <1>2, <2>1 DEF Turn, SameBut, Placed, PhaseAfter, BeginMode, Outside, Inv, Typed
    <2>3. KeepsLock(r, y) /\ KeepsWorkflow(r, y)
      BY <1>1, <2>1 DEF BeginMode, SameBut, KeepsLock, KeepsWorkflow,
                        Finished, Inv, Typed, LockedSteps, Locked
    <2>4. Saves(r, y, Active("starting", 0))
      <3>1. Proper("ultrawork", Active("starting", 0))
        BY ActiveIsProper, Phased, ModesAssumption, ModesDiffer
      <3> QED
        BY <1>1, <1>2, <2>1, <3>1 DEF Saves, Tends, SameBut, Active, Locked, LockedSteps
    <2> QED
      BY <2>2, <2>3, <2>4, TurnKeeps
  <1>3. CASE /\ run[r].mode = "ralph" /\ Save("ralph", Active("starting", 1))
             /\ run' = [run EXCEPT ![r].pc = "iterate", ![r].phase = "executing",
                                   ![r].iteration = 1]
    <2> DEFINE y == [run[r] EXCEPT !.pc = "iterate", !.phase = "executing", !.iteration = 1]
    <2>0. 1 \in 0 .. MaxIterations
      BY ModesAssumption
    <2>1. run' = [run EXCEPT ![r] = y]
      BY <1>1, <1>3 DEF Inv, Typed
    <2>2. y \in RunStates
      BY <1>1, <2>0, Phased, Zenon DEF RunStates, Steps
    <2>3. y.pc = "iterate" /\ y.mode = "ralph" /\ y.phase = "executing" /\ y.iteration = 1
      BY <1>1, <1>3 DEF RunStates
    <2> HIDE DEF y
    <2>4. Turn(r, y)
      BY <1>1, <2>1, <2>2, <2>3 DEF Turn, Placed, BeginMode, Outside, Inv, Typed
    <2>5. KeepsLock(r, y) /\ KeepsWorkflow(r, y)
      BY <1>1, <2>3 DEF BeginMode, KeepsLock, KeepsWorkflow,
                        Finished, Inv, Typed, LockedSteps, Locked
    <2>6. Saves(r, y, Active("starting", 1))
      <3>1. Proper("ralph", Active("starting", 1))
        BY <2>0, ActiveIsProper, Phased, ModesDiffer
      <3> QED
        BY <1>3, <2>3, <3>1 DEF Saves, Tends, Active
    <2> QED
      BY <2>4, <2>5, <2>6, TurnKeeps
  <1> QED
    BY <1>2, <1>3 DEF BeginMode

LEMMA UltraworkKeeps ==
    ASSUME Inv, NEW r \in Runs, Ultrawork(r)
    PROVE  Inv'
  <1>1. /\ Placed(run[r]) /\ run[r] \in RunStates /\ run[r].pc = "work"
        /\ run[r].mode = "ultrawork"
        /\ run[r].phase \in {"starting", "scheduling", "executing", "verifying"}
    BY DEF Inv, Typed, Ultrawork, At, Placed, PhaseAfter
  <1>2. CASE PhaseAfter[run[r].phase] = "complete"
    <2>1. PICK y \in RunStates : /\ run' = [run EXCEPT ![r] = y]
                                 /\ SameBut(run[r], y, "release", "completed")
      BY <1>2, Ending DEF Ultrawork, Steps, Outcomes
    <2>2. Turn(r, y)
      BY <1>1, <2>1 DEF Turn, SameBut, Placed, Ultrawork, Outside, Inv, Typed
    <2>3. KeepsLock(r, y) /\ KeepsWorkflow(r, y)
      BY <1>1, <2>1 DEF Ultrawork, SameBut, KeepsLock, KeepsWorkflow,
                        Finished, Inv, Typed, LockedSteps, Locked
    <2>4. Saves(r, y, Terminal("complete", 0))
      <3>1. Proper("ultrawork", Terminal("complete", 0)) /\ ~Terminal("complete", 0).active
        BY TerminalIsProper, ModesAssumption, ModesDiffer DEF TerminalPhases
      <3> QED
        BY <1>1, <1>2, <3>1 DEF Ultrawork, Saves, Locked, LockedSteps
    <2> QED
      BY <2>2, <2>3, <2>4, TurnKeeps
  <1>3. CASE PhaseAfter[run[r].phase] # "complete"
    <2>1. PICK next \in {"scheduling", "executing", "verifying"} :
             next = PhaseAfter[run[r].phase]
      BY <1>1, <1>3 DEF PhaseAfter
    <2> DEFINE y == [run[r] EXCEPT !.phase = next]
    <2>2. run' = [run EXCEPT ![r] = y]
      BY <1>1, <1>3, <2>1 DEF Ultrawork, Inv, Typed
    <2>3. y \in RunStates
      BY <1>1, Phased, Zenon DEF RunStates
    <2>4. /\ y.pc = "work" /\ y.mode = "ultrawork" /\ y.phase = next
      BY <1>1 DEF RunStates
    <2> HIDE DEF y
    <2>5. Turn(r, y)
      BY <1>1, <2>1, <2>2, <2>3, <2>4 DEF Turn, Placed, PhaseAfter, Ultrawork, Outside,
                                          Inv, Typed
    <2>6. KeepsLock(r, y) /\ KeepsWorkflow(r, y)
      BY <1>1, <2>4 DEF Ultrawork, KeepsLock, KeepsWorkflow,
                        Finished, Inv, Typed, LockedSteps, Locked
    <2>7. Saves(r, y, Active(next, 0))
      <3>1. Proper("ultrawork", Active(next, 0))
        BY <2>1, ActiveIsProper, Phased, ModesAssumption, ModesDiffer
      <3> QED
        BY <1>1, <1>3, <2>1, <2>4, <3>1
           DEF Ultrawork, Saves, Tends, Active, Locked, LockedSteps
    <2> QED
      BY <2>5, <2>6, <2>7, TurnKeeps
  <1> QED
    BY <1>2, <1>3

LEMMA IterateKeeps ==
    ASSUME Inv, NEW r \in Runs, Iterate(r)
    PROVE  Inv'
  <1>1. /\ Placed(run[r]) /\ run[r] \in RunStates /\ run[r].pc = "iterate"
        /\ run[r].mode = "ralph" /\ run[r].phase \in {"executing", "fixing"}
        /\ run[r].iteration \in 0 .. MaxIterations /\ run[r].iteration > 0
    BY DEF Inv, Typed, Iterate, At, Placed, RunStates
  <1>2. PICK y \in RunStates : /\ run' = [run EXCEPT ![r] = y]
                               /\ SameBut(run[r], y, "evaluate", run[r].result)
    BY Goes DEF Iterate, Steps
  <1>3. Turn(r, y)
    BY <1>1, <1>2 DEF Turn, SameBut, Placed, Iterate, Outside, Inv, Typed
  <1>4. KeepsLock(r, y) /\ KeepsWorkflow(r, y)
    BY <1>1, <1>2 DEF Iterate, SameBut, KeepsLock, KeepsWorkflow,
                      Finished, Inv, Typed, LockedSteps, Locked
  <1>5. Saves(r, y, Active(run[r].phase, run[r].iteration))
    <2>1. Proper("ralph", Active(run[r].phase, run[r].iteration))
      BY <1>1, ActiveIsProper, Phased, ModesDiffer
    <2> QED
      BY <1>1, <1>2, <2>1 DEF Iterate, Saves, Tends, SameBut
  <1> QED
    BY <1>3, <1>4, <1>5, TurnKeeps

LEMMA EvaluateKeeps ==
    ASSUME Inv, NEW r \in Runs, Evaluate(r)
    PROVE  Inv'
  <1>1. /\ Placed(run[r]) /\ run[r] \in RunStates /\ run[r].pc = "evaluate"
        /\ run[r].mode = "ralph" /\ run[r].iteration > 0
    BY DEF Inv, Typed, Evaluate, At, Placed
  <1>2. PICK result \in {"completed", "none"} :
          End(r, "verify", result) /\ (result = "completed" => TodosDone)
    BY DEF Evaluate
  <1>3. PICK y \in RunStates : /\ run' = [run EXCEPT ![r] = y]
                               /\ SameBut(run[r], y, "verify", result)
    BY <1>2, Ending DEF Steps, Outcomes
  <1>4. Turn(r, y)
    BY <1>1, <1>2, <1>3 DEF Turn, SameBut, Placed, Evaluate, Outside, Inv, Typed
  <1>5. KeepsLock(r, y) /\ KeepsFile(r, y) /\ KeepsWorkflow(r, y)
    BY <1>1, <1>3 DEF Evaluate, SameBut, KeepsLock, KeepsFile, KeepsWorkflow, Tends,
                      Finished, Inv, Typed, LockedSteps, Locked
  <1> QED
    BY <1>4, <1>5, TurnKeeps

(* The loop goes round once more, or is over.                              *)
LEMMA Iterates ==
    ASSUME Inv, NEW r \in Runs, NEW phase \in {"executing", "fixing"},
           run[r].mode = "ralph", run[r].pc \in {"iterate", "evaluate", "verify"},
           NextIteration(r, phase)
    PROVE  \E y \in RunStates :
              /\ run' = [run EXCEPT ![r] = y] /\ Placed(y) /\ y.mode = "ralph"
              /\ y.pc \in {"iterate", "finish"}
              /\ y.pc = "finish" => y.result = "failed"
  <1>1. /\ Placed(run[r]) /\ run[r] \in RunStates /\ run[r].iteration \in 0 .. MaxIterations
        /\ run[r].iteration > 0
    BY DEF Inv, Typed, Placed, RunStates
  <1>2. CASE /\ run[r].iteration < MaxIterations
             /\ run' = [run EXCEPT ![r].pc = "iterate", ![r].phase = phase,
                                   ![r].iteration = run[r].iteration + 1]
    <2>1. PICK next \in 0 .. MaxIterations : next = run[r].iteration + 1 /\ next > 0
      BY <1>1, <1>2, ModesAssumption
    <2> DEFINE y == [run[r] EXCEPT !.pc = "iterate", !.phase = phase, !.iteration = next]
    <2>2. run' = [run EXCEPT ![r] = y]
      BY <1>1, <1>2, <2>1 DEF Inv, Typed
    <2>3. y \in RunStates
      BY <1>1, Phased, Zenon DEF RunStates, Steps
    <2>4. y.pc = "iterate" /\ y.mode = "ralph" /\ y.phase = phase /\ y.iteration > 0
      BY <1>1, <2>1 DEF RunStates
    <2> HIDE DEF y
    <2>5. Placed(y)
      BY <2>4 DEF Placed
    <2> QED
      BY <2>2, <2>3, <2>4, <2>5
  <1>3. CASE End(r, "finish", "failed")
    <2>1. PICK y \in RunStates : /\ run' = [run EXCEPT ![r] = y]
                                 /\ SameBut(run[r], y, "finish", "failed")
      BY <1>3, Ending DEF Steps, Outcomes
    <2> QED
      BY <1>1, <2>1 DEF SameBut, Placed
  <1> QED
    BY <1>2, <1>3 DEF NextIteration

LEMMA IterationThrowsKeeps ==
    ASSUME Inv, NEW r \in Runs, IterationThrows(r)
    PROVE  Inv'
  <1>1. /\ Placed(run[r]) /\ run[r] \in RunStates /\ run[r].pc = "evaluate"
        /\ run[r].mode = "ralph" /\ run[r].phase \in {"executing", "fixing"}
    BY DEF Inv, Typed, IterationThrows, At, Placed
  <1>2. PICK y \in RunStates :
              /\ run' = [run EXCEPT ![r] = y] /\ Placed(y) /\ y.mode = "ralph"
              /\ y.pc \in {"iterate", "finish"}
              /\ y.pc = "finish" => y.result = "failed"
    BY <1>1, Iterates DEF IterationThrows
  <1>3. Turn(r, y)
    BY <1>1, <1>2 DEF Turn, IterationThrows, Outside, Inv, Typed
  <1>4. KeepsLock(r, y) /\ KeepsFile(r, y) /\ KeepsWorkflow(r, y)
    BY <1>1, <1>2 DEF IterationThrows, KeepsLock, KeepsFile, KeepsWorkflow, Tends,
                      Finished, Inv, Typed, LockedSteps, Locked
  <1> QED
    BY <1>3, <1>4, TurnKeeps

LEMMA VerifyIterationKeeps ==
    ASSUME Inv, NEW r \in Runs, VerifyIteration(r)
    PROVE  Inv'
  <1>1. /\ Placed(run[r]) /\ run[r] \in RunStates /\ run[r].pc = "verify"
        /\ run[r].mode = "ralph"
        /\ run[r].iteration \in 0 .. MaxIterations /\ run[r].iteration > 0
    BY DEF Inv, Typed, VerifyIteration, At, Placed, RunStates
  <1>2. PICK y \in RunStates :
              /\ run' = [run EXCEPT ![r] = y] /\ Placed(y) /\ y.mode = "ralph"
              /\ y.pc \in {"iterate", "finish"}
              /\ y.pc = "finish" /\ y.result = "completed" => run[r].result = "completed"
    <2>1. CASE run[r].result = "completed" /\ Goto(r, "finish")
      <3>1. PICK y \in RunStates : /\ run' = [run EXCEPT ![r] = y]
                                   /\ SameBut(run[r], y, "finish", run[r].result)
        BY <2>1, Goes DEF Steps
      <3> QED
        BY <1>1, <3>1 DEF SameBut, Placed
    <2>2. CASE NextIteration(r, "fixing")
      BY <1>1, <2>2, Iterates
    <2> QED
      BY <2>1, <2>2 DEF VerifyIteration
  <1>3. Turn(r, y)
    BY <1>1, <1>2 DEF Turn, VerifyIteration, Outside, Inv, Typed
  <1>4. KeepsLock(r, y) /\ KeepsWorkflow(r, y)
    BY <1>1, <1>2 DEF VerifyIteration, KeepsLock, KeepsWorkflow,
                      Finished, Inv, Typed, LockedSteps, Locked
  <1>5. Saves(r, y, Active("verifying", run[r].iteration))
    <2>1. Proper("ralph", Active("verifying", run[r].iteration))
      BY <1>1, ActiveIsProper, Phased, ModesDiffer
    <2> QED
      BY <1>1, <1>2, <2>1 DEF VerifyIteration, Saves, Tends
  <1> QED
    BY <1>3, <1>4, <1>5, TurnKeeps

LEMMA FinishRalphKeeps ==
    ASSUME Inv, NEW r \in Runs, FinishRalph(r)
    PROVE  Inv'
  <1>1. /\ Placed(run[r]) /\ run[r] \in RunStates /\ run[r].pc = "finish"
        /\ run[r].mode = "ralph" /\ run[r].iteration \in 0 .. MaxIterations
    BY DEF Inv, Typed, FinishRalph, At, Placed, RunStates
  <1>2. PICK y \in RunStates : /\ run' = [run EXCEPT ![r] = y]
                               /\ SameBut(run[r], y, "release", run[r].result)
    BY Goes DEF FinishRalph, Steps
  <1>3. Turn(r, y)
    BY <1>1, <1>2 DEF Turn, SameBut, Placed, FinishRalph, Outside, Inv, Typed
  <1>4. KeepsLock(r, y) /\ KeepsWorkflow(r, y)
    BY <1>1, <1>2 DEF FinishRalph, SameBut, KeepsLock, KeepsWorkflow,
                      Finished, Inv, Typed, LockedSteps, Locked
  <1>5. PICK phase \in TerminalPhases :
          phase = (IF run[r].result = "completed" THEN "complete" ELSE "failed")
    BY DEF TerminalPhases
  <1>6. Saves(r, y, Terminal(phase, run[r].iteration))
    <2>1. /\ Proper("ralph", Terminal(phase, run[r].iteration))
          /\ ~Terminal(phase, run[r].iteration).active
      BY <1>1, TerminalIsProper, ModesDiffer
    <2> QED
      BY <1>1, <1>5, <2>1 DEF FinishRalph, Saves
  <1> QED
    BY <1>3, <1>4, <1>6, TurnKeeps

LEMMA ReleaseKeeps ==
    ASSUME Inv, NEW r \in Runs, Release(r)
    PROVE  Inv'
  <1>1. Placed(run[r]) /\ run[r] \in RunStates /\ run[r].pc = "release"
    BY DEF Inv, Typed, Release, At
  <1>2. CASE run[r].mode = "orchestrator" /\ Goto(r, "final")
    <2>1. PICK y \in RunStates : /\ run' = [run EXCEPT ![r] = y]
                                 /\ SameBut(run[r], y, "final", run[r].result)
      BY <1>2, Goes DEF Steps
    <2>2. Turn(r, y)
      BY <1>1, <1>2, <2>1 DEF Turn, SameBut, Placed, Release, Outside, Inv, Typed
    <2>3. KeepsLock(r, y) /\ KeepsFile(r, y) /\ KeepsWorkflow(r, y)
      BY <1>1, <1>2, <2>1 DEF Release, SameBut, KeepsLock, KeepsFile, KeepsWorkflow, Tends,
                              Finished, Inv, Typed, LockedSteps
    <2> QED
      BY <2>2, <2>3, TurnKeeps
  <1>3. CASE /\ run[r].mode # "orchestrator"
             /\ run' = [run EXCEPT ![r] = [Idle EXCEPT !.pc = "acquire", !.mode = "ralph",
                                                       !.resume = run[r].resume]]
    <2> DEFINE y == [Idle EXCEPT !.pc = "acquire", !.mode = "ralph",
                                 !.resume = run[r].resume]
    <2>1. y \in RunStates
      BY <1>1, IdleRuns, Zenon DEF RunStates, Steps, Modes
    <2>2. y.pc = "acquire" /\ y.mode = "ralph" /\ y.phase = "starting"
      BY DEF Idle
    <2>3. run' = [run EXCEPT ![r] = y]
      BY <1>3
    <2> HIDE DEF y
    <2>4. Turn(r, y)
      BY <1>1, <2>1, <2>2, <2>3 DEF Turn, Placed, Release, Outside, Inv, Typed
    <2>5. KeepsLock(r, y) /\ KeepsFile(r, y) /\ KeepsWorkflow(r, y)
      BY <1>1, <1>3, <2>2 DEF Release, KeepsLock, KeepsFile, KeepsWorkflow, Tends,
                              Finished, Inv, Typed, LockedSteps
    <2> QED
      BY <2>4, <2>5, TurnKeeps
  <1>4. CASE run[r].mode # "orchestrator" /\ Answer(r)
    <2>1. Turn(r, Idle)
      BY <1>1, <1>4, IdleRuns DEF Turn, Answer, Release, Outside, Inv, Typed
    <2>2. KeepsLock(r, Idle) /\ KeepsFile(r, Idle) /\ KeepsWorkflow(r, Idle)
      BY <1>1, <1>4, IdleRuns DEF Release, KeepsLock, KeepsFile, KeepsWorkflow, Tends,
                                  Finished, Inv, Typed, LockedSteps
    <2> QED
      BY <2>1, <2>2, TurnKeeps
  <1> QED
    BY <1>2, <1>3, <1>4 DEF Release

LEMMA RunKeeps ==
    ASSUME Inv, NEW r \in Runs, Run(r)
    PROVE  Inv'
  BY AcquireKeeps, ReadModeStateKeeps, StartOrchestratorKeeps, OpenFreshKeeps,
     OpenResumedKeeps, CheckStageKeeps, AnnounceStageKeeps, ExecuteStageKeeps,
     AnnounceFailedKeeps, FailStageKeeps, FinalKeeps, ReopenModeKeeps, BeginModeKeeps,
     UltraworkKeeps, IterateKeeps, EvaluateKeeps, IterationThrowsKeeps,
     VerifyIterationKeeps, FinishRalphKeeps, ReleaseKeeps
  DEF Run, Orchestrate, RunMode

-----------------------------------------------------------------------------
(* Commands, crashes and /cancel.                                          *)

LEMMA CommandKeeps ==
    ASSUME Inv, NEW r \in Runs, NEW kind \in Kinds, NEW resume \in BOOLEAN,
           Command(r, kind, resume)
    PROVE  Inv'
  <1> DEFINE y == [Idle EXCEPT !.pc = IF kind = "orchestrator" THEN "read" ELSE "acquire",
                               !.mode = IF kind = "ulw_loop" THEN "ultrawork" ELSE kind,
                               !.chain = (kind = "ulw_loop"),
                               !.resume = resume]
  <1>1. /\ run[r].pc = "idle" /\ run' = [run EXCEPT ![r] = y]
        /\ UNCHANGED <<file, workflow, marker, lock, cancel>>
    BY DEF Command, At
  <1>2. y \in RunStates
    <2>1. /\ (IF kind = "orchestrator" THEN "read" ELSE "acquire") \in Steps
          /\ (IF kind = "ulw_loop" THEN "ultrawork" ELSE kind) \in Modes
      BY ModesAssumption DEF Steps, Modes
    <2>2. (kind = "ulw_loop") \in BOOLEAN
      OBVIOUS
    <2> QED
      BY <2>1, <2>2, IdleRuns, Zenon DEF RunStates
  <1>3. /\ y.pc = (IF kind = "orchestrator" THEN "read" ELSE "acquire")
        /\ y.mode = (IF kind = "ulw_loop" THEN "ultrawork" ELSE kind)
        /\ y.phase = "starting" /\ y.result = "none"
    BY DEF Idle
  <1> HIDE DEF y
  <1>4. /\ run' \in [Runs -> RunStates] /\ run'[r] = y
        /\ \A q \in Runs \ {r} : run'[q] = run[q]
    BY <1>1, <1>2 DEF Inv, Typed
  <1>5. Placed(y)
    BY <1>3 DEF Placed
  <1>6. /\ seen' \in History /\ seen'.overwrote = seen.overwrote
        /\ ~seen'.overlap =>
              /\ ~seen.overlap
              /\ kind = "orchestrator" => \A q \in Runs : ~Orchestrating(q)
    <2> DEFINE met == kind = "orchestrator" /\ \E q \in Runs : Orchestrating(q)
    <2>1. seen \in History /\ seen' = [seen EXCEPT !.overlap = seen.overlap \/ met]
      BY DEF Inv, Typed, Command
    <2>2. met \in BOOLEAN
      OBVIOUS
    <2> HIDE DEF met
    <2>3. /\ seen' \in History /\ seen'.overwrote = seen.overwrote
          /\ ~seen'.overlap => ~seen.overlap /\ ~met
      BY <2>1, <2>2, Zenon DEF History
    <2> QED
      BY <2>3 DEF met
  <1>7. /\ count' \in [commands : 0 .. MaxCommands, cancels : 0 .. MaxCancels,
                       faults : 0 .. MaxFaults]
        /\ count'.faults = count.faults
    BY ModesAssumption DEF Inv, Typed, Command
  <1>8. Typed' /\ Files' /\ Cancelling' /\ (\A q \in Runs : Placed(run[q])')
    BY <1>1, <1>4, <1>5, <1>6, <1>7 DEF Inv, Typed, Files, Cancelling
  <1>9. Exclusive'
    BY <1>1, <1>3, <1>4 DEF Inv, Exclusive, Locked, LockedSteps
  <1>10. \A m : ~Tends(run[r], m)
    BY <1>1 DEF Tends
  <1>11. Manned'
    BY <1>1, <1>4, <1>6, <1>7, <1>10 DEF Inv, Manned
  <1>12. RalphCompletesOverDoneUltrawork'
    BY <1>1, <1>3, <1>4, <1>6 DEF Inv, RalphCompletesOverDoneUltrawork, At
  <1>13. OneOrchestrator'
    BY <1>1, <1>3, <1>4, <1>6 DEF Inv, OneOrchestrator, Orchestrating
  <1>14. ~Tends(y, "orchestrator") /\ y.pc \notin {"release", "final"}
    BY <1>3 DEF Tends
  <1>15. CompleteInTime'
    BY <1>1, <1>4, <1>6, <1>14 DEF Inv, CompleteInTime
  <1> QED
    BY <1>8, <1>9, <1>11, <1>12, <1>13, <1>15 DEF Inv

LEMMA CrashKeeps ==
    ASSUME Inv, NEW r \in Runs, Crash(r)
    PROVE  Inv'
  <1>1. /\ run' = [run EXCEPT ![r] = Idle]
        /\ UNCHANGED <<file, workflow, marker, cancel, seen>>
        /\ lock' = IF lock = r THEN Dead ELSE lock
    BY DEF Crash, Answer
  <1>2. /\ run' \in [Runs -> RunStates] /\ run'[r] = Idle
        /\ \A q \in Runs \ {r} : run'[q] = run[q]
    BY <1>1, IdleRuns DEF Inv, Typed
  <1>3. /\ count' \in [commands : 0 .. MaxCommands, cancels : 0 .. MaxCancels,
                       faults : 0 .. MaxFaults]
        /\ count'.faults # 0
    BY ModesAssumption DEF Inv, Typed, Crash
  <1>4. lock' \in Runs \cup {Free, Dead}
    BY <1>1, Zenon DEF Inv, Typed
  <1>5. Typed' /\ Files' /\ Cancelling' /\ (\A q \in Runs : Placed(run[q])')
    BY <1>1, <1>2, <1>3, <1>4, IdleRuns DEF Inv, Typed, Files, Cancelling
  <1>6. Exclusive'
    BY <1>1, <1>2, IdleRuns DEF Inv, Exclusive, Locked, LockedSteps
  <1>7. Manned'
    BY <1>3 DEF Manned
  <1>8. RalphCompletesOverDoneUltrawork'
    BY <1>1, <1>2, IdleRuns DEF Inv, RalphCompletesOverDoneUltrawork, At
  <1>9. OneOrchestrator'
    BY <1>1, <1>2, IdleRuns DEF Inv, OneOrchestrator, Orchestrating
  <1>10. ~Tends(Idle, "orchestrator")
    BY IdleRuns DEF Tends
  <1>11. CompleteInTime'
    BY <1>1, <1>2, <1>10, IdleRuns DEF Inv, CompleteInTime
  <1> QED
    BY <1>5, <1>6, <1>7, <1>8, <1>9, <1>11 DEF Inv

(* What a failing file operation leaves of the run.                        *)
Thrown(r, y) ==
    /\ y \in RunStates /\ Placed(y)
    /\ run' = [run EXCEPT ![r] = y]
    /\ y.pc \in {"idle", "iterate", "finish", "release", "final"}
    /\ y.pc = "idle" \/ (y.mode = run[r].mode /\ run[r].pc # "idle")
    /\ y.pc \in {"finish", "release", "final"} => y.result = "failed"
    /\ Tends(y, "orchestrator") => Tends(run[r], "orchestrator")

LEMMA ThrowLeaves ==
    ASSUME Inv, NEW r \in Runs, Throw(r)
    PROVE  \E y : Thrown(r, y) /\ (y.pc \in LockedSteps => Locked(r))
  <1>1. Placed(run[r]) /\ run[r] \in RunStates
    BY DEF Inv, Typed
  <1>2. CASE run[r].pc \in {"read", "starting", "final"} /\ Answer(r)
    <2>1. Thrown(r, Idle) /\ Idle.pc \notin LockedSteps
      BY <1>2, IdleRuns DEF Thrown, Answer, Tends, LockedSteps
    <2> QED
      BY <2>1
  <1>3. CASE /\ run[r].pc \in {"open", "check", "announce", "announced", "blame", "fail",
                               "reopen", "begin", "work", "finish"}
             /\ End(r, "release", "failed")
    <2>1. PICK y \in RunStates : /\ run' = [run EXCEPT ![r] = y]
                                 /\ SameBut(run[r], y, "release", "failed")
      BY <1>3, Ending DEF Steps, Outcomes
    <2>2. Thrown(r, y) /\ Locked(r)
      BY <1>1, <1>3, <2>1 DEF Thrown, SameBut, Placed, Tends, LockedSteps, Locked
    <2> QED
      BY <2>2
  <1>4. CASE run[r].pc \in {"iterate", "verify"} /\ NextIteration(r, run[r].phase)
    <2>1. run[r].mode = "ralph" /\ run[r].phase \in {"executing", "fixing"}
      BY <1>1, <1>4 DEF Placed
    <2>2. PICK y \in RunStates :
                /\ run' = [run EXCEPT ![r] = y] /\ Placed(y) /\ y.mode = "ralph"
                /\ y.pc \in {"iterate", "finish"}
                /\ y.pc = "finish" => y.result = "failed"
      BY <1>4, <2>1, Iterates
    <2>3. Thrown(r, y) /\ Locked(r)
      BY <1>4, <2>1, <2>2 DEF Thrown, Tends, LockedSteps, Locked
    <2> QED
      BY <2>3
  <1> QED
    BY <1>2, <1>3, <1>4 DEF Throw

LEMMA AcquireThrowsLeaves ==
    ASSUME Inv, NEW r \in Runs, AcquireThrows(r)
    PROVE  \E y : Thrown(r, y) /\ y.pc \notin LockedSteps
  <1>1. Placed(run[r]) /\ run[r] \in RunStates /\ run[r].pc = "acquire"
    BY DEF Inv, Typed, AcquireThrows, At
  <1>2. CASE run[r].mode = "orchestrator" /\ End(r, "final", "failed")
    <2>1. PICK y \in RunStates : /\ run' = [run EXCEPT ![r] = y]
                                 /\ SameBut(run[r], y, "final", "failed")
      BY <1>2, Ending DEF Steps, Outcomes
    <2>2. Thrown(r, y) /\ y.pc \notin LockedSteps
      BY <1>1, <1>2, <2>1 DEF Thrown, SameBut, Placed, Tends, LockedSteps
    <2> QED
      BY <2>2
  <1>3. CASE Answer(r)
    <2>1. Thrown(r, Idle) /\ Idle.pc \notin LockedSteps
      BY <1>1, <1>3, IdleRuns DEF Thrown, Answer, Tends, LockedSteps
    <2> QED
      BY <2>1
  <1> QED
    BY <1>2, <1>3 DEF AcquireThrows

LEMMA OperationFailsKeeps ==
    ASSUME Inv, NEW r \in Runs, OperationFails(r)
    PROVE  Inv'
  <1>1. PICK y : /\ Thrown(r, y)
                 /\ \/ lock' = lock /\ (y.pc \in LockedSteps => Locked(r))
                    \/ lock = Free /\ lock' = Dead /\ y.pc \notin LockedSteps
    <2>1. CASE AcquireThrows(r)
      BY <2>1, AcquireThrowsLeaves DEF AcquireThrows
    <2>2. CASE Throw(r) /\ UNCHANGED lock
      BY <2>2, ThrowLeaves
    <2> QED
      BY <2>1, <2>2 DEF OperationFails
  <1>2. UNCHANGED <<file, workflow, marker, cancel, seen>>
    BY DEF OperationFails
  <1>3. /\ run' \in [Runs -> RunStates] /\ run'[r] = y
        /\ \A q \in Runs \ {r} : run'[q] = run[q]
    BY <1>1 DEF Thrown, Inv, Typed
  <1>4. /\ count' \in [commands : 0 .. MaxCommands, cancels : 0 .. MaxCancels,
                       faults : 0 .. MaxFaults]
        /\ count'.faults # 0
    BY ModesAssumption DEF Inv, Typed, OperationFails
  <1>5. Typed' /\ Files' /\ Cancelling' /\ (\A q \in Runs : Placed(run[q])')
    BY <1>1, <1>2, <1>3, <1>4 DEF Thrown, Inv, Typed, Files, Cancelling
  <1>6. Exclusive'
    <2> SUFFICES ASSUME NEW q \in Runs, Locked(q)'
                 PROVE  lock' = q
      BY DEF Exclusive
    <2>1. Exclusive /\ q # Free
      BY ModesAssumption DEF Inv, Free
    <2>2. Locked(q)
      BY <1>1, <1>3 DEF Locked
    <2>3. lock = q
      BY <2>1, <2>2 DEF Exclusive
    <2> QED
      BY <1>1, <2>1, <2>3
  <1>7. Manned'
    BY <1>4 DEF Manned
  <1>8. y.pc \notin {"verify", "finish"} \/ y.result = "failed"
    BY <1>1 DEF Thrown
  <1>9. RalphCompletesOverDoneUltrawork'
    BY <1>2, <1>3, <1>8 DEF Inv, RalphCompletesOverDoneUltrawork, At
  <1>10. y.pc # "idle" => y.mode = run[r].mode /\ run[r].pc # "idle"
    BY <1>1 DEF Thrown
  <1>11. OneOrchestrator'
    BY <1>2, <1>3, <1>10 DEF Inv, OneOrchestrator, Orchestrating
  <1>12. /\ Tends(y, "orchestrator") => Tends(run[r], "orchestrator")
         /\ y.pc \notin {"release", "final"} \/ y.result = "failed"
    BY <1>1 DEF Thrown
  <1>13. CompleteInTime'
    BY <1>2, <1>3, <1>12 DEF Inv, CompleteInTime
  <1> QED
    BY <1>5, <1>6, <1>7, <1>9, <1>11, <1>13 DEF Inv

LEMMA LockGoesStaleKeeps ==
    ASSUME Inv, LockGoesStale
    PROVE  Inv'
  <1>1. /\ lock = Dead /\ lock' = Free
        /\ UNCHANGED <<file, workflow, run, marker, cancel, count, seen>>
    BY DEF LockGoesStale, Outside
  <1>2. Exclusive'
    BY <1>1, ModesAssumption DEF Inv, Exclusive, Locked, Dead
  <1>3. Typed' /\ Files' /\ Cancelling' /\ (\A q \in Runs : Placed(run[q])')
    BY <1>1 DEF Inv, Typed, Files, Cancelling
  <1>4. Manned' /\ OneOrchestrator' /\ CompleteInTime'
    BY <1>1 DEF Inv, Manned, OneOrchestrator, Orchestrating, CompleteInTime
  <1>5. RalphCompletesOverDoneUltrawork'
    BY <1>1 DEF Inv, RalphCompletesOverDoneUltrawork, At
  <1> QED
    BY <1>2, <1>3, <1>4, <1>5 DEF Inv

(* What the invariant says of runs and files, when these stay.             *)
LEMMA OthersStay ==
    ASSUME Inv, UNCHANGED <<file, workflow, lock, run, seen>>,
           count'.faults = count.faults \/ count'.faults # 0
    PROVE  /\ Files' /\ Exclusive' /\ Manned' /\ OneOrchestrator' /\ CompleteInTime'
           /\ RalphCompletesOverDoneUltrawork' /\ (\A q \in Runs : Placed(run[q])')
  <1>1. Files' /\ Exclusive' /\ (\A q \in Runs : Placed(run[q])')
    BY DEF Inv, Files, Exclusive, Locked
  <1>2. Manned' /\ OneOrchestrator' /\ CompleteInTime'
    BY DEF Inv, Manned, OneOrchestrator, Orchestrating, CompleteInTime
  <1>3. RalphCompletesOverDoneUltrawork'
    BY DEF Inv, RalphCompletesOverDoneUltrawork, At
  <1> QED
    BY <1>1, <1>2, <1>3

LEMMA CancelListsKeeps ==
    ASSUME Inv, NEW target \in Targets, CancelLists(target)
    PROVE  Inv'
  <1>1. /\ count' \in [commands : 0 .. MaxCommands, cancels : 0 .. MaxCancels,
                       faults : 0 .. MaxFaults]
        /\ count'.faults = count.faults
    BY ModesAssumption DEF Inv, Typed, CancelLists
  <1>2. UNCHANGED <<file, workflow, marker, lock, run, seen>>
    BY DEF CancelLists
  <1>3. Cancelling'
    <2> DEFINE unread == {m \in Modes : file[m] # NoFile}
               read == [m \in Modes |-> NoFile]
               foreign == workflow.status # "absent"
    <2>1. cancel' = [busy |-> TRUE, target |-> target, unread |-> unread, read |-> read,
                     queue |-> {}, foreign |-> foreign]
      BY DEF CancelLists
    <2>2. target \in Modes /\ read \in [Modes -> ModeStates \cup {NoFile}]
      BY ModesAssumption DEF Modes
    <2>3. unread \in SUBSET Modes /\ {} \in SUBSET Modes /\ foreign \in BOOLEAN
      OBVIOUS
    <2> HIDE DEF unread, read, foreign
    <2>4. cancel' \in Cancels
      BY <2>1, <2>2, <2>3, Zenon DEF Cancels
    <2>5. cancel'.queue = {} /\ cancel'.unread = unread
      BY <2>1
    <2>6. \A m \in unread : file[m] # NoFile
      BY DEF unread
    <2> QED
      BY <1>2, <2>4, <2>5, <2>6 DEF Cancelling
  <1>4. Typed'
    BY <1>1, <1>2 DEF Inv, Typed
  <1> QED
    BY <1>1, <1>2, <1>3, <1>4, OthersStay DEF Inv

LEMMA CancelReadsKeeps ==
    ASSUME Inv, NEW m \in Modes, CancelReads(m)
    PROVE  Inv'
  <1>1. UNCHANGED <<file, workflow, marker, lock, run, count, seen>>
    BY DEF CancelReads
  <1>2. Cancelling'
    <2> DEFINE unread == cancel.unread \ {m}
               read == [cancel.read EXCEPT ![m] = file[m]]
               queue == cancel.queue \cup {m}
    <2>1. cancel \in Cancels /\ m \in cancel.unread
      BY DEF Inv, Cancelling, CancelReads, NoCancel
    <2>2. /\ Proper(m, file[m]) /\ file[m] \in ModeStates \cup {NoFile}
          /\ \A other \in cancel.unread : file[other] # NoFile
          /\ \A other \in cancel.queue : Proper(other, cancel.read[other])
      <3>1. cancel # NoCancel
        BY DEF CancelReads, NoCancel
      <3> QED
        BY <2>1, <3>1 DEF Inv, Cancelling, Files
    <2>3. cancel' = [cancel EXCEPT !.unread = unread, !.read = read, !.queue = queue]
      BY <2>1 DEF CancelReads, Cancels
    <2>4. /\ unread \in SUBSET Modes /\ queue \in SUBSET Modes
          /\ read \in [Modes -> ModeStates \cup {NoFile}]
          /\ \A other \in unread : file[other] # NoFile
          /\ \A other \in queue : Proper(other, read[other])
      BY <2>1, <2>2 DEF Cancels
    <2> HIDE DEF unread, read, queue
    <2>5. cancel' \in Cancels
      BY <2>1, <2>4, <2>3, Zenon DEF Cancels
    <2>6. cancel'.unread = unread /\ cancel'.read = read /\ cancel'.queue = queue
      BY <2>1, <2>3 DEF Cancels
    <2> QED
      BY <1>1, <2>4, <2>5, <2>6 DEF Cancelling
  <1>3. Typed'
    BY <1>1 DEF Inv, Typed
  <1> QED
    BY <1>1, <1>2, <1>3, OthersStay DEF Inv

LEMMA CancelFailsKeeps ==
    ASSUME Inv, CancelFails
    PROVE  Inv'
  <1>1. /\ count' \in [commands : 0 .. MaxCommands, cancels : 0 .. MaxCancels,
                       faults : 0 .. MaxFaults]
        /\ count'.faults # 0
    BY ModesAssumption DEF Inv, Typed, CancelFails
  <1>2. UNCHANGED <<file, workflow, marker, lock, run, seen>> /\ cancel' = NoCancel
    BY DEF CancelFails
  <1>3. Typed' /\ Cancelling'
    BY <1>1, <1>2 DEF Inv, Typed, Cancelling
  <1> QED
    BY <1>1, <1>2, <1>3, OthersStay DEF Inv

LEMMA CancelEndsKeeps ==
    ASSUME Inv, CancelEnds
    PROVE  Inv'
  <1>1. UNCHANGED <<file, workflow, lock, run, count, seen>> /\ cancel' = NoCancel
    BY DEF CancelEnds
  <1>2. marker' \in BOOLEAN
    BY Zenon DEF Inv, Typed, CancelEnds
  <1>3. Typed' /\ Cancelling'
    BY <1>1, <1>2 DEF Inv, Typed, Cancelling
  <1> QED
    BY <1>1, <1>3, OthersStay DEF Inv

LEMMA TerminalizedIsProper ==
    ASSUME NEW m \in Modes, Proper(m, cancel.read[m])
    PROVE  /\ Proper(m, Terminalized(m))
           /\ \/ Terminalized(m) = cancel.read[m]
              \/ cancel.read[m].active /\ Terminalized(m).phase = "cancelled"
           /\ Terminalized(m).active => Terminalized(m) = cancel.read[m]
  <1> DEFINE s == cancel.read[m]
             t == [s EXCEPT !.active = FALSE, !.phase = "cancelled", !.finished = TRUE]
  <1>1. s \in ModeStates /\ Proper(m, s)
    BY DEF Proper
  <1>2. "cancelled" \in TerminalPhases
    BY DEF TerminalPhases
  <1>3. /\ Terminalized(m) = s \/ (s.active /\ Terminalized(m) = t)
    BY DEF Terminalized
  <1> HIDE DEF s
  <1>4. t \in ModeStates
    BY <1>1, <1>2, Zenon DEF ModeStates
  <1>5. /\ t.active = FALSE /\ t.phase = "cancelled" /\ t.finished = TRUE
    BY <1>1 DEF ModeStates
  <1> HIDE DEF t
  <1>6. Proper(m, t)
    BY <1>2, <1>4, <1>5 DEF Proper
  <1> QED
    BY <1>1, <1>3, <1>5, <1>6 DEF s

LEMMA CancelWritesKeeps ==
    ASSUME Inv, CancelWrites
    PROVE  Inv'
  <1>1. PICK m \in cancel.queue :
          /\ file' = [file EXCEPT ![m] = Terminalized(m)]
          /\ seen' = [seen EXCEPT !.overwrote = @ \/ file[m] # cancel.read[m]]
          /\ cancel' = [cancel EXCEPT !.queue = @ \ {m}, !.read[m] = NoFile]
    BY DEF CancelWrites, Save
  <1>2. /\ cancel \in Cancels /\ m \in Modes /\ Proper(m, cancel.read[m])
        /\ \A other \in cancel.queue : Proper(other, cancel.read[other])
    <2>1. cancel # NoCancel
      BY DEF CancelWrites, NoCancel
    <2>2. cancel \in Cancels /\ \A other \in cancel.queue : Proper(other, cancel.read[other])
      BY <2>1 DEF Inv, Cancelling
    <2>3. cancel.queue \in SUBSET Modes
      BY <2>2 DEF Cancels
    <2> QED
      BY <1>1, <2>2, <2>3
  <1>3. /\ Proper(m, Terminalized(m))
        /\ \/ Terminalized(m) = cancel.read[m]
           \/ cancel.read[m].active /\ Terminalized(m).phase = "cancelled"
        /\ Terminalized(m).active => Terminalized(m) = cancel.read[m]
    BY <1>2, TerminalizedIsProper
  <1>4. UNCHANGED <<workflow, marker, lock, run, count>>
    BY DEF CancelWrites
  <1>5. /\ file' \in [Modes -> ModeStates \cup {NoFile}]
        /\ file'[m] = Terminalized(m)
        /\ \A other \in Modes \ {m} : file'[other] = file[other]
    BY <1>1, <1>2, <1>3 DEF Inv, Files, Proper
  <1>6. /\ seen' \in History /\ seen'.overlap = seen.overlap
        /\ ~seen'.overwrote => ~seen.overwrote /\ file[m] = cancel.read[m]
    <2> DEFINE changed == file[m] # cancel.read[m]
    <2>1. seen \in History /\ seen' = [seen EXCEPT !.overwrote = seen.overwrote \/ changed]
      BY <1>1 DEF Inv, Typed
    <2>2. changed \in BOOLEAN
      OBVIOUS
    <2> HIDE DEF changed
    <2>3. /\ seen' \in History /\ seen'.overlap = seen.overlap
          /\ ~seen'.overwrote => ~seen.overwrote /\ ~changed
      BY <2>1, <2>2, Zenon DEF History
    <2> QED
      BY <2>3 DEF changed
  <1>7. Cancelling'
    <2> DEFINE queue == cancel.queue \ {m}
               read == [cancel.read EXCEPT ![m] = NoFile]
    <2>1. cancel' = [cancel EXCEPT !.queue = queue, !.read = read]
      BY <1>1, <1>2 DEF Cancels
    <2>2. /\ queue \in SUBSET Modes
          /\ read \in [Modes -> ModeStates \cup {NoFile}]
      BY <1>2 DEF Cancels
    <2>3. \A other \in queue : Proper(other, read[other])
      BY <1>2 DEF Cancels
    <2> HIDE DEF queue, read
    <2>4. cancel' \in Cancels
      BY <1>2, <2>1, <2>2, Zenon DEF Cancels
    <2>5. cancel'.queue = queue /\ cancel'.read = read /\ cancel'.unread = {}
      BY <1>2, <2>1 DEF Cancels, CancelWrites
    <2> QED
      BY <2>3, <2>4, <2>5 DEF Cancelling
  <1>8. Files' /\ Typed' /\ (\A q \in Runs : Placed(run[q])')
    BY <1>3, <1>4, <1>5, <1>6 DEF Inv, Files, Typed
  <1>9. Exclusive' /\ OneOrchestrator'
    BY <1>4, <1>6 DEF Inv, Exclusive, Locked, OneOrchestrator, Orchestrating
  <1>10. Manned'
    <2> SUFFICES ASSUME count.faults = 0, ~seen'.overwrote, NEW k \in Modes,
                        file'[k] # NoFile, file'[k].active
                 PROVE  \E q \in Runs : Tends(run[q], k)
      BY <1>4 DEF Manned
    <2>1. file'[k] = file[k]
      BY <1>3, <1>5, <1>6
    <2> QED
      BY <1>6, <2>1 DEF Inv, Manned
  <1>11. ASSUME NEW k \in Modes, ~seen'.overwrote, ~file[k].active
         PROVE  file'[k] = file[k]
    BY <1>3, <1>5, <1>6, <1>11
  <1>12. \A k \in Modes : file[k] = NoFile => k # m \/ seen'.overwrote
    BY <1>2, <1>6 DEF Proper, ModeStates, NoFile
  <1>13. RalphCompletesOverDoneUltrawork'
    <2> SUFFICES ASSUME NEW q \in Runs, run[q].mode = "ralph", run[q].result = "completed",
                        run[q].pc \in {"verify", "finish"}, ~seen'.overwrote
                 PROVE  file'["ultrawork"].phase \in {"absent", "complete"}
      BY <1>4 DEF RalphCompletesOverDoneUltrawork, At
    <2>1. file["ultrawork"].phase \in {"absent", "complete"}
      BY <1>6 DEF Inv, RalphCompletesOverDoneUltrawork, At
    <2>2. file["ultrawork"] = NoFile \/ Proper("ultrawork", file["ultrawork"])
      BY ModesDiffer DEF Inv, Files
    <2>3. file["ultrawork"] = NoFile \/ ~file["ultrawork"].active
      BY <2>1, <2>2, Phased DEF Proper, TerminalPhases
    <2> QED
      BY <1>5, <1>11, <1>12, <2>1, <2>3, ModesDiffer
  <1>14. CompleteInTime'
    <2> SUFFICES ASSUME ~seen.overlap, ~seen'.overwrote
                 PROVE  /\ file'["orchestrator"].phase = "complete" =>
                             /\ workflow.status = "completed"
                             /\ \A r \in Runs : ~Tends(run[r], "orchestrator")
                        /\ \A r \in Runs : /\ run[r].mode = "orchestrator"
                                           /\ run[r].pc \in {"release", "final"}
                                           /\ run[r].result = "completed"
                                           => workflow.status = "completed"
      BY <1>4, <1>6 DEF CompleteInTime
    <2>1. file'["orchestrator"].phase = "complete" => file["orchestrator"].phase = "complete"
      BY <1>3, <1>5, <1>6, ModesDiffer
    <2> QED
      BY <1>6, <2>1 DEF Inv, CompleteInTime
  <1> QED
    BY <1>7, <1>8, <1>9, <1>10, <1>13, <1>14 DEF Inv

-----------------------------------------------------------------------------

LEMMA InitInv == Init => Inv
  <1> SUFFICES ASSUME Init
               PROVE  Inv
    OBVIOUS
  <1>1. 0 \in 0 .. NumStages /\ 0 \in 0 .. MaxCommands /\ 0 \in 0 .. MaxCancels
        /\ 0 \in 0 .. MaxFaults
    BY ModesAssumption
  <1>2. \A r \in Runs : run[r] = Idle
    BY DEF Init
  <1>3. Typed
    BY <1>1, IdleRuns DEF Init, Typed, Workflows, History
  <1>4. Files /\ Cancelling /\ (\A m \in Modes : file[m] = NoFile)
    BY DEF Init, Files, Cancelling
  <1>5. Exclusive
    BY <1>2, IdleRuns DEF Exclusive, Locked, LockedSteps
  <1>6. Manned
    BY <1>4 DEF Manned
  <1>7. RalphCompletesOverDoneUltrawork /\ OneOrchestrator
    BY <1>2, IdleRuns DEF RalphCompletesOverDoneUltrawork, At, OneOrchestrator, Orchestrating
  <1>8. CompleteInTime
    BY <1>2, <1>4, IdleRuns, ModesDiffer DEF CompleteInTime, NoFile
  <1> QED
    BY <1>2, <1>3, <1>4, <1>5, <1>6, <1>7, <1>8, IdleRuns DEF Inv

LEMMA NextInv == Inv /\ [Next]_vars => Inv'
  <1> SUFFICES ASSUME Inv, [Next]_vars
               PROVE  Inv'
    OBVIOUS
  <1>1. CASE UNCHANGED vars
    <2>1. /\ UNCHANGED <<file, workflow, lock, run, seen>> /\ count' = count
          /\ marker' = marker /\ cancel' = cancel
      BY <1>1 DEF vars
    <2>2. Typed' /\ Cancelling'
      BY <2>1 DEF Inv, Typed, Cancelling
    <2> QED
      BY <2>1, <2>2, OthersStay DEF Inv
  <1>2. CASE Next
    BY <1>2, CommandKeeps, RunKeeps, CrashKeeps, LockGoesStaleKeeps, OperationFailsKeeps,
       CancelListsKeeps, CancelReadsKeeps, CancelWritesKeeps, CancelEndsKeeps,
       CancelFailsKeeps DEF Next
  <1> QED
    BY <1>1, <1>2

LEMMA Invariant == Spec => []Inv
  BY InitInv, NextInv, PTL DEF Spec

(* What is written to the files satisfies the contract of the mode states, *)
(* whichever processes write, die or cancel in between.                    *)
THEOREM ModesTypeCorrect == Spec => []ModesTypeOK
  <1>1. Inv => ModesTypeOK
    <2> SUFFICES ASSUME Inv
                 PROVE  ModesTypeOK
      OBVIOUS
    <2>1. ASSUME NEW m \in Modes, NEW s, Proper(m, s)
          PROVE  ValidModeState(m, s)
      BY <2>1 DEF Proper, ValidModeState
    <2>2. \A m \in Modes : \/ file[m] = NoFile
                           \/ file[m] \in ModeStates /\ ValidModeState(m, file[m])
      BY <2>1 DEF Inv, Files, Proper
    <2>3. cancel = NoCancel \/ cancel \in Cancels
      BY DEF Inv, Cancelling
    <2> QED
      BY <2>2, <2>3 DEF Inv, Typed, ModesTypeOK
  <1> QED
    BY <1>1, Invariant, PTL

(* When all the processes are idle, none of which has died, and no /cancel *)
(* has written over what had changed, no file says that a mode is active.  *)
THEOREM QuietIsInactive == Spec => []QuietMeansInactive
  <1>1. Inv => QuietMeansInactive
    <2> SUFFICES ASSUME Inv, AllIdle, count.faults = 0, ~seen.overwrote,
                        NEW m \in Modes, file[m] # NoFile
                 PROVE  ~file[m].active
      BY DEF QuietMeansInactive, Closed
    <2>1. \A r \in Runs : ~Tends(run[r], m)
      BY DEF AllIdle, At, Tends
    <2> QED
      BY <2>1 DEF Inv, Manned
  <1> QED
    BY <1>1, Invariant, PTL

(* A ralph that has found the linked ultrawork done, and finishes on that, *)
(* finishes while it is still done: the lock keeps the next ultrawork out. *)
THEOREM RalphOverDone == Spec => []RalphCompletesOverDoneUltrawork
  BY Invariant, PTL DEF Inv

(* The orchestrator's file says complete only over a workflow whose own    *)
(* state is completed, while no two /orchestrate overlap and no /cancel    *)
(* writes over what has changed.                                           *)
THEOREM CompleteIsCompleted == Spec => []CompleteMeansCompleted
  <1>1. Inv => CompleteMeansCompleted
    BY DEF Inv, CompleteInTime, CompleteMeansCompleted
  <1> QED
    BY <1>1, Invariant, PTL
=============================================================================
