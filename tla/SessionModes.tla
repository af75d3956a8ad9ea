----------------------------- MODULE SessionModes -----------------------------
(***************************************************************************)
(* The commands of one session as the plugin runs them: /orchestrate,      *)
(* /ultrawork, /ralph, /ulw-loop and /cancel, from several processes       *)
(* (plugin/create-plugin-interface.ts, runtime/mode-operations.ts,         *)
(* runtime/mode-state-contract.ts).                                        *)
(*                                                                         *)
(* Each mode keeps a state file of its own; the session lock is held by    *)
(* the loop of a mode, but the orchestrator's state file is also written   *)
(* before the lock is asked for and after it is given back, and /cancel    *)
(* writes all the files without any lock.  Files are replaced as a whole   *)
(* (writeTextFileAtomic), so a file operation is one step.                 *)
(*                                                                         *)
(* SessionLock opens up the lock, Workflow the loop: here a lock is free,  *)
(* held, or left behind by a dead run until it is stale, and a workflow is *)
(* the number of stages it has completed.                                  *)
(***************************************************************************)
EXTENDS Integers

CONSTANTS
    Runs,           \* processes that run commands
    Kinds,          \* the commands they run
    Targets,        \* what /cancel is given as its target
    NumStages,      \* stages of the workflow
    MaxIterations,  \* --max-iterations of ralph
    MaxCommands,    \* bound: commands given in a behaviour, /cancel aside
    MaxCancels,     \* bound: /cancel commands in a behaviour
    MaxFaults       \* bound: deaths and failing file operations in a behaviour

ASSUME ModesAssumption ==
    /\ Kinds \subseteq {"orchestrator", "ultrawork", "ralph", "ulw_loop"}
    /\ Targets \subseteq {"orchestrator", "ultrawork", "ralph"}
    /\ NumStages \in Nat \ {0}
    /\ MaxIterations \in Nat \ {0}
    /\ {MaxCommands, MaxCancels, MaxFaults} \subseteq Nat
    /\ Runs \cap {"free", "dead"} = {}

VARIABLES
    file,       \* the state file of each mode, or NoFile
    workflow,   \* workflow-state.json in the session's directory
    marker,     \* orchestrator.cancel exists
    lock,       \* who holds the session: a run, Free or Dead
    run,        \* each process and the command it runs
    cancel,     \* the process that runs /cancel
    count,      \* commands, cancels and faults so far
    seen        \* history, see History

vars == <<file, workflow, marker, lock, run, cancel, count, seen>>

-----------------------------------------------------------------------------
Modes == {"orchestrator", "ultrawork", "ralph"}

Phases(m) == CASE m = "orchestrator" -> {"starting", "stage"}
               [] m = "ultrawork" -> {"starting", "scheduling", "executing", "verifying"}
               [] m = "ralph" -> {"starting", "executing", "verifying", "fixing"}

TerminalPhases == {"complete", "failed", "cancelled"}

(* A mode state: finished stands for completedAt, iteration 0 for none.    *)
ModeStates == [active : BOOLEAN, finished : BOOLEAN, iteration : 0 .. MaxIterations,
               phase : (UNION {Phases(m) : m \in Modes}) \cup TerminalPhases]

NoFile == [phase |-> "absent"]

Active(phase, n) == [active |-> TRUE, phase |-> phase, finished |-> FALSE, iteration |-> n]

(* Mutant: completedAt is forgotten.                                       *)
TerminalUndated(phase, n) ==
    [active |-> FALSE, phase |-> phase, finished |-> FALSE, iteration |-> n]

Terminal(phase, n) == [active |-> FALSE, phase |-> phase, finished |-> TRUE, iteration |-> n]

Closed(m) == file[m] # NoFile /\ ~file[m].active

Workflows == [status : {"absent", "in_progress", "failed", "completed"}, done : 0 .. NumStages]

Free == "free"
Dead == "dead"

Steps == {"idle", "read", "starting", "acquire", "open", "check", "announce", "execute",
          "announced", "blame", "fail", "release", "final",
          "reopen", "begin", "work", "iterate", "evaluate", "verify", "finish"}

Outcomes == {"none", "completed", "cancelled", "failed"}

(* A run: chain says that ralph follows, done is its count of stages,      *)
(* phase and iteration are those of its loop.                              *)
RunStates == [pc : Steps, mode : Modes, chain : BOOLEAN, resume : BOOLEAN, result : Outcomes,
              done : 0 .. NumStages, phase : Phases("ultrawork") \cup {"complete", "fixing"},
              iteration : 0 .. MaxIterations]

Idle == [pc |-> "idle", mode |-> "orchestrator", chain |-> FALSE, resume |-> FALSE,
         result |-> "none", done |-> 0, phase |-> "starting", iteration |-> 0]

(* /cancel: the files it has yet to read, what it read, the files it has   *)
(* yet to write, whether the workflow's state file lay among them.         *)
NoCancel == [busy |-> FALSE]
Cancels == [busy : {TRUE}, target : Modes, unread : SUBSET Modes,
            read : [Modes -> ModeStates \cup {NoFile}],
            queue : SUBSET Modes, foreign : BOOLEAN]

(* History: an orchestrator command met another one that was under way; a  *)
(* /cancel wrote over a file that had changed since it was read.           *)
History == [overlap : BOOLEAN, overwrote : BOOLEAN]

Init == /\ file = [m \in Modes |-> NoFile]
        /\ workflow = [status |-> "absent", done |-> 0]
        /\ marker = FALSE
        /\ lock = Free
        /\ run = [r \in Runs |-> Idle]
        /\ cancel = NoCancel
        /\ count = [commands |-> 0, cancels |-> 0, faults |-> 0]
        /\ seen = [overlap |-> FALSE, overwrote |-> FALSE]

-----------------------------------------------------------------------------
At(r, step) == run[r].pc = step

Goto(r, step) == run' = [run EXCEPT ![r].pc = step]

End(r, step, result) == run' = [run EXCEPT ![r].pc = step, ![r].result = result]

Answer(r) == run' = [run EXCEPT ![r] = Idle]

Save(m, s) == file' = [file EXCEPT ![m] = s]

Outside == <<marker, cancel, count, seen>>

Orchestrating(r) == run[r].pc # "idle" /\ run[r].mode = "orchestrator"

(* parseRunCommand and the dispatch of run().                              *)
Command(r, kind, resume) ==
    /\ At(r, "idle")
    /\ count.commands < MaxCommands
    /\ count' = [count EXCEPT !.commands = @ + 1]
    /\ run' = [run EXCEPT ![r] =
                 [Idle EXCEPT !.pc = IF kind = "orchestrator" THEN "read" ELSE "acquire",
                              !.mode = IF kind = "ulw_loop" THEN "ultrawork" ELSE kind,
                              !.chain = (kind = "ulw_loop"),
                              !.resume = resume]]
    /\ seen' = [seen EXCEPT !.overlap =
                  @ \/ (kind = "orchestrator" /\ \E q \in Runs : Orchestrating(q))]
    /\ UNCHANGED <<file, workflow, marker, lock, cancel>>

-----------------------------------------------------------------------------
(* /orchestrate.                                                           *)

(* A resume of a terminal state returns it.                                *)
ReadModeState(r) ==
    /\ At(r, "read")
    /\ IF run[r].resume /\ Closed("orchestrator") THEN Answer(r) ELSE Goto(r, "starting")
    /\ UNCHANGED <<file, workflow, lock, Outside>>

(* The state file is taken over before the session is.                     *)
StartOrchestrator(r) == /\ At(r, "starting")
                        /\ Save("orchestrator", Active("starting", 0))
                        /\ Goto(r, "acquire")
                        /\ UNCHANGED <<workflow, lock, Outside>>

(* Mutant: denied, the orchestrator answers like the other modes.          *)
AcquireOrAnswer(r) ==
    /\ At(r, "acquire")
    /\ \/ /\ lock = Free
          /\ lock' = r
          /\ Goto(r, IF run[r].mode = "orchestrator" THEN "open" ELSE "reopen")
       \/ lock # Free /\ Answer(r) /\ UNCHANGED lock
    /\ UNCHANGED <<file, workflow, Outside>>

(* acquireSessionLock.  Denied, the orchestrator writes a failed state,    *)
(* the other modes write nothing.                                          *)
Acquire(r) ==
    /\ At(r, "acquire")
    /\ \/ /\ lock = Free
          /\ lock' = r
          /\ Goto(r, IF run[r].mode = "orchestrator" THEN "open" ELSE "reopen")
       \/ /\ lock # Free
          /\ UNCHANGED lock
          /\ IF run[r].mode = "orchestrator" THEN End(r, "final", "failed") ELSE Answer(r)
    /\ UNCHANGED <<file, workflow, Outside>>

(* runWorkflow begins: a fresh run removes the marker, a resumed one reads *)
(* the workflow's state.                                                   *)
OpenFresh(r) == /\ At(r, "open")
                /\ ~run[r].resume
                /\ marker' = FALSE
                /\ Goto(r, "check")
                /\ UNCHANGED <<file, workflow, lock, cancel, count, seen>>

OpenResumed(r) ==
    /\ At(r, "open")
    /\ run[r].resume
    /\ IF workflow.status = "completed" THEN End(r, "release", "completed")
       ELSE run' = [run EXCEPT ![r].pc = "check", ![r].done = workflow.done]
    /\ UNCHANGED <<file, workflow, lock, Outside>>

(* The top of the loop, up to the write of the workflow's state: the       *)
(* budget may be spent, the marker may be there.                           *)
CheckStage(r) ==
    /\ At(r, "check")
    /\ \/ /\ run[r].done = NumStages
          /\ workflow' = [status |-> "completed", done |-> NumStages]
          /\ End(r, "release", "completed")
       \/ /\ run[r].done < NumStages
          /\ workflow' = [status |-> "failed", done |-> run[r].done]
          /\ End(r, "release", "failed")
       \/ /\ run[r].done < NumStages
          /\ marker
          /\ workflow' = [status |-> "failed", done |-> run[r].done]
          /\ End(r, "release", "cancelled")
       \/ /\ run[r].done < NumStages
          /\ ~marker
          /\ workflow' = [status |-> "in_progress", done |-> run[r].done]
          /\ Goto(r, "announce")
    /\ UNCHANGED <<file, lock, Outside>>

(* onStageTransition "starting".                                           *)
AnnounceStage(r) == /\ At(r, "announce")
                    /\ Save("orchestrator", Active("stage", 0))
                    /\ Goto(r, "execute")
                    /\ UNCHANGED <<workflow, lock, Outside>>

(* The executor completes, and its answer is written; or it fails; or the  *)
(* budget is spent, which is written first; or it throws, which ends in    *)
(* the plugin's catch.                                                     *)
ExecuteStage(r) ==
    /\ At(r, "execute")
    /\ \/ /\ workflow' = [status |-> "in_progress", done |-> run[r].done + 1]
          /\ run' = [run EXCEPT ![r].pc = "announced", ![r].done = @ + 1]
       \/ Goto(r, "blame") /\ UNCHANGED workflow
       \/ /\ workflow' = [status |-> "failed", done |-> run[r].done]
          /\ End(r, "blame", "failed")
       \/ End(r, "release", "failed") /\ UNCHANGED workflow
    /\ UNCHANGED <<file, lock, Outside>>

(* onStageTransition "completed".                                          *)
AnnounceCompleted(r) == /\ At(r, "announced")
                        /\ Save("orchestrator", Active("stage", 0))
                        /\ Goto(r, "check")
                        /\ UNCHANGED <<workflow, lock, Outside>>

(* onStageTransition "failed" comes before the workflow's own state, and   *)
(* after it when the budget is spent.                                      *)
AnnounceFailed(r) == /\ At(r, "blame")
                     /\ Save("orchestrator", Terminal("failed", 0))
                     /\ Goto(r, IF run[r].result = "failed" THEN "release" ELSE "fail")
                     /\ UNCHANGED <<workflow, lock, Outside>>

FailStage(r) == /\ At(r, "fail")
                /\ workflow' = [status |-> "failed", done |-> run[r].done]
                /\ End(r, "release", "failed")
                /\ UNCHANGED <<file, lock, Outside>>

(* Mutant: the result is not looked at.                                    *)
FinalComplete(r) == /\ At(r, "final")
                    /\ Save("orchestrator", Terminal("complete", 0))
                    /\ Answer(r)
                    /\ UNCHANGED <<workflow, lock, Outside>>

(* The last write of run(), after the session has been given back.         *)
Final(r) ==
    /\ At(r, "final")
    /\ Save("orchestrator",
            Terminal(IF run[r].result = "completed" THEN "complete" ELSE run[r].result, 0))
    /\ Answer(r)
    /\ UNCHANGED <<workflow, lock, Outside>>

-----------------------------------------------------------------------------
(* runModeOperation: ultrawork and ralph.                                  *)

(* statusFromTerminalPhase: what is not failed counts as completed.        *)
StatusOf(phase) == IF phase = "failed" THEN "failed" ELSE "completed"

ReopenMode(r) ==
    /\ At(r, "reopen")
    /\ LET m == run[r].mode IN
       IF run[r].resume /\ Closed(m) THEN End(r, "release", StatusOf(file[m].phase))
                                     ELSE Goto(r, "begin")
    /\ UNCHANGED <<file, workflow, lock, Outside>>

BeginMode(r) ==
    /\ At(r, "begin")
    /\ \/ /\ run[r].mode = "ultrawork"
          /\ Save("ultrawork", Active("starting", 0))
          /\ Goto(r, "work")
       \/ /\ run[r].mode = "ralph"
          /\ Save("ralph", Active("starting", 1))
          /\ run' = [run EXCEPT ![r].pc = "iterate", ![r].phase = "executing",
                                ![r].iteration = 1]
    /\ UNCHANGED <<workflow, lock, Outside>>

(* The tasks of an ultrawork run only answer, so that it never fails.      *)
PhaseAfter == [starting |-> "scheduling", scheduling |-> "executing",
               executing |-> "verifying", verifying |-> "complete"]

Ultrawork(r) ==
    /\ At(r, "work")
    /\ LET next == PhaseAfter[run[r].phase] IN
       IF next = "complete"
       THEN Save("ultrawork", Terminal("complete", 0)) /\ End(r, "release", "completed")
       ELSE Save("ultrawork", Active(next, 0)) /\ run' = [run EXCEPT ![r].phase = next]
    /\ UNCHANGED <<workflow, lock, Outside>>

(* runRalphLoop: one iteration after the other, up to the limit.           *)
NextIteration(r, phase) ==
    LET n == run[r].iteration IN
    \/ /\ n < MaxIterations
       /\ run' = [run EXCEPT ![r].pc = "iterate", ![r].phase = phase, ![r].iteration = n + 1]
    \/ n = MaxIterations /\ End(r, "finish", "failed")

(* An iteration is "fixing" when an earlier one has come to its end.       *)
Iterate(r) ==
    /\ At(r, "iterate")
    /\ Save("ralph", Active(run[r].phase, run[r].iteration))
    /\ Goto(r, "evaluate")
    /\ UNCHANGED <<workflow, lock, Outside>>

(* Mutant: an ultrawork that is active counts as done.                     *)
TodosNotBroken == file["ultrawork"].phase \notin {"failed", "cancelled"}

(* evaluateRalphSignals: the linked ultrawork, and what npm and the review *)
(* say.  No ralph-signals.json, with which a user overrules them, is there.*)
TodosDone == \/ file["ultrawork"] = NoFile
             \/ ~file["ultrawork"].active /\ file["ultrawork"].phase \notin {"failed", "cancelled"}

Evaluate(r) ==
    /\ At(r, "evaluate")
    /\ \E others \in BOOLEAN :
          End(r, "verify", IF TodosDone /\ others THEN "completed" ELSE "none")
    /\ UNCHANGED <<file, workflow, lock, Outside>>

(* The loop takes an iteration that throws for one that is not complete.   *)
IterationThrows(r) == /\ At(r, "evaluate")
                      /\ NextIteration(r, run[r].phase)
                      /\ UNCHANGED <<file, workflow, lock, Outside>>

(* The rest of an iteration, and isRalphComplete.                          *)
VerifyIteration(r) ==
    /\ At(r, "verify")
    /\ Save("ralph", Active("verifying", run[r].iteration))
    /\ IF run[r].result = "completed" THEN Goto(r, "finish") ELSE NextIteration(r, "fixing")
    /\ UNCHANGED <<workflow, lock, Outside>>

FinishRalph(r) ==
    /\ At(r, "finish")
    /\ Save("ralph", Terminal(IF run[r].result = "completed" THEN "complete" ELSE "failed",
                              run[r].iteration))
    /\ Goto(r, "release")
    /\ UNCHANGED <<workflow, lock, Outside>>

(* release in the finally; ralph follows a completed ultrawork of /ulw-loop.*)
Release(r) ==
    /\ At(r, "release")
    /\ lock' = IF lock = r THEN Free ELSE lock
    /\ \/ run[r].mode = "orchestrator" /\ Goto(r, "final")
       \/ /\ run[r].mode # "orchestrator"
          /\ IF run[r].chain /\ run[r].result = "completed"
             THEN run' = [run EXCEPT ![r] = [Idle EXCEPT !.pc = "acquire", !.mode = "ralph",
                                                         !.resume = run[r].resume]]
             ELSE Answer(r)
    /\ UNCHANGED <<file, workflow, Outside>>

-----------------------------------------------------------------------------
(* The process dies; its lock file stays until it is stale.                *)
Crash(r) == /\ ~At(r, "idle")
            /\ count.faults < MaxFaults
            /\ count' = [count EXCEPT !.faults = @ + 1]
            /\ lock' = IF lock = r THEN Dead ELSE lock
            /\ Answer(r)
            /\ UNCHANGED <<file, workflow, marker, cancel, seen>>

(* A file operation fails, and the code throws.  The lock is given back on *)
(* the way (the finally of runWorkflow and runModeOperation); an iteration *)
(* of ralph that throws is one that is not complete; outside runWorkflow   *)
(* nothing catches it, and the mode's file stays as it is.                 *)
Throw(r) ==
    \/ run[r].pc \in {"read", "starting", "final"} /\ Answer(r)
    \/ /\ run[r].pc \in {"open", "check", "announce", "announced", "blame", "fail",
                         "reopen", "begin", "work", "finish"}
       /\ End(r, "release", "failed")
    \/ run[r].pc \in {"iterate", "verify"} /\ NextIteration(r, run[r].phase)

(* acquireSessionLock throws, and may leave the file it created behind.    *)
AcquireThrows(r) ==
    /\ At(r, "acquire")
    /\ lock' = lock \/ (lock = Free /\ lock' = Dead)
    /\ IF run[r].mode = "orchestrator" THEN End(r, "final", "failed") ELSE Answer(r)

OperationFails(r) ==
    /\ count.faults < MaxFaults
    /\ count' = [count EXCEPT !.faults = @ + 1]
    /\ AcquireThrows(r) \/ (Throw(r) /\ UNCHANGED lock)
    /\ UNCHANGED <<file, workflow, marker, cancel, seen>>

LockGoesStale == /\ lock = Dead
                 /\ lock' = Free
                 /\ UNCHANGED <<file, workflow, run, Outside>>

-----------------------------------------------------------------------------
(* /cancel: cancelModeOperation.                                           *)

(* resolveCancellationOrder, for states without linkedMode, which no       *)
(* command writes.                                                         *)
Cancelled(m) == cancel.target \in {"orchestrator", m}

(* terminalizeState.                                                       *)
Terminalized(m) == LET s == cancel.read[m] IN
                   IF Cancelled(m) /\ s.active
                   THEN [s EXCEPT !.active = FALSE, !.phase = "cancelled", !.finished = TRUE]
                   ELSE s

(* resolveSessionStates lists every file of the directory whose name ends  *)
(* in -state.json, in the order of their names: workflow-state.json, which *)
(* is not a mode state, comes last.                                        *)
Order == [orchestrator |-> 1, ralph |-> 2, ultrawork |-> 3]

CancelLists(target) ==
    /\ cancel = NoCancel
    /\ count.cancels < MaxCancels
    /\ count' = [count EXCEPT !.cancels = @ + 1]
    /\ cancel' = [busy |-> TRUE, target |-> target,
                  unread |-> {m \in Modes : file[m] # NoFile},
                  read |-> [m \in Modes |-> NoFile], queue |-> {},
                  foreign |-> workflow.status # "absent"]
    /\ UNCHANGED <<file, workflow, marker, lock, run, seen>>

(* The files are read at once (Promise.all), each in its own time.         *)
CancelReads(m) ==
    /\ cancel.busy
    /\ m \in cancel.unread
    /\ cancel' = [cancel EXCEPT !.unread = @ \ {m}, !.read[m] = file[m],
                                !.queue = @ \cup {m}]
    /\ UNCHANGED <<file, workflow, marker, lock, run, count, seen>>

(* persistSessionStates: every state that was read is written back.        *)
CancelWrites ==
    /\ cancel.busy
    /\ cancel.unread = {}
    /\ \E m \in cancel.queue :
          /\ \A other \in cancel.queue : Order[m] =< Order[other]
          /\ Save(m, Terminalized(m))
          /\ seen' = [seen EXCEPT !.overwrote = @ \/ file[m] # cancel.read[m]]
          /\ cancel' = [cancel EXCEPT !.queue = @ \ {m}, !.read[m] = NoFile]
    /\ UNCHANGED <<workflow, marker, lock, run, count>>

(* The state without a session id has no path: persistSessionStates throws *)
(* at it, before the marker.                                               *)
CancelEnds ==
    /\ cancel.busy
    /\ cancel.unread = {} /\ cancel.queue = {}
    /\ marker' = (marker \/ (~cancel.foreign /\ cancel.target = "orchestrator"))
    /\ cancel' = NoCancel
    /\ UNCHANGED <<file, workflow, lock, run, count, seen>>

(* A read or a write of /cancel fails, or its process dies.                *)
CancelFails ==
    /\ cancel.busy
    /\ count.faults < MaxFaults
    /\ count' = [count EXCEPT !.faults = @ + 1]
    /\ cancel' = NoCancel
    /\ UNCHANGED <<file, workflow, marker, lock, run, seen>>

-----------------------------------------------------------------------------
Orchestrate(r) ==
    \/ ReadModeState(r) \/ StartOrchestrator(r) \/ OpenFresh(r) \/ OpenResumed(r)
    \/ CheckStage(r) \/ AnnounceStage(r) \/ ExecuteStage(r) \/ AnnounceCompleted(r)
    \/ AnnounceFailed(r) \/ FailStage(r) \/ Final(r)

RunMode(r) ==
    \/ ReopenMode(r) \/ BeginMode(r) \/ Ultrawork(r)
    \/ Iterate(r) \/ Evaluate(r) \/ IterationThrows(r) \/ VerifyIteration(r) \/ FinishRalph(r)

Run(r) == Acquire(r) \/ Orchestrate(r) \/ RunMode(r) \/ Release(r)

Next == \/ \E r \in Runs, kind \in Kinds, resume \in BOOLEAN : Command(r, kind, resume)
        \/ \E r \in Runs : Run(r) \/ Crash(r) \/ OperationFails(r)
        \/ LockGoesStale
        \/ \E target \in Targets : CancelLists(target)
        \/ \E m \in Modes : CancelReads(m)
        \/ CancelWrites \/ CancelEnds \/ CancelFails

Spec == Init /\ [][Next]_vars

-----------------------------------------------------------------------------
(* Properties.                                                             *)

(* validateModeStateContract, as far as the fields are kept here.          *)
ValidModeState(m, s) ==
    /\ s.phase \in Phases(m) \cup TerminalPhases
    /\ s.phase \in TerminalPhases => ~s.active /\ s.finished
    /\ s.active => ~s.finished
    /\ m = "ralph" /\ s.active => s.iteration > 0

(* Type correctness, and the contract of the mode states for every file.   *)
ModesTypeOK ==
    /\ \A m \in Modes : \/ file[m] = NoFile
                        \/ file[m] \in ModeStates /\ ValidModeState(m, file[m])
    /\ workflow \in Workflows
    /\ marker \in BOOLEAN
    /\ lock \in Runs \cup {Free, Dead}
    /\ run \in [Runs -> RunStates]
    /\ cancel = NoCancel \/ cancel \in Cancels
    /\ count \in [commands : 0 .. MaxCommands, cancels : 0 .. MaxCancels,
                  faults : 0 .. MaxFaults]
    /\ seen \in History

AllIdle == \A r \in Runs : At(r, "idle")

(* When nothing runs, no file says that something does, however commands   *)
(* overlapped and were denied or cancelled: an active state is left behind *)
(* only by a process that died or whose own file operation failed, or by a *)
(* /cancel that wrote back what had changed since it was read.             *)
QuietMeansInactive ==
    AllIdle /\ count.faults = 0 /\ ~seen.overwrote =>
        \A m \in Modes : file[m] # NoFile => Closed(m)

(* Ralph is completed over an ultrawork that is complete, or was never     *)
(* run, at the moment it finishes and not only when it looked.             *)
RalphCompletesOverDoneUltrawork ==
    \A r \in Runs : /\ run[r].mode = "ralph"
                    /\ run[r].result = "completed"
                    /\ At(r, "verify") \/ At(r, "finish")
                    /\ ~seen.overwrote
                    => file["ultrawork"].phase \in {"absent", "complete"}

(* A state file that says complete, which a resume takes for the answer,   *)
(* is right about the workflow's own state, unless /orchestrate commands   *)
(* overlapped or a /cancel wrote back what had changed.                    *)
CompleteMeansCompleted ==
    file["orchestrator"].phase = "complete" /\ ~seen.overlap /\ ~seen.overwrote
        => workflow.status = "completed"

(* ARCHITECTURE.md: cancel cancels the target mode.  When a /cancel of the *)
(* orchestrator is over, the workflow that is under way finds the marker   *)
(* before its next stage.                                                  *)
CancelTakesEffect ==
    [][/\ cancel.busy /\ ~cancel'.busy
       /\ cancel.target = "orchestrator"
       /\ \E r \in Runs : lock = r /\ Orchestrating(r)
       => marker']_vars

(* user-guide.md: the session lock blocks concurrent runs of a session.    *)
(* What a run that is blocked does must not turn the state file of the     *)
(* workflow that is under way to a terminal one, for a later resume to     *)
(* take for the answer.                                                    *)
WorkingStaysActive ==
    (\E r \in Runs : At(r, "execute")) => ~Closed("orchestrator")
=============================================================================
