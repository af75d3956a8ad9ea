------------------------------- MODULE Planning -------------------------------
(***************************************************************************)
(* The planning stage: runConsensusPlanning (planning/index.ts) as the     *)
(* orchestrator calls it, its hooks being role runs (agent-runtime.ts) of  *)
(* the scripted executor (subagent-executor.ts).                           *)
(*                                                                         *)
(* Three limits are nested: an execution that throws or outruns its timer  *)
(* is started again MaxRetries times, an output that breaks the contract   *)
(* is asked for again ContractRetries times, and a plan that is rejected   *)
(* is drafted again up to MaxIterations times.  An execution that outruns  *)
(* its timer is not stopped: it goes on beside the one that replaces it.   *)
(* What is executed may give any output its contract allows, or none.      *)
(* All calls share the files of the artifact "workflow-plan".              *)
(***************************************************************************)
EXTENDS Integers, Sequences

CONSTANTS
    Callers,          \* calls, each made once, by any session of the workspace
    Inputs,           \* of each call: the risk, and the roles that are skipped
    MaxIterations,    \* maxIterations
    ContractRetries,  \* contractRetries
    MaxRetries        \* maxRetries of the subagent request

ASSUME PlanningAssumption ==
    /\ Inputs \in [Callers -> [high : BOOLEAN, skip : SUBSET {"architect", "critic"}]]
    /\ MaxIterations \in Nat \ {0}
    /\ ContractRetries \in Nat
    /\ MaxRetries \in Nat

VARIABLES
    call,    \* the state of each call
    drafts,  \* drafts/workflow-plan-iter-<n>.json: the call that wrote it last
    notes,   \* notes/workflow-plan.md: the blocks appended to it
    plan     \* plans/workflow-plan.md

vars == <<call, drafts, notes, plan>>

-----------------------------------------------------------------------------
Iterations == 1 .. MaxIterations
Roles == {"plan", "architect", "critic"}

None == [kind |-> "none"]
Maybe(S) == {None} \cup S

(* Every output says for which iteration it was executed.  validateDraft   *)
(* finds errors in a faulty draft; a draft without any has a deliberate    *)
(* part or none.  Of the architect's review nothing is decided on.  own:   *)
(* the critic is not the default one.                                      *)
Drafts == [of : Iterations, kind : {"faulty", "plain", "deliberate"}]
Reviews == [of : Iterations]
Verdicts == [of : Iterations, decision : {"approve", "reject"}, own : BOOLEAN]

(* Why an iteration was rejected; "approve" ends the history of an         *)
(* approved plan.                                                          *)
Entries == [iteration : Iterations, why : {"critic", "draft", "contract", "approve"}]

Steps == {"idle", "role", "draft", "note", "plan", "ended"}

CallStates ==
    [pc : Steps, iteration : 0 .. MaxIterations, role : Roles,
     try : 1 .. ContractRetries + 1, attempt : 1 .. MaxRetries + 1,
     draft : Maybe(Drafts), review : Maybe(Reviews), verdict : Maybe(Verdicts),
     late : Maybe([role : Roles, of : Iterations]),
     reasons : Maybe(Entries), history : Seq(Entries),
     answer : {"none", "approved", "rejected", "failed"}]

Idle == [pc |-> "idle", iteration |-> 0, role |-> "plan", try |-> 1,
         attempt |-> 1, draft |-> None, review |-> None, verdict |-> None,
         late |-> None, reasons |-> None, history |-> <<>>, answer |-> "none"]

Notes == [by : Callers, iteration : Iterations, status : {"approved", "rejected"}]
Plans == [by : Callers, draft : Drafts, review : Reviews, verdict : Verdicts]

Init == /\ call = [c \in Callers |-> Idle]
        /\ drafts = [n \in Iterations |-> None]
        /\ notes = {}
        /\ plan = None

-----------------------------------------------------------------------------
At(c, step) == call[c].pc = step

Active(c) == call[c].pc \notin {"idle", "ended"}

Goto(c, step) == call' = [call EXCEPT ![c].pc = step]

(* An execution is awaited: its role is not one that is skipped.           *)
Executing(c) == /\ At(c, "role")
                /\ call[c].role \notin Inputs[c].skip
                /\ UNCHANGED <<drafts, notes, plan>>

(* The call returns a result.                                              *)
End(c, answer, reasons, history) ==
    call' = [call EXCEPT ![c] = [Idle EXCEPT !.pc = "ended", !.answer = answer,
                                             !.iteration = call[c].iteration,
                                             !.reasons = reasons, !.history = history]]

(* It throws.                                                              *)
Fail(c) == call' = [call EXCEPT ![c] = [Idle EXCEPT !.pc = "ended", !.answer = "failed"]]

-----------------------------------------------------------------------------
(* Role runs.                                                              *)

Begin(c) ==
    /\ At(c, "idle")
    /\ call' = [call EXCEPT ![c].pc = "role", ![c].iteration = 1]
    /\ UNCHANGED <<drafts, notes, plan>>

(* The loop's side of an output that keeps the contract.                   *)
AcceptDraft(c, draft) ==
    call' = [call EXCEPT ![c].pc = "role", ![c].draft = draft,
                         ![c].role = "architect", ![c].try = 1, ![c].attempt = 1]

AcceptReview(c, review) ==
    call' = [call EXCEPT ![c].pc = "role", ![c].review = review,
                         ![c].role = "critic", ![c].try = 1, ![c].attempt = 1]

AcceptVerdict(c, verdict) ==
    call' = [call EXCEPT ![c].pc = "draft", ![c].verdict = verdict,
                         ![c].try = 1, ![c].attempt = 1]

(* validateDraft.                                                          *)
Faulty(draft) == draft.kind = "faulty"

(* What the default critic decides on a draft.                             *)
DefaultCritic(input, draft) ==
    IF Faulty(draft) \/ (input.high /\ draft.kind # "deliberate") THEN "reject" ELSE "approve"

DefaultReview(c) ==
    /\ At(c, "role")
    /\ call[c].role \in Inputs[c].skip
    /\ \/ call[c].role = "architect" /\ AcceptReview(c, [of |-> call[c].iteration])
       \/ /\ call[c].role = "critic"
          /\ AcceptVerdict(c, [of |-> call[c].iteration, own |-> FALSE,
                               decision |-> DefaultCritic(Inputs[c], call[c].draft)])
    /\ UNCHANGED <<drafts, notes, plan>>

(* An execution that was started in iteration n for the role ends with a   *)
(* valid output, handoff and payload, and the tool policy allows its tools.*)
(* A critic that the role runs decides itself, or as the default one does. *)
Accept(c, role, n) ==
    \/ /\ role = "plan"
       /\ \E kind \in {"faulty", "plain", "deliberate"} :
             AcceptDraft(c, [of |-> n, kind |-> kind])
    \/ role = "architect" /\ AcceptReview(c, [of |-> n])
    \/ /\ role = "critic"
       /\ \E own \in BOOLEAN, decision \in {"approve", "reject"} :
             /\ ~own => decision = DefaultCritic(Inputs[c], call[c].draft)
             /\ AcceptVerdict(c, [of |-> n, decision |-> decision, own |-> own])

ValidOutput(c) == Executing(c) /\ Accept(c, call[c].role, call[c].iteration)

(* parseWithRuntimeContractRetry: the hook is called again, or the call    *)
(* answers with this entry alone.                                          *)
(* Mutant: the contract's retries are not counted.                       *)
AskAgainUncounted(c) == call' = [call EXCEPT ![c].pc = "role", ![c].attempt = 1]
AskAgain(c) == /\ call[c].try =< ContractRetries
               /\ call' = [call EXCEPT ![c].pc = "role", ![c].try = @ + 1, ![c].attempt = 1]

ContractRejected(c) ==
    LET entry == [iteration |-> call[c].iteration, why |-> "contract"]
    IN  call[c].try > ContractRetries /\ End(c, "rejected", entry, <<entry>>)

InvalidOutput(c) == Executing(c) /\ (AskAgain(c) \/ ContractRejected(c))

(* The retries of the scripted executor, all of one role run.              *)
(* Mutant: the subagent's retries are not limited.                       *)
AttemptAgainAlways(c) == call' = [call EXCEPT ![c].attempt = @ + 1]
AttemptAgain(c) == /\ call[c].attempt =< MaxRetries
                   /\ call' = [call EXCEPT ![c].attempt = @ + 1]

LastAttemptFails(c) == call[c].attempt > MaxRetries /\ Fail(c)

ExecutionThrows(c) == Executing(c) /\ (AttemptAgain(c) \/ LastAttemptFails(c))

(* The timer fires first.  Of the executions that go on the newest is kept *)
(* here; the end of an older one changes nothing either.                   *)
TimesOut(c) ==
    /\ Executing(c)
    /\ \/ /\ call[c].attempt =< MaxRetries
          /\ call' = [call EXCEPT ![c].attempt = @ + 1,
                                  ![c].late = [role |-> call[c].role,
                                               of |-> call[c].iteration]]
       \/ LastAttemptFails(c)

(* The promise that a late execution would settle has been rejected.       *)
(* Mutant: a late execution settles the role run now awaited.            *)
LateAnswerTaken(c) == /\ Executing(c)
                      /\ call[c].late # None
                      /\ call[c].late.role = call[c].role
                      /\ Accept(c, call[c].role, call[c].late.of)
LateAnswer(c) == /\ call[c].late # None
                 /\ call' = [call EXCEPT ![c].late = None]
                 /\ UNCHANGED <<drafts, notes, plan>>

(* No payload, no handoff, or a tool that the policy denies, which is      *)
(* found out after the execution; or a draft without the lists that        *)
(* validateDraft measures.  No kind of retry applies to what is thrown.    *)
RoleRunThrows(c) == Executing(c) /\ Fail(c)

-----------------------------------------------------------------------------
(* The end of an iteration: the files, then the answer or the next one.    *)

Approved(c) == call[c].verdict.decision = "approve" /\ ~Faulty(call[c].draft)

WriteDraft(c) == /\ At(c, "draft")
                 /\ drafts' = [drafts EXCEPT ![call[c].iteration] = [by |-> c]]
                 /\ Goto(c, "note")
                 /\ UNCHANGED <<notes, plan>>

(* rejectReasons.                                                          *)
Rejection(c) == [iteration |-> call[c].iteration,
                 why |-> IF call[c].verdict.decision = "reject" THEN "critic" ELSE "draft"]

(* Mutant: a rejection leaves no entry in the history.                   *)
NextIterationForgets(c) ==
    /\ call[c].iteration < MaxIterations
    /\ call' = [call EXCEPT ![c] = [Idle EXCEPT !.pc = "role", !.late = call[c].late,
                                               !.iteration = call[c].iteration + 1,
                                               !.reasons = Rejection(c)]]
NextIteration(c) ==
    /\ call[c].iteration < MaxIterations
    /\ call' = [call EXCEPT ![c].pc = "role", ![c].iteration = @ + 1, ![c].role = "plan",
                            ![c].draft = None, ![c].review = None, ![c].verdict = None,
                            ![c].reasons = Rejection(c),
                            ![c].history = Append(@, Rejection(c))]

OutOfIterations(c) == /\ call[c].iteration = MaxIterations
                      /\ End(c, "rejected", Rejection(c),
                             Append(call[c].history, Rejection(c)))

Status(c) == IF Approved(c) THEN "approved" ELSE "rejected"

Answer(c) == End(c, "approved", None,
                 Append(call[c].history, [iteration |-> call[c].iteration,
                                          why |-> "approve"]))

AppendBlock(c) ==
    /\ At(c, "note")
    /\ notes' = notes \cup {[by |-> c, iteration |-> call[c].iteration, status |-> Status(c)]}
    /\ UNCHANGED <<drafts, plan>>

AppendNote(c) ==
    /\ AppendBlock(c)
    /\ \/ Approved(c) /\ Goto(c, "plan")
       \/ ~Approved(c) /\ (NextIteration(c) \/ OutOfIterations(c))

WritePlan(c) ==
    /\ At(c, "plan")
    /\ plan' = [by |-> c, draft |-> call[c].draft, review |-> call[c].review,
                verdict |-> call[c].verdict]
    /\ Answer(c)
    /\ UNCHANGED <<drafts, notes>>

(* mkdir or writeFile throws.                                              *)
WriteFails(c) == /\ call[c].pc \in {"draft", "note", "plan"}
                 /\ Fail(c)
                 /\ UNCHANGED <<drafts, notes, plan>>

(* The process dies: nobody gets an answer.                                *)
Die(c) == /\ Active(c)
          /\ call' = [call EXCEPT ![c] = [Idle EXCEPT !.pc = "ended"]]
          /\ UNCHANGED <<drafts, notes, plan>>

-----------------------------------------------------------------------------
Step(c) == \/ DefaultReview(c) \/ ValidOutput(c) \/ InvalidOutput(c)
           \/ ExecutionThrows(c) \/ TimesOut(c) \/ RoleRunThrows(c)
           \/ WriteDraft(c) \/ AppendNote(c) \/ WritePlan(c) \/ WriteFails(c)

Next == \E c \in Callers : Begin(c) \/ Step(c) \/ LateAnswer(c) \/ Die(c)

Spec == Init /\ [][Next]_vars

(* The timer of an execution and the file operations come; whether an      *)
(* execution ever ends is left open.                                       *)
Fairness == \A c \in Callers : WF_vars(Step(c))

FairSpec == Spec /\ Fairness

-----------------------------------------------------------------------------
(* Properties.                                                             *)

PlanningTypeOK == /\ call \in [Callers -> CallStates]
                  /\ drafts \in [Iterations -> Maybe([by : Callers])]
                  /\ notes \subseteq Notes
                  /\ plan \in Maybe(Plans)

(* The plan that is kept had no faults and was approved, and both reviews  *)
(* were given in the iteration that drafted it, whatever was retried or    *)
(* came late in between, and whoever wrote the file.  Where the default    *)
(* critic decides, a plan of high risk has the deliberate part that the    *)
(* user guide asks for.                                                    *)
PlanByConsensus ==
    plan # None => /\ ~Faulty(plan.draft)
                   /\ plan.verdict.decision = "approve"
                   /\ plan.review.of = plan.draft.of
                   /\ plan.verdict.of = plan.draft.of
                   /\ Inputs[plan.by].high /\ ~plan.verdict.own =>
                         plan.draft.kind = "deliberate"

(* A draft after the first is made with the reasons of the rejection just  *)
(* before it, and every rejection so far is in the history and the notes.  *)
RejectionsKept ==
    \A c \in Callers : Active(c) =>
        LET n == call[c].iteration - 1
        IN  /\ Len(call[c].history) = n
            /\ n > 0 => call[c].reasons = call[c].history[n]
            /\ \A i \in 1 .. n :
                  /\ call[c].history[i].iteration = i
                  /\ [by |-> c, iteration |-> i, status |-> "rejected"] \in notes

(* An approval is answered only when the draft, the note and a plan have   *)
(* been written, and no call that answers a rejection, or goes on with     *)
(* another draft, has noted an approval.                                   *)
AnswerMatchesFiles ==
    \A c \in Callers :
        LET approvals == {note \in notes : note.by = c /\ note.status = "approved"}
        IN  /\ call[c].answer = "approved" =>
                  /\ plan # None
                  /\ drafts[call[c].iteration] # None
                  /\ \E note \in approvals : note.iteration = call[c].iteration
            /\ approvals # {} => call[c].pc \in {"plan", "ended"}
            /\ call[c].answer = "rejected" => approvals = {}

(* What a call knows, answers and has written agree, however often the     *)
(* others overwrite the shared draft and plan.                             *)
RecordsMatch == RejectionsKept /\ AnswerMatchesFiles

(* Every call ends although executions may hang: the nested retries are    *)
(* finite and each attempt has its timer.                                  *)
CallsReturn == \A c \in Callers : Active(c) ~> At(c, "ended")
=============================================================================
