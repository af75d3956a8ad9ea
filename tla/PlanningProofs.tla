---------------------------- MODULE PlanningProofs ----------------------------
(***************************************************************************)
(* Proofs about Planning, for any callers and inputs and any of its three  *)
(* limits.                                                                 *)
(***************************************************************************)
EXTENDS Planning, SequenceTheorems, TLAPS

(* What has been accepted in this iteration was executed for it, and the   *)
(* default critic has decided by its rule.                                 *)
Drafted(c) == call[c].draft \in Drafts /\ call[c].draft.of = call[c].iteration

Reviewed(c) == call[c].review \in Reviews /\ call[c].review.of = call[c].iteration

Judged(c) ==
    /\ call[c].verdict \in Verdicts /\ call[c].verdict.of = call[c].iteration
    /\ ~call[c].verdict.own =>
          call[c].verdict.decision = DefaultCritic(Inputs[c], call[c].draft)

(* What a call holds at each of its places.                                *)
Staged(c) ==
    /\ call[c].pc = "idle" => call[c].history = <<>> /\ call[c].role = "plan"
    /\ Active(c) => call[c].iteration \in Iterations
    /\ call[c].pc # "ended" => call[c].answer = "none"
    /\ call[c].pc = "role" => /\ call[c].role # "plan" => Drafted(c)
                              /\ call[c].role = "critic" => Reviewed(c)
    /\ call[c].pc \in {"draft", "note", "plan"} => Drafted(c) /\ Reviewed(c) /\ Judged(c)
    /\ call[c].pc \in {"note", "plan"} => drafts[call[c].iteration] # None
    /\ call[c].pc = "plan" =>
          /\ Approved(c)
          /\ [by |-> c, iteration |-> call[c].iteration, status |-> "approved"] \in notes

(* RejectionsKept, of one call.                                            *)
Told(c) ==
    Active(c) =>
        /\ Len(call[c].history) = call[c].iteration - 1
        /\ call[c].iteration > 1 => call[c].reasons = call[c].history[call[c].iteration - 1]
        /\ \A i \in 1 .. call[c].iteration - 1 :
              /\ call[c].history[i].iteration = i
              /\ [by |-> c, iteration |-> i, status |-> "rejected"] \in notes

NoApproval(c) == \A note \in notes : ~(note.by = c /\ note.status = "approved")

(* AnswerMatchesFiles, of one call.                                        *)
Filed(c) ==
    /\ call[c].answer = "approved" =>
          /\ plan # None
          /\ call[c].iteration \in Iterations
          /\ drafts[call[c].iteration] # None
          /\ [by |-> c, iteration |-> call[c].iteration, status |-> "approved"] \in notes
    /\ call[c].pc \notin {"plan", "ended"} => NoApproval(c)
    /\ call[c].answer = "rejected" => NoApproval(c)

Inv == /\ PlanningTypeOK
       /\ PlanByConsensus
       /\ \A c \in Callers : Staged(c) /\ Told(c) /\ Filed(c)

-----------------------------------------------------------------------------
(* What the actions set, field by field.                                   *)

Own(c) == \A d \in Callers \ {c} : call'[d] = call[d]

Set(c) == call' \in [Callers -> CallStates] /\ Own(c)

(* The records of a call, of which no step of a role run changes any.      *)
SameRecords(c) == /\ call'[c].iteration = call[c].iteration
                  /\ call'[c].reasons = call[c].reasons
                  /\ call'[c].history = call[c].history
                  /\ call'[c].answer = call[c].answer

SameOutputs(c) == /\ call'[c].draft = call[c].draft
                  /\ call'[c].review = call[c].review
                  /\ call'[c].verdict = call[c].verdict

LEMMA Limits ==
    /\ 1 \in 1 .. ContractRetries + 1 /\ 1 \in 1 .. MaxRetries + 1
    /\ 1 \in Iterations /\ 1 \in 0 .. MaxIterations /\ 0 \in 0 .. MaxIterations
  BY PlanningAssumption DEF Iterations

LEMMA Setting ==
    ASSUME PlanningTypeOK, NEW c \in Callers, NEW r \in CallStates,
           call' = [call EXCEPT ![c] = r]
    PROVE  Set(c) /\ call'[c] = r
  BY DEF PlanningTypeOK, Set, Own

LEMMA GotoSets ==
    ASSUME PlanningTypeOK, NEW c \in Callers, NEW step \in Steps, Goto(c, step)
    PROVE  /\ Set(c) /\ SameRecords(c) /\ SameOutputs(c)
           /\ call'[c].pc = step /\ call'[c].role = call[c].role
  <1>1. call \in [Callers -> CallStates]
    BY DEF PlanningTypeOK
  <1> DEFINE r == [call[c] EXCEPT !.pc = step]
  <1>2. r \in CallStates
    BY <1>1, Zenon DEF CallStates
  <1>3. call' = [call EXCEPT ![c] = r]
    BY DEF Goto
  <1>4. /\ r.pc = step /\ r.role = call[c].role
        /\ r.iteration = call[c].iteration /\ r.reasons = call[c].reasons
        /\ r.history = call[c].history /\ r.answer = call[c].answer
        /\ r.draft = call[c].draft /\ r.review = call[c].review
        /\ r.verdict = call[c].verdict
    BY <1>1 DEF CallStates
  <1> HIDE DEF r
  <1>5. Set(c) /\ call'[c] = r
    BY <1>2, <1>3, Setting
  <1> QED
    BY <1>4, <1>5 DEF SameRecords, SameOutputs

LEMMA AcceptDraftSets ==
    ASSUME PlanningTypeOK, NEW c \in Callers, NEW draft \in Drafts, AcceptDraft(c, draft)
    PROVE  /\ Set(c) /\ SameRecords(c)
           /\ call'[c].pc = "role" /\ call'[c].role = "architect"
           /\ call'[c].draft = draft
  <1>1. call \in [Callers -> CallStates]
    BY DEF PlanningTypeOK
  <1> DEFINE r == [call[c] EXCEPT !.pc = "role", !.draft = draft, !.role = "architect",
                                  !.try = 1, !.attempt = 1]
  <1>2. r \in CallStates
    <2>1. "role" \in Steps /\ "architect" \in Roles /\ draft \in Maybe(Drafts)
      BY DEF Steps, Roles, Maybe
    <2> QED
      BY <1>1, <2>1, Limits, Zenon DEF CallStates
  <1>3. call' = [call EXCEPT ![c] = r]
    BY <1>1 DEF AcceptDraft
  <1>4. /\ r.pc = "role" /\ r.role = "architect" /\ r.draft = draft
        /\ r.iteration = call[c].iteration /\ r.reasons = call[c].reasons
        /\ r.history = call[c].history /\ r.answer = call[c].answer
    BY <1>1 DEF CallStates
  <1> HIDE DEF r
  <1>5. Set(c) /\ call'[c] = r
    BY <1>2, <1>3, Setting
  <1> QED
    BY <1>4, <1>5 DEF SameRecords

LEMMA AcceptReviewSets ==
    ASSUME PlanningTypeOK, NEW c \in Callers, NEW review \in Reviews, AcceptReview(c, review)
    PROVE  /\ Set(c) /\ SameRecords(c)
           /\ call'[c].pc = "role" /\ call'[c].role = "critic"
           /\ call'[c].draft = call[c].draft /\ call'[c].review = review
  <1>1. call \in [Callers -> CallStates]
    BY DEF PlanningTypeOK
  <1> DEFINE r == [call[c] EXCEPT !.pc = "role", !.review = review, !.role = "critic",
                                  !.try = 1, !.attempt = 1]
  <1>2. r \in CallStates
    <2>1. "role" \in Steps /\ "critic" \in Roles /\ review \in Maybe(Reviews)
      BY DEF Steps, Roles, Maybe
    <2> QED
      BY <1>1, <2>1, Limits, Zenon DEF CallStates
  <1>3. call' = [call EXCEPT ![c] = r]
    BY <1>1 DEF AcceptReview
  <1>4. /\ r.pc = "role" /\ r.role = "critic" /\ r.review = review
        /\ r.draft = call[c].draft
        /\ r.iteration = call[c].iteration /\ r.reasons = call[c].reasons
        /\ r.history = call[c].history /\ r.answer = call[c].answer
    BY <1>1 DEF CallStates
  <1> HIDE DEF r
  <1>5. Set(c) /\ call'[c] = r
    BY <1>2, <1>3, Setting
  <1> QED
    BY <1>4, <1>5 DEF SameRecords

LEMMA AcceptVerdictSets ==
    ASSUME PlanningTypeOK, NEW c \in Callers, NEW verdict \in Verdicts,
           AcceptVerdict(c, verdict)
    PROVE  /\ Set(c) /\ SameRecords(c)
           /\ call'[c].pc = "draft" /\ call'[c].verdict = verdict
           /\ call'[c].draft = call[c].draft /\ call'[c].review = call[c].review
  <1>1. call \in [Callers -> CallStates]
    BY DEF PlanningTypeOK
  <1> DEFINE r == [call[c] EXCEPT !.pc = "draft", !.verdict = verdict,
                                  !.try = 1, !.attempt = 1]
  <1>2. r \in CallStates
    <2>1. "draft" \in Steps /\ verdict \in Maybe(Verdicts)
      BY DEF Steps, Maybe
    <2> QED
      BY <1>1, <2>1, Limits, Zenon DEF CallStates
  <1>3. call' = [call EXCEPT ![c] = r]
    BY <1>1 DEF AcceptVerdict
  <1>4. /\ r.pc = "draft" /\ r.verdict = verdict
        /\ r.draft = call[c].draft /\ r.review = call[c].review
        /\ r.iteration = call[c].iteration /\ r.reasons = call[c].reasons
        /\ r.history = call[c].history /\ r.answer = call[c].answer
    BY <1>1 DEF CallStates
  <1> HIDE DEF r
  <1>5. Set(c) /\ call'[c] = r
    BY <1>2, <1>3, Setting
  <1> QED
    BY <1>4, <1>5 DEF SameRecords

(* A role run that is awaited again.                                       *)
LEMMA AgainShape ==
    ASSUME call \in [Callers -> CallStates], NEW c \in Callers,
           NEW try \in 1 .. ContractRetries + 1, NEW attempt \in 1 .. MaxRetries + 1,
           NEW late \in Maybe([role : Roles, of : Iterations])
    PROVE  /\ [call[c] EXCEPT !.pc = "role", !.try = try, !.attempt = attempt] \in CallStates
           /\ [call[c] EXCEPT !.attempt = attempt] \in CallStates
           /\ [call[c] EXCEPT !.attempt = attempt, !.late = late] \in CallStates
           /\ [call[c] EXCEPT !.late = late] \in CallStates
  <1>1. "role" \in Steps
    BY DEF Steps
  <1> QED
    BY <1>1, Zenon DEF CallStates

Again(c) ==
    /\ Set(c) /\ SameRecords(c) /\ SameOutputs(c)
    /\ call'[c].pc = "role" /\ call'[c].role = call[c].role

LEMMA AgainSets ==
    ASSUME PlanningTypeOK, NEW c \in Callers, NEW r \in CallStates,
           call' = [call EXCEPT ![c] = r],
           r.pc = "role", r.role = call[c].role,
           r.iteration = call[c].iteration, r.reasons = call[c].reasons,
           r.history = call[c].history, r.answer = call[c].answer,
           r.draft = call[c].draft, r.review = call[c].review, r.verdict = call[c].verdict
    PROVE  Again(c)
  BY Setting DEF Again, SameRecords, SameOutputs

LEMMA AskAgainSets ==
    ASSUME PlanningTypeOK, NEW c \in Callers, AskAgain(c)
    PROVE  Again(c)
  <1>1. call \in [Callers -> CallStates]
    BY DEF PlanningTypeOK
  <1>2. call[c].try \in 1 .. ContractRetries + 1
    BY <1>1, PlanningAssumption DEF CallStates
  <1>3. PICK try \in 1 .. ContractRetries + 1 : try = call[c].try + 1
    BY <1>2, PlanningAssumption DEF AskAgain
  <1> DEFINE r == [call[c] EXCEPT !.pc = "role", !.try = try, !.attempt = 1]
  <1>4. r \in CallStates
    BY <1>1, Limits, AgainShape, Zenon DEF Maybe
  <1>5. call' = [call EXCEPT ![c] = r]
    BY <1>1, <1>3 DEF AskAgain
  <1>6. /\ r.pc = "role" /\ r.role = call[c].role
        /\ r.iteration = call[c].iteration /\ r.reasons = call[c].reasons
        /\ r.history = call[c].history /\ r.answer = call[c].answer
        /\ r.draft = call[c].draft /\ r.review = call[c].review
        /\ r.verdict = call[c].verdict
    BY <1>1 DEF CallStates
  <1> HIDE DEF r
  <1> QED
    BY <1>4, <1>5, <1>6, AgainSets

LEMMA AttemptAgainSets ==
    ASSUME PlanningTypeOK, NEW c \in Callers, At(c, "role"), AttemptAgain(c)
    PROVE  Again(c)
  <1>1. call \in [Callers -> CallStates]
    BY DEF PlanningTypeOK
  <1>2. call[c].attempt \in 1 .. MaxRetries + 1
    BY <1>1, PlanningAssumption DEF CallStates
  <1>3. PICK attempt \in 1 .. MaxRetries + 1 : attempt = call[c].attempt + 1
    BY <1>2, PlanningAssumption DEF AttemptAgain
  <1> DEFINE r == [call[c] EXCEPT !.attempt = attempt]
  <1>4. r \in CallStates
    BY <1>1, Limits, AgainShape, Zenon DEF Maybe
  <1>5. call' = [call EXCEPT ![c] = r]
    BY <1>1, <1>3 DEF AttemptAgain
  <1>6. /\ r.pc = "role" /\ r.role = call[c].role
        /\ r.iteration = call[c].iteration /\ r.reasons = call[c].reasons
        /\ r.history = call[c].history /\ r.answer = call[c].answer
        /\ r.draft = call[c].draft /\ r.review = call[c].review
        /\ r.verdict = call[c].verdict
    BY <1>1 DEF CallStates, At
  <1> HIDE DEF r
  <1> QED
    BY <1>4, <1>5, <1>6, AgainSets

LEMMA TimesOutSets ==
    ASSUME PlanningTypeOK, NEW c \in Callers, At(c, "role"), TimesOut(c),
           call[c].iteration \in Iterations, ~LastAttemptFails(c)
    PROVE  Again(c)
  <1>1. call \in [Callers -> CallStates]
    BY DEF PlanningTypeOK
  <1>2. call[c].attempt \in 1 .. MaxRetries + 1 /\ call[c].role \in Roles
    BY <1>1, PlanningAssumption DEF CallStates
  <1>3. /\ call[c].attempt =< MaxRetries
        /\ call' = [call EXCEPT ![c].attempt = @ + 1,
                                ![c].late = [role |-> call[c].role,
                                             of |-> call[c].iteration]]
    BY DEF TimesOut
  <1>4. PICK attempt \in 1 .. MaxRetries + 1 : attempt = call[c].attempt + 1
    BY <1>2, <1>3, PlanningAssumption
  <1>5. PICK late \in Maybe([role : Roles, of : Iterations]) :
           late = [role |-> call[c].role, of |-> call[c].iteration]
    BY <1>2 DEF Maybe
  <1> DEFINE r == [call[c] EXCEPT !.attempt = attempt, !.late = late]
  <1>6. r \in CallStates
    BY <1>1, AgainShape, Limits, Zenon
  <1>7. call' = [call EXCEPT ![c] = r]
    BY <1>1, <1>3, <1>4, <1>5
  <1>8. /\ r.pc = "role" /\ r.role = call[c].role
        /\ r.iteration = call[c].iteration /\ r.reasons = call[c].reasons
        /\ r.history = call[c].history /\ r.answer = call[c].answer
        /\ r.draft = call[c].draft /\ r.review = call[c].review
        /\ r.verdict = call[c].verdict
    BY <1>1 DEF CallStates, At
  <1> HIDE DEF r
  <1> QED
    BY <1>6, <1>7, <1>8, AgainSets

LEMMA LateAnswerSets ==
    ASSUME PlanningTypeOK, NEW c \in Callers, LateAnswer(c)
    PROVE  /\ Set(c) /\ SameRecords(c) /\ SameOutputs(c)
           /\ call'[c].pc = call[c].pc /\ call'[c].role = call[c].role
  <1>1. call \in [Callers -> CallStates] /\ None \in Maybe([role : Roles, of : Iterations])
    BY DEF PlanningTypeOK, Maybe
  <1> DEFINE r == [call[c] EXCEPT !.late = None]
  <1>2. r \in CallStates
    BY <1>1, AgainShape, Limits, Zenon
  <1>3. call' = [call EXCEPT ![c] = r]
    BY <1>1 DEF LateAnswer
  <1>4. /\ r.pc = call[c].pc /\ r.role = call[c].role
        /\ r.iteration = call[c].iteration /\ r.reasons = call[c].reasons
        /\ r.history = call[c].history /\ r.answer = call[c].answer
        /\ r.draft = call[c].draft /\ r.review = call[c].review
        /\ r.verdict = call[c].verdict
    BY <1>1 DEF CallStates
  <1> HIDE DEF r
  <1>5. Set(c) /\ call'[c] = r
    BY <1>2, <1>3, Setting
  <1> QED
    BY <1>4, <1>5 DEF SameRecords, SameOutputs

LEMMA BeginSets ==
    ASSUME PlanningTypeOK, NEW c \in Callers, Begin(c)
    PROVE  /\ Set(c) /\ call'[c].pc = "role" /\ call'[c].iteration = 1
           /\ call'[c].role = call[c].role /\ call'[c].history = call[c].history
           /\ call'[c].answer = call[c].answer
  <1>1. call \in [Callers -> CallStates] /\ "role" \in Steps
    BY DEF PlanningTypeOK, Steps
  <1> DEFINE r == [call[c] EXCEPT !.pc = "role", !.iteration = 1]
  <1>2. r \in CallStates
    BY <1>1, Limits, Zenon DEF CallStates
  <1>3. call' = [call EXCEPT ![c] = r]
    BY <1>1 DEF Begin
  <1>4. /\ r.pc = "role" /\ r.iteration = 1 /\ r.role = call[c].role
        /\ r.history = call[c].history /\ r.answer = call[c].answer
    BY <1>1 DEF CallStates
  <1> HIDE DEF r
  <1>5. Set(c) /\ call'[c] = r
    BY <1>2, <1>3, Setting
  <1> QED
    BY <1>4, <1>5

LEMMA IdleShape == Idle \in CallStates
  <1>1. /\ None \in Maybe(Drafts) /\ None \in Maybe(Reviews) /\ None \in Maybe(Verdicts)
        /\ None \in Maybe([role : Roles, of : Iterations]) /\ None \in Maybe(Entries)
    BY DEF Maybe
  <1>2. "idle" \in Steps /\ "plan" \in Roles /\ <<>> \in Seq(Entries)
    BY DEF Steps, Roles
  <1> QED
    BY <1>1, <1>2, Limits DEF Idle, CallStates

(* The call ends, with an answer or, if its process died, with none.       *)
Ended(c, answer) ==
    /\ Set(c) /\ call'[c].pc = "ended" /\ call'[c].answer = answer
    /\ answer \in {"approved", "rejected"} => call'[c].iteration = call[c].iteration

LEMMA EndSets ==
    ASSUME PlanningTypeOK, NEW c \in Callers,
           NEW answer \in {"approved", "rejected"},
           NEW reasons \in Maybe(Entries), NEW history \in Seq(Entries),
           End(c, answer, reasons, history)
    PROVE  Ended(c, answer)
  <1>1. call \in [Callers -> CallStates] /\ "ended" \in Steps
        /\ answer \in {"none", "approved", "rejected", "failed"}
    BY DEF PlanningTypeOK, Steps
  <1>2. call[c].iteration \in 0 .. MaxIterations
    BY <1>1 DEF CallStates
  <1> DEFINE r == [Idle EXCEPT !.pc = "ended", !.answer = answer,
                               !.iteration = call[c].iteration,
                               !.reasons = reasons, !.history = history]
  <1>3. r \in CallStates
    BY <1>1, <1>2, IdleShape, Zenon DEF CallStates
  <1>4. call' = [call EXCEPT ![c] = r]
    BY DEF End
  <1>5. r.pc = "ended" /\ r.answer = answer /\ r.iteration = call[c].iteration
    BY DEF Idle
  <1> HIDE DEF r
  <1>6. Set(c) /\ call'[c] = r
    BY <1>3, <1>4, Setting
  <1> QED
    BY <1>5, <1>6 DEF Ended

LEMMA FailSets ==
    ASSUME PlanningTypeOK, NEW c \in Callers, NEW answer \in {"failed", "none"},
           call' = [call EXCEPT ![c] = [Idle EXCEPT !.pc = "ended", !.answer = answer]]
    PROVE  Ended(c, answer)
  <1>1. "ended" \in Steps /\ answer \in {"none", "approved", "rejected", "failed"}
    BY DEF Steps
  <1> DEFINE r == [Idle EXCEPT !.pc = "ended", !.answer = answer]
  <1>2. r \in CallStates
    BY <1>1, IdleShape, Zenon DEF CallStates
  <1>3. r.pc = "ended" /\ r.answer = answer
    BY DEF Idle
  <1> HIDE DEF r
  <1>4. Set(c) /\ call'[c] = r
    BY <1>2, Setting DEF r
  <1> QED
    BY <1>3, <1>4 DEF Ended

LEMMA NextIterationSets ==
    ASSUME PlanningTypeOK, NEW c \in Callers, NextIteration(c), Rejection(c) \in Entries
    PROVE  /\ Set(c) /\ call'[c].pc = "role" /\ call'[c].role = "plan"
           /\ call'[c].iteration = call[c].iteration + 1
           /\ call'[c].reasons = Rejection(c)
           /\ call'[c].history = Append(call[c].history, Rejection(c))
           /\ call'[c].answer = call[c].answer
  <1>1. call \in [Callers -> CallStates]
    BY DEF PlanningTypeOK
  <1>2. /\ "role" \in Steps /\ "plan" \in Roles
        /\ None \in Maybe(Drafts) /\ None \in Maybe(Reviews) /\ None \in Maybe(Verdicts)
        /\ Rejection(c) \in Maybe(Entries)
    BY DEF Steps, Roles, Maybe
  <1>3. call[c].iteration \in 0 .. MaxIterations /\ call[c].history \in Seq(Entries)
    BY <1>1 DEF CallStates
  <1>4. PICK next \in 0 .. MaxIterations : next = call[c].iteration + 1
    BY <1>3, PlanningAssumption DEF NextIteration
  <1>5. PICK history \in Seq(Entries) : history = Append(call[c].history, Rejection(c))
    BY <1>3, AppendProperties
  <1> DEFINE r == [call[c] EXCEPT !.pc = "role", !.iteration = next, !.role = "plan",
                                  !.draft = None, !.review = None, !.verdict = None,
                                  !.reasons = Rejection(c), !.history = history]
  <1>6. r \in CallStates
    BY <1>1, <1>2, Zenon DEF CallStates
  <1>7. call' = [call EXCEPT ![c] = r]
    BY <1>1, <1>4, <1>5 DEF NextIteration
  <1>8. /\ r.pc = "role" /\ r.role = "plan" /\ r.iteration = next
        /\ r.reasons = Rejection(c) /\ r.history = history /\ r.answer = call[c].answer
    BY <1>1 DEF CallStates
  <1> HIDE DEF r
  <1>9. Set(c) /\ call'[c] = r
    BY <1>6, <1>7, Setting
  <1> QED
    BY <1>4, <1>5, <1>8, <1>9

-----------------------------------------------------------------------------
(* The invariant, kind by kind.                                            *)

(* What a call has filed stays there for it, whatever the others write.    *)
Grows(c) == /\ \A n \in Iterations : drafts[n] # None => drafts'[n] # None
            /\ notes \subseteq notes'
            /\ \A note \in notes' \ notes : note.by = c
            /\ plan # None => plan' # None

LEMMA OthersKept ==
    ASSUME Inv, NEW c \in Callers, Own(c), Grows(c), NEW d \in Callers, d # c
    PROVE  Staged(d)' /\ Told(d)' /\ Filed(d)'
  <1>1. call'[d] = call[d]
    BY DEF Own
  <1>2. Staged(d) /\ Told(d) /\ Filed(d)
    BY DEF Inv
  <1>3. NoApproval(d) => NoApproval(d)'
    BY DEF NoApproval, Grows
  <1>4. call[d].pc \in {"note", "plan"} => call[d].iteration \in Iterations
    BY <1>2 DEF Staged, Active
  <1>5. Staged(d)'
    BY <1>1, <1>2, <1>4
       DEF Staged, Grows, Active, Drafted, Reviewed, Judged, Approved, DefaultCritic, Faulty
  <1>6. Told(d)'
    <2>1. Active(d)' = Active(d)
      BY <1>1 DEF Active
    <2> QED
      BY <1>1, <1>2, <2>1 DEF Told, Grows
  <1>7. Filed(d)'
    BY <1>1, <1>2, <1>3 DEF Filed, Grows
  <1> QED
    BY <1>5, <1>6, <1>7

SameFiles == UNCHANGED <<drafts, notes, plan>>

LEMMA SameFilesKeeps ==
    ASSUME Inv, NEW c \in Callers, Set(c), SameFiles,
           Staged(c)', Told(c)', Filed(c)'
    PROVE  Inv'
  <1>1. PlanningTypeOK'
    BY DEF Inv, PlanningTypeOK, Set, SameFiles
  <1>2. PlanByConsensus'
    BY DEF Inv, PlanByConsensus, SameFiles, Faulty
  <1>3. Grows(c)
    BY DEF Grows, SameFiles
  <1>4. Own(c)
    BY DEF Set
  <1>5. \A d \in Callers \ {c} : Staged(d)' /\ Told(d)' /\ Filed(d)'
    BY <1>3, <1>4, OthersKept
  <1> QED
    BY <1>1, <1>2, <1>5 DEF Inv

(* A step of the role run that is awaited.                                 *)
Works(c) == /\ Set(c) /\ SameFiles /\ SameRecords(c)
            /\ call[c].pc = "role" /\ call'[c].pc \in {"role", "draft"}
            /\ call'[c].pc = "role" => /\ call'[c].role # "plan" => Drafted(c)'
                                       /\ call'[c].role = "critic" => Reviewed(c)'
            /\ call'[c].pc = "draft" => Drafted(c)' /\ Reviewed(c)' /\ Judged(c)'

LEMMA WorksKeeps ==
    ASSUME Inv, NEW c \in Callers, Works(c)
    PROVE  Inv'
  <1>1. Staged(c) /\ Told(c) /\ Filed(c)
    BY DEF Inv
  <1>2. Active(c) /\ Active(c)'
    BY DEF Works, Active
  <1>3. Staged(c)'
    BY <1>1, <1>2 DEF Staged, Works, SameRecords
  <1>4. Told(c)'
    BY <1>1, <1>2 DEF Told, Works, SameRecords, SameFiles
  <1>5. Filed(c)'
    <2>1. NoApproval(c)'
      BY <1>1 DEF Filed, NoApproval, Works, SameFiles
    <2>2. call'[c].answer = "none"
      BY <1>1 DEF Staged, Works, SameRecords
    <2> QED
      BY <2>1, <2>2 DEF Filed
  <1> QED
    BY <1>3, <1>4, <1>5, SameFilesKeeps DEF Works

LEMMA AgainWorks ==
    ASSUME Inv, NEW c \in Callers, Again(c), SameFiles, call[c].pc = "role"
    PROVE  Works(c)
  <1>1. Staged(c)
    BY DEF Inv
  <1>2. /\ Drafted(c) => Drafted(c)'
        /\ Reviewed(c) => Reviewed(c)'
    BY DEF Drafted, Reviewed, Again, SameOutputs, SameRecords
  <1> QED
    BY <1>1, <1>2 DEF Works, Again, Staged

LEMMA LateAnswerKeeps ==
    ASSUME Inv, NEW c \in Callers, LateAnswer(c)
    PROVE  Inv'
  <1>1. /\ Set(c) /\ SameRecords(c) /\ SameOutputs(c) /\ SameFiles
        /\ call'[c].pc = call[c].pc /\ call'[c].role = call[c].role
    BY LateAnswerSets DEF Inv, LateAnswer, SameFiles
  <1>2. Staged(c) /\ Told(c) /\ Filed(c)
    BY DEF Inv
  <1>3. Staged(c)'
    BY <1>1, <1>2 DEF Staged, Active, Drafted, Reviewed, Judged, Approved, DefaultCritic,
                      Faulty, SameRecords, SameOutputs, SameFiles
  <1>4. Told(c)'
    BY <1>1, <1>2 DEF Told, Active, SameRecords, SameFiles
  <1>5. Filed(c)'
    BY <1>1, <1>2 DEF Filed, NoApproval, SameRecords, SameFiles
  <1> QED
    BY <1>1, <1>3, <1>4, <1>5, SameFilesKeeps

LEMMA BeginKeeps ==
    ASSUME Inv, NEW c \in Callers, Begin(c)
    PROVE  Inv'
  <1>1. Staged(c) /\ Filed(c) /\ call[c].pc = "idle" /\ SameFiles
    BY DEF Inv, Begin, At, SameFiles
  <1>2. /\ Set(c) /\ call'[c].pc = "role" /\ call'[c].iteration = 1
        /\ call'[c].role = "plan" /\ call'[c].history = <<>>
        /\ call'[c].answer = "none"
    BY <1>1, BeginSets DEF Inv, Staged
  <1>3. Staged(c)'
    BY <1>2, Limits DEF Staged
  <1>4. Told(c)'
    BY <1>2 DEF Told
  <1>5. Filed(c)'
    BY <1>1, <1>2 DEF Filed, NoApproval, SameFiles
  <1> QED
    BY <1>1, <1>2, <1>3, <1>4, <1>5, SameFilesKeeps

LEMMA EndedKeeps ==
    ASSUME Inv, NEW c \in Callers, NEW answer \in {"failed", "none", "rejected"},
           Ended(c, answer), SameFiles,
           answer = "rejected" => call[c].pc = "role"
    PROVE  Inv'
  <1>1. Filed(c)
    BY DEF Inv
  <1>2. Set(c) /\ call'[c].pc = "ended" /\ call'[c].answer = answer
    BY DEF Ended
  <1>3. Staged(c)' /\ Told(c)'
    BY <1>2 DEF Staged, Told, Active
  <1>4. Filed(c)'
    BY <1>1, <1>2 DEF Filed, NoApproval, SameFiles
  <1> QED
    BY <1>2, <1>3, <1>4, SameFilesKeeps

-----------------------------------------------------------------------------
(* The role run: an output is accepted only from the execution that was    *)
(* started for this role in this iteration.                                *)
LEMMA DraftWorks ==
    ASSUME Inv, NEW c \in Callers, SameFiles, call[c].pc = "role",
           NEW draft \in Drafts, draft.of = call[c].iteration, AcceptDraft(c, draft)
    PROVE  Works(c)
  <1>1. /\ Set(c) /\ SameRecords(c)
        /\ call'[c].pc = "role" /\ call'[c].role = "architect"
        /\ call'[c].draft = draft
    BY AcceptDraftSets DEF Inv
  <1>2. Drafted(c)'
    BY <1>1 DEF Drafted, SameRecords
  <1> QED
    BY <1>1, <1>2 DEF Works

LEMMA ReviewWorks ==
    ASSUME Inv, NEW c \in Callers, SameFiles, call[c].pc = "role",
           call[c].role = "architect",
           NEW review \in Reviews, review.of = call[c].iteration, AcceptReview(c, review)
    PROVE  Works(c)
  <1>1. /\ Set(c) /\ SameRecords(c)
        /\ call'[c].pc = "role" /\ call'[c].role = "critic"
        /\ call'[c].draft = call[c].draft /\ call'[c].review = review
    BY AcceptReviewSets DEF Inv
  <1>2. Drafted(c)
    BY DEF Inv, Staged
  <1>3. Drafted(c)' /\ Reviewed(c)'
    BY <1>1, <1>2 DEF Drafted, Reviewed, SameRecords
  <1> QED
    BY <1>1, <1>3 DEF Works

LEMMA VerdictWorks ==
    ASSUME Inv, NEW c \in Callers, SameFiles, call[c].pc = "role",
           call[c].role = "critic",
           NEW verdict \in Verdicts, verdict.of = call[c].iteration,
           ~verdict.own => verdict.decision = DefaultCritic(Inputs[c], call[c].draft),
           AcceptVerdict(c, verdict)
    PROVE  Works(c)
  <1>1. /\ Set(c) /\ SameRecords(c)
        /\ call'[c].pc = "draft" /\ call'[c].verdict = verdict
        /\ call'[c].draft = call[c].draft /\ call'[c].review = call[c].review
    BY AcceptVerdictSets DEF Inv
  <1>2. Drafted(c) /\ Reviewed(c)
    BY DEF Inv, Staged
  <1>3. Drafted(c)' /\ Reviewed(c)'
    BY <1>1, <1>2 DEF Drafted, Reviewed, SameRecords
  <1>4. Judged(c)'
    BY <1>1 DEF Judged, DefaultCritic, Faulty, SameRecords
  <1> QED
    BY <1>1, <1>3, <1>4 DEF Works

LEMMA ValidOutputWorks ==
    ASSUME Inv, NEW c \in Callers, ValidOutput(c)
    PROVE  Works(c)
  <1> DEFINE n == call[c].iteration
  <1>1. /\ call[c].pc = "role" /\ SameFiles /\ n \in Iterations
        /\ Accept(c, call[c].role, n)
    BY DEF Inv, ValidOutput, Executing, At, SameFiles, Staged, Active
  <1>2. CASE \E kind \in {"faulty", "plain", "deliberate"} :
                AcceptDraft(c, [of |-> n, kind |-> kind])
    <2> PICK kind \in {"faulty", "plain", "deliberate"} :
             AcceptDraft(c, [of |-> n, kind |-> kind])
      BY <1>2
    <2>1. PICK draft \in Drafts : draft = [of |-> n, kind |-> kind]
      BY <1>1 DEF Drafts
    <2> QED
      BY <1>1, <2>1, DraftWorks
  <1>3. CASE call[c].role = "architect" /\ AcceptReview(c, [of |-> n])
    <2>1. PICK review \in Reviews : review = [of |-> n]
      BY <1>1 DEF Reviews
    <2> QED
      BY <1>1, <1>3, <2>1, ReviewWorks
  <1>4. CASE /\ call[c].role = "critic"
             /\ \E own \in BOOLEAN, decision \in {"approve", "reject"} :
                   /\ ~own => decision = DefaultCritic(Inputs[c], call[c].draft)
                   /\ AcceptVerdict(c, [of |-> n, decision |-> decision, own |-> own])
    <2> PICK own \in BOOLEAN, decision \in {"approve", "reject"} :
             /\ ~own => decision = DefaultCritic(Inputs[c], call[c].draft)
             /\ AcceptVerdict(c, [of |-> n, decision |-> decision, own |-> own])
      BY <1>4
    <2>1. PICK verdict \in Verdicts :
             verdict = [of |-> n, decision |-> decision, own |-> own]
      BY <1>1 DEF Verdicts
    <2>2. /\ verdict.of = n
          /\ ~verdict.own => verdict.decision = DefaultCritic(Inputs[c], call[c].draft)
      <3>1. verdict.of = n /\ verdict.decision = decision /\ verdict.own = own
        BY <2>1
      <3> QED
        BY <3>1
    <2> QED
      BY <1>1, <1>4, <2>1, <2>2, VerdictWorks
  <1> QED
    BY <1>1, <1>2, <1>3, <1>4 DEF Accept

LEMMA DefaultReviewWorks ==
    ASSUME Inv, NEW c \in Callers, DefaultReview(c)
    PROVE  Works(c)
  <1> DEFINE n == call[c].iteration
             decision == DefaultCritic(Inputs[c], call[c].draft)
  <1>1. call[c].pc = "role" /\ SameFiles /\ n \in Iterations
    BY DEF Inv, DefaultReview, At, SameFiles, Staged, Active
  <1>2. CASE call[c].role = "architect" /\ AcceptReview(c, [of |-> n])
    <2>1. PICK review \in Reviews : review = [of |-> n]
      BY <1>1 DEF Reviews
    <2> QED
      BY <1>1, <1>2, <2>1, ReviewWorks
  <1>3. CASE /\ call[c].role = "critic"
             /\ AcceptVerdict(c, [of |-> n, own |-> FALSE, decision |-> decision])
    <2>1. decision \in {"approve", "reject"}
      BY Zenon DEF DefaultCritic
    <2> HIDE DEF decision
    <2>2. PICK verdict \in Verdicts :
             verdict = [of |-> n, own |-> FALSE, decision |-> decision]
      BY <1>1, <2>1 DEF Verdicts
    <2>3. verdict.of = n /\ verdict.decision = decision
      BY <2>2
    <2> QED
      BY <1>1, <1>3, <2>2, <2>3, VerdictWorks DEF decision
  <1> QED
    BY <1>2, <1>3 DEF DefaultReview

LEMMA FailKeeps ==
    ASSUME Inv, NEW c \in Callers, Fail(c), SameFiles
    PROVE  Inv'
  <1>1. PICK answer \in {"failed", "none"} : answer = "failed"
    OBVIOUS
  <1>2. Ended(c, answer)
    BY <1>1, FailSets DEF Inv, Fail
  <1> QED
    BY <1>1, <1>2, EndedKeeps

LEMMA DieKeeps ==
    ASSUME Inv, NEW c \in Callers, Die(c)
    PROVE  Inv'
  <1> DEFINE r == [Idle EXCEPT !.pc = "ended"]
  <1>1. r \in CallStates
    <2>1. "ended" \in Steps
      BY DEF Steps
    <2> QED
      BY <2>1, IdleShape, Zenon DEF CallStates
  <1>2. r.pc = "ended" /\ r.answer = "none"
    BY DEF Idle
  <1>3. SameFiles /\ call' = [call EXCEPT ![c] = r]
    BY DEF Die, SameFiles
  <1> HIDE DEF r
  <1>4. Ended(c, "none")
    BY <1>1, <1>2, <1>3, Setting DEF Inv, Ended
  <1> QED
    BY <1>3, <1>4, EndedKeeps

LEMMA RoleRunKeeps ==
    ASSUME Inv, NEW c \in Callers,
           \/ InvalidOutput(c) \/ ExecutionThrows(c) \/ TimesOut(c) \/ RoleRunThrows(c)
    PROVE  Inv'
  <1>1. call[c].pc = "role" /\ SameFiles /\ PlanningTypeOK /\ call[c].iteration \in Iterations
    BY DEF Inv, InvalidOutput, ExecutionThrows, TimesOut, RoleRunThrows, Executing, At,
           SameFiles, Staged, Active
  <1>2. CASE AskAgain(c)
    BY <1>1, <1>2, AskAgainSets, AgainWorks, WorksKeeps
  <1>3. CASE AttemptAgain(c)
    BY <1>1, <1>3, AttemptAgainSets, AgainWorks, WorksKeeps DEF At
  <1>4. CASE Fail(c)
    BY <1>1, <1>4, FailKeeps
  <1>5. CASE TimesOut(c) /\ ~LastAttemptFails(c)
    BY <1>1, <1>5, TimesOutSets, AgainWorks, WorksKeeps DEF At
  <1>6. CASE ContractRejected(c)
    <2> DEFINE entry == [iteration |-> call[c].iteration, why |-> "contract"]
    <2>1. entry \in Entries
      BY <1>1 DEF Entries
    <2>2. End(c, "rejected", entry, <<entry>>)
      BY <1>6 DEF ContractRejected
    <2> HIDE DEF entry
    <2>3. entry \in Maybe(Entries) /\ <<entry>> \in Seq(Entries)
      BY <2>1 DEF Maybe
    <2>4. Ended(c, "rejected")
      BY <1>1, <2>2, <2>3, EndSets
    <2> QED
      BY <1>1, <2>4, EndedKeeps
  <1> QED
    BY <1>2, <1>3, <1>4, <1>5, <1>6
       DEF InvalidOutput, ExecutionThrows, TimesOut, RoleRunThrows, LastAttemptFails

-----------------------------------------------------------------------------
(* The files at the end of an iteration.                                   *)
LEMMA WriteDraftKeeps ==
    ASSUME Inv, NEW c \in Callers, WriteDraft(c)
    PROVE  Inv'
  <1> DEFINE n == call[c].iteration
  <1>1. Staged(c) /\ Told(c) /\ Filed(c) /\ PlanningTypeOK
    BY DEF Inv
  <1>2. /\ call[c].pc = "draft" /\ n \in Iterations
        /\ drafts' = [drafts EXCEPT ![n] = [by |-> c]]
        /\ Goto(c, "note") /\ "note" \in Steps /\ UNCHANGED <<notes, plan>>
    BY <1>1 DEF WriteDraft, At, Staged, Active, Steps
  <1>3. /\ Set(c) /\ SameRecords(c) /\ SameOutputs(c) /\ call'[c].pc = "note"
    BY <1>1, <1>2, GotoSets
  <1>4. [by |-> c] # None /\ [by |-> c] \in Maybe([by : Callers])
    BY DEF None, Maybe
  <1>5. /\ drafts' \in [Iterations -> Maybe([by : Callers])]
        /\ drafts'[n] # None
        /\ \A m \in Iterations : drafts[m] # None => drafts'[m] # None
    BY <1>1, <1>2, <1>4 DEF PlanningTypeOK
  <1>6. PlanningTypeOK' /\ PlanByConsensus'
    <2>1. PlanningTypeOK'
      BY <1>1, <1>2, <1>3, <1>5 DEF PlanningTypeOK, Set
    <2> QED
      BY <1>2, <2>1 DEF Inv, PlanByConsensus, Faulty
  <1>7. \A d \in Callers \ {c} : Staged(d)' /\ Told(d)' /\ Filed(d)'
    <2>1. Grows(c)
      BY <1>2, <1>5 DEF Grows
    <2> QED
      BY <1>3, <2>1, OthersKept DEF Set
  <1>8. Active(c) /\ Active(c)'
    BY <1>2, <1>3 DEF Active
  <1>9. Staged(c)'
    <2>1. Drafted(c)' /\ Reviewed(c)' /\ Judged(c)'
      BY <1>1, <1>2, <1>3 DEF Staged, Drafted, Reviewed, Judged, DefaultCritic, Faulty,
                              SameRecords, SameOutputs
    <2> QED
      BY <1>1, <1>2, <1>3, <1>5, <2>1 DEF Staged, SameRecords
  <1>10. Told(c)'
    BY <1>1, <1>2, <1>3, <1>8 DEF Told, SameRecords
  <1>11. Filed(c)'
    <2>1. call'[c].answer = "none"
      BY <1>1, <1>2, <1>3 DEF Staged, SameRecords
    <2> QED
      BY <1>1, <1>2, <1>3, <2>1 DEF Filed, NoApproval
  <1> QED
    BY <1>6, <1>7, <1>9, <1>10, <1>11 DEF Inv

(* What an entry of the notes leaves as it is.                             *)
LEMMA NoteKeeps ==
    ASSUME Inv, NEW c \in Callers, AppendBlock(c), Set(c),
           Staged(c)', Told(c)', Filed(c)'
    PROVE  Inv'
  <1> DEFINE note == [by |-> c, iteration |-> call[c].iteration, status |-> Status(c)]
  <1>1. notes' = notes \cup {note} /\ UNCHANGED <<drafts, plan>>
    BY DEF AppendBlock
  <1>2. note.by = c /\ note \in Notes
    <2>1. call[c].iteration \in Iterations /\ Status(c) \in {"approved", "rejected"}
      BY DEF Inv, AppendBlock, At, Staged, Active, Status
    <2> QED
      BY <2>1 DEF Notes
  <1> HIDE DEF note
  <1>3. PlanningTypeOK'
    BY <1>1, <1>2 DEF Inv, PlanningTypeOK, Set
  <1>4. PlanByConsensus'
    BY <1>1 DEF Inv, PlanByConsensus, Faulty
  <1>5. Grows(c)
    BY <1>1, <1>2 DEF Grows
  <1>6. \A d \in Callers \ {c} : Staged(d)' /\ Told(d)' /\ Filed(d)'
    BY <1>5, OthersKept DEF Set
  <1> QED
    BY <1>3, <1>4, <1>6 DEF Inv

LEMMA ApprovalKeeps ==
    ASSUME Inv, NEW c \in Callers, AppendBlock(c), Approved(c), Goto(c, "plan")
    PROVE  Inv'
  <1>1. Staged(c) /\ Told(c) /\ PlanningTypeOK /\ call[c].pc = "note"
    BY DEF Inv, AppendBlock, At
  <1>2. /\ Set(c) /\ SameRecords(c) /\ SameOutputs(c) /\ call'[c].pc = "plan"
    BY <1>1, GotoSets DEF Steps
  <1>3. /\ notes' = notes \cup {[by |-> c, iteration |-> call[c].iteration,
                                 status |-> "approved"]}
        /\ UNCHANGED <<drafts, plan>>
    BY DEF AppendBlock, Status
  <1>4. Active(c) /\ Active(c)'
    BY <1>1, <1>2 DEF Active
  <1>5. Staged(c)'
    <2>1. Drafted(c)' /\ Reviewed(c)' /\ Judged(c)' /\ Approved(c)'
      BY <1>1, <1>2 DEF Staged, Drafted, Reviewed, Judged, DefaultCritic, Faulty, Approved,
                        SameRecords, SameOutputs
    <2> QED
      BY <1>1, <1>2, <1>3, <1>4, <2>1 DEF Staged, SameRecords
  <1>6. Told(c)'
    BY <1>1, <1>2, <1>3, <1>4 DEF Told, SameRecords
  <1>7. Filed(c)'
    <2>1. call'[c].answer = "none"
      BY <1>1, <1>2 DEF Staged, SameRecords
    <2> QED
      BY <1>2, <2>1 DEF Filed
  <1> QED
    BY <1>2, <1>5, <1>6, <1>7, NoteKeeps

LEMMA RejectionType ==
    ASSUME Inv, NEW c \in Callers, call[c].iteration \in Iterations
    PROVE  Rejection(c) \in Entries /\ Rejection(c).iteration = call[c].iteration
  BY DEF Rejection, Entries

LEMMA NoteOfRejection ==
    ASSUME Inv, NEW c \in Callers, AppendBlock(c), ~Approved(c)
    PROVE  /\ [by |-> c, iteration |-> call[c].iteration, status |-> "rejected"] \in notes'
           /\ notes \subseteq notes'
           /\ NoApproval(c)'
  <1>1. /\ notes' = notes \cup {[by |-> c, iteration |-> call[c].iteration,
                                 status |-> "rejected"]}
    BY DEF AppendBlock, Status
  <1>2. NoApproval(c)
    BY DEF Inv, Filed, AppendBlock, At
  <1> QED
    BY <1>1, <1>2 DEF NoApproval

LEMMA NextIterationKeeps ==
    ASSUME Inv, NEW c \in Callers, AppendBlock(c), ~Approved(c), NextIteration(c)
    PROVE  Inv'
  <1> DEFINE n == call[c].iteration
             old == call[c].history
  <1>1. /\ Staged(c) /\ Told(c) /\ PlanningTypeOK
        /\ call[c].pc = "note" /\ Active(c) /\ n \in Iterations
    BY DEF Inv, AppendBlock, At, Staged, Active
  <1>2. Rejection(c) \in Entries /\ Rejection(c).iteration = n
    BY <1>1, RejectionType
  <1>3. /\ Set(c) /\ call'[c].pc = "role" /\ call'[c].role = "plan"
        /\ call'[c].iteration = n + 1
        /\ call'[c].reasons = Rejection(c)
        /\ call'[c].history = Append(old, Rejection(c))
        /\ call'[c].answer = "none"
    BY <1>1, <1>2, NextIterationSets DEF Staged
  <1>4. n + 1 \in Iterations
    BY <1>1, PlanningAssumption DEF NextIteration, Iterations
  <1>5. Staged(c)'
    BY <1>3, <1>4 DEF Staged
  <1>6. Told(c)'
    <2>1. n \in Nat /\ n >= 1 /\ n + 1 - 1 = n /\ old \in Seq(Entries) /\ Len(old) = n - 1
      <3>1. n \in Nat /\ n >= 1
        BY <1>1, PlanningAssumption DEF Iterations
      <3>2. old \in Seq(Entries)
        BY <1>1 DEF PlanningTypeOK, CallStates
      <3> QED
        BY <1>1, <3>1, <3>2 DEF Told
    <2>2. /\ Len(Append(old, Rejection(c))) = n
          /\ \A i \in 1 .. n - 1 : Append(old, Rejection(c))[i] = old[i]
          /\ Append(old, Rejection(c))[n] = Rejection(c)
      <3>1. /\ Len(Append(old, Rejection(c))) = Len(old) + 1
            /\ \A i \in 1 .. Len(old) : Append(old, Rejection(c))[i] = old[i]
            /\ Append(old, Rejection(c))[Len(old) + 1] = Rejection(c)
        BY <1>2, <2>1, AppendProperties
      <3> QED
        BY <2>1, <3>1
    <2>3. /\ [by |-> c, iteration |-> n, status |-> "rejected"] \in notes'
          /\ notes \subseteq notes'
      BY NoteOfRejection
    <2>4. \A i \in 1 .. n - 1 :
             /\ old[i].iteration = i
             /\ [by |-> c, iteration |-> i, status |-> "rejected"] \in notes'
      BY <1>1, <2>3 DEF Told
    <2>5. \A i \in 1 .. n :
             /\ Append(old, Rejection(c))[i].iteration = i
             /\ [by |-> c, iteration |-> i, status |-> "rejected"] \in notes'
      <3> SUFFICES ASSUME NEW i \in 1 .. n
                   PROVE  /\ Append(old, Rejection(c))[i].iteration = i
                          /\ [by |-> c, iteration |-> i, status |-> "rejected"] \in notes'
        OBVIOUS
      <3>1. CASE i = n
        BY <1>2, <2>2, <2>3, <3>1
      <3>2. CASE i # n
        <4>1. i \in 1 .. n - 1
          BY <2>1, <3>2
        <4> QED
          BY <2>2, <2>4, <4>1
      <3> QED
        BY <3>1, <3>2
    <2> HIDE DEF old
    <2> QED
      BY <1>3, <2>1, <2>2, <2>5 DEF Told
  <1>7. Filed(c)'
    BY <1>3, NoteOfRejection DEF Filed
  <1> QED
    BY <1>3, <1>5, <1>6, <1>7, NoteKeeps

LEMMA OutOfIterationsKeeps ==
    ASSUME Inv, NEW c \in Callers, AppendBlock(c), ~Approved(c), OutOfIterations(c)
    PROVE  Inv'
  <1>1. /\ PlanningTypeOK /\ call[c].iteration \in Iterations
    BY DEF Inv, AppendBlock, At, Staged, Active
  <1>2. /\ Rejection(c) \in Maybe(Entries)
        /\ Append(call[c].history, Rejection(c)) \in Seq(Entries)
    <2>1. call[c].history \in Seq(Entries)
      BY <1>1 DEF PlanningTypeOK, CallStates
    <2> QED
      BY <1>1, <2>1, RejectionType, AppendProperties DEF Maybe
  <1>3. Ended(c, "rejected")
    BY <1>1, <1>2, EndSets DEF OutOfIterations
  <1>4. Staged(c)' /\ Told(c)'
    BY <1>3 DEF Ended, Staged, Told, Active
  <1>5. Filed(c)'
    BY <1>3, NoteOfRejection DEF Ended, Filed
  <1> QED
    BY <1>3, <1>4, <1>5, NoteKeeps DEF Ended

LEMMA WritePlanKeeps ==
    ASSUME Inv, NEW c \in Callers, WritePlan(c)
    PROVE  Inv'
  <1> DEFINE n == call[c].iteration
             kept == [by |-> c, draft |-> call[c].draft, review |-> call[c].review,
                      verdict |-> call[c].verdict]
  <1>1. Staged(c) /\ PlanningTypeOK /\ call[c].pc = "plan"
    BY DEF Inv, WritePlan, At
  <1>2. /\ n \in Iterations /\ Drafted(c) /\ Reviewed(c) /\ Judged(c) /\ Approved(c)
        /\ drafts[n] # None
        /\ [by |-> c, iteration |-> n, status |-> "approved"] \in notes
    BY <1>1 DEF Staged, Active
  <1>3. plan' = kept /\ UNCHANGED <<drafts, notes>> /\ Answer(c)
    BY DEF WritePlan
  <1>4. Ended(c, "approved")
    <2> DEFINE entry == [iteration |-> n, why |-> "approve"]
    <2>1. entry \in Entries /\ None \in Maybe(Entries)
      BY <1>2 DEF Entries, Maybe
    <2>2. End(c, "approved", None, Append(call[c].history, entry))
      BY <1>3 DEF Answer
    <2> HIDE DEF entry
    <2>3. call[c].history \in Seq(Entries)
      BY <1>1 DEF PlanningTypeOK, CallStates
    <2>4. Append(call[c].history, entry) \in Seq(Entries)
      BY <2>1, <2>3, AppendProperties
    <2> QED
      BY <1>1, <2>1, <2>2, <2>4, EndSets
  <1>5. /\ kept \in Plans /\ kept # None
        /\ kept.by = c /\ kept.draft = call[c].draft /\ kept.review = call[c].review
        /\ kept.verdict = call[c].verdict
    BY <1>2 DEF Drafted, Reviewed, Judged, Plans, None
  <1> HIDE DEF kept
  <1>6. PlanningTypeOK'
    BY <1>1, <1>3, <1>4, <1>5 DEF PlanningTypeOK, Ended, Set, Maybe
  <1>7. PlanByConsensus'
    <2>1. /\ ~Faulty(kept.draft) /\ kept.verdict.decision = "approve"
          /\ kept.review.of = kept.draft.of /\ kept.verdict.of = kept.draft.of
      BY <1>2, <1>5 DEF Drafted, Reviewed, Judged, Approved
    <2>2. Inputs[c].high /\ ~kept.verdict.own => kept.draft.kind = "deliberate"
      BY <1>2, <1>5 DEF Judged, Approved, DefaultCritic
    <2> QED
      BY <1>3, <1>5, <2>1, <2>2 DEF PlanByConsensus, Faulty
  <1>8. \A d \in Callers \ {c} : Staged(d)' /\ Told(d)' /\ Filed(d)'
    <2>1. Grows(c)
      BY <1>3, <1>5 DEF Grows
    <2> QED
      BY <1>4, <2>1, OthersKept DEF Ended, Set
  <1>9. Staged(c)' /\ Told(c)'
    BY <1>4 DEF Ended, Staged, Told, Active
  <1>10. Filed(c)'
    <2>1. call'[c].iteration = n /\ call'[c].pc = "ended" /\ call'[c].answer = "approved"
      BY <1>4 DEF Ended
    <2> QED
      BY <1>2, <1>3, <1>5, <2>1 DEF Filed
  <1> QED
    BY <1>6, <1>7, <1>8, <1>9, <1>10 DEF Inv

-----------------------------------------------------------------------------
LEMMA InitInv ==
    ASSUME Init
    PROVE  Inv
  <1>1. PlanningTypeOK
    BY IdleShape DEF Init, PlanningTypeOK, Maybe
  <1>2. PlanByConsensus
    BY DEF Init, PlanByConsensus
  <1> SUFFICES ASSUME NEW c \in Callers
               PROVE  Staged(c) /\ Told(c) /\ Filed(c)
    BY <1>1, <1>2 DEF Inv
  <1>3. /\ call[c].pc = "idle" /\ call[c].role = "plan" /\ call[c].history = <<>>
        /\ call[c].answer = "none"
    <2>1. call[c] = Idle
      BY DEF Init
    <2> QED
      BY <2>1 DEF Idle
  <1>4. NoApproval(c)
    BY DEF Init, NoApproval
  <1> QED
    BY <1>3, <1>4 DEF Staged, Told, Filed, Active

LEMMA NoteStepKeeps ==
    ASSUME Inv, NEW c \in Callers, AppendNote(c)
    PROVE  Inv'
  BY ApprovalKeeps, NextIterationKeeps, OutOfIterationsKeeps DEF AppendNote

LEMMA NextKeeps ==
    ASSUME Inv, NEW c \in Callers,
           Begin(c) \/ Step(c) \/ LateAnswer(c) \/ Die(c)
    PROVE  Inv'
  <1>1. CASE DefaultReview(c) \/ ValidOutput(c)
    BY <1>1, DefaultReviewWorks, ValidOutputWorks, WorksKeeps
  <1>2. CASE InvalidOutput(c) \/ ExecutionThrows(c) \/ TimesOut(c) \/ RoleRunThrows(c)
    BY <1>2, RoleRunKeeps
  <1>3. CASE WriteDraft(c) \/ AppendNote(c) \/ WritePlan(c)
    BY <1>3, WriteDraftKeeps, NoteStepKeeps, WritePlanKeeps
  <1>4. CASE WriteFails(c)
    BY <1>4, FailKeeps DEF WriteFails, SameFiles
  <1>5. CASE Begin(c) \/ LateAnswer(c) \/ Die(c)
    BY <1>5, BeginKeeps, LateAnswerKeeps, DieKeeps
  <1> QED
    BY <1>1, <1>2, <1>3, <1>4, <1>5 DEF Step

LEMMA StutterKeeps ==
    ASSUME Inv, UNCHANGED vars
    PROVE  Inv'
  <1>1. call' = call /\ drafts' = drafts /\ notes' = notes /\ plan' = plan
    BY DEF vars
  <1>2. PlanningTypeOK' /\ PlanByConsensus'
    BY <1>1 DEF Inv, PlanningTypeOK, PlanByConsensus, Faulty
  <1> SUFFICES ASSUME NEW c \in Callers
               PROVE  Staged(c)' /\ Told(c)' /\ Filed(c)'
    BY <1>2 DEF Inv
  <1>3. Staged(c) /\ Told(c) /\ Filed(c)
    BY DEF Inv
  <1>4. Staged(c)'
    BY <1>1, <1>3
       DEF Staged, Active, Drafted, Reviewed, Judged, Approved, DefaultCritic, Faulty
  <1> QED
    BY <1>1, <1>3, <1>4 DEF Told, Filed, NoApproval, Active

LEMMA InvInvariant == Spec => []Inv
  <1>1. Init => Inv
    BY InitInv
  <1>2. Inv /\ [Next]_vars => Inv'
    BY NextKeeps, StutterKeeps DEF Next
  <1> QED
    BY <1>1, <1>2, PTL DEF Spec

-----------------------------------------------------------------------------
(* Type correctness, for any callers and limits: of the loop, of the role  *)
(* runs with their retries, and of the files all calls write.              *)
THEOREM PlanningTypeCorrect == Spec => []PlanningTypeOK
  <1>1. Inv => PlanningTypeOK
    BY DEF Inv
  <1> QED
    BY <1>1, InvInvariant, PTL

(* The plan that is kept was approved without faults, on reviews given in  *)
(* the iteration that drafted it, whatever was retried or came late.       *)
THEOREM PlansAreAgreed == Spec => []PlanByConsensus
  <1>1. Inv => PlanByConsensus
    BY DEF Inv
  <1> QED
    BY <1>1, InvInvariant, PTL

(* What Inv says of each call's history is what RejectionsKept asks for.   *)
LEMMA ToldKept ==
    ASSUME PlanningTypeOK, \A c \in Callers : Told(c)
    PROVE  RejectionsKept
  <1> SUFFICES ASSUME NEW c \in Callers, Active(c)
               PROVE  LET n == call[c].iteration - 1
                      IN  /\ Len(call[c].history) = n
                          /\ n > 0 => call[c].reasons = call[c].history[n]
                          /\ \A i \in 1 .. n :
                                /\ call[c].history[i].iteration = i
                                /\ [by |-> c, iteration |-> i, status |-> "rejected"] \in notes
    BY DEF RejectionsKept
  <1>1. Told(c)
    OBVIOUS
  <1>2. call[c].iteration - 1 > 0 => call[c].iteration > 1
    <2>1. call[c].iteration \in 0 .. MaxIterations
      BY DEF PlanningTypeOK, CallStates
    <2> QED
      BY <2>1, PlanningAssumption
  <1> QED
    BY <1>1, <1>2 DEF Told

(* History, reasons, notes and the answer of each call agree, although all *)
(* calls write the same files.                                             *)
THEOREM RecordsAgree == Spec => []RecordsMatch
  <1>1. Inv => RecordsMatch
    <2> SUFFICES ASSUME Inv
                 PROVE  RecordsMatch
      OBVIOUS
    <2>1. RejectionsKept
      BY ToldKept DEF Inv
    <2>2. AnswerMatchesFiles
      <3> SUFFICES ASSUME NEW c \in Callers
                   PROVE  LET approvals == {note \in notes : note.by = c /\ note.status = "approved"}
                          IN  /\ call[c].answer = "approved" =>
                                    /\ plan # None
                                    /\ drafts[call[c].iteration] # None
                                    /\ \E note \in approvals : note.iteration = call[c].iteration
                              /\ approvals # {} => call[c].pc \in {"plan", "ended"}
                              /\ call[c].answer = "rejected" => approvals = {}
        BY DEF AnswerMatchesFiles
      <3> DEFINE approvals == {note \in notes : note.by = c /\ note.status = "approved"}
      <3>1. Filed(c)
        BY DEF Inv
      <3>2. NoApproval(c) => approvals = {}
        BY DEF NoApproval
      <3>3. ASSUME call[c].answer = "approved"
            PROVE  /\ plan # None
                   /\ drafts[call[c].iteration] # None
                   /\ \E note \in approvals : note.iteration = call[c].iteration
        <4>1. PICK note \in notes : note = [by |-> c, iteration |-> call[c].iteration,
                                            status |-> "approved"]
          BY <3>1, <3>3 DEF Filed
        <4> QED
          BY <3>1, <3>3, <4>1 DEF Filed
      <3> QED
        BY <3>1, <3>2, <3>3 DEF Filed
    <2> QED
      BY <2>1, <2>2 DEF RecordsMatch
  <1> QED
    BY <1>1, InvInvariant, PTL
=============================================================================
