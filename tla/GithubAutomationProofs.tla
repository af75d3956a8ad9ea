------------------------ MODULE GithubAutomationProofs ------------------------
(***************************************************************************)
(* Proofs about GithubAutomation, for any callers, any number of retries   *)
(* and of calls.                                                           *)
(***************************************************************************)
EXTENDS GithubAutomation, FiniteSetTheorems, TLAPS

Errors == {"none", "transient", "refused", "nothing", "exists", "torn"}

(* Types without the bounds, which follow from the counts below.           *)
Shapes ==
    /\ github \in [issues : Nat, branch : {"absent", "even", "ahead"}, pulls : Nat,
                   open : BOOLEAN]
    /\ cache \in {Absent, Torn} \cup
                    {Kept(result) : result \in [issue : Nat, pull : Nat, merged : BOOLEAN]}
    /\ call \in [Callers -> [pc : Steps, approved : BOOLEAN, retries : 0 .. MaxRetries,
                             issue : Nat, pull : Nat, merged : BOOLEAN, error : Errors]]
    /\ calls \in 0 .. MaxCalls
    /\ seen \in Histories

(* What a call holds is there, and it holds what its place requires.       *)
Knows(c) ==
    /\ call[c].issue <= github.issues
    /\ call[c].pull <= github.pulls
    /\ call[c].pc = "issue" => call[c].issue = 0
    /\ call[c].pc \notin {"idle", "lookup", "issue"} => call[c].issue > 0
    /\ call[c].pc \in {"merge", "truncate", "write"} => call[c].pull > 0
    /\ call[c].merged => call[c].pc \in {"truncate", "write"} /\ Merged(call[c].pull)

Held == cache \notin {Absent, Torn}

(* An issue may still be made by each of the attempts that a call has left.*)
AttemptsLeft(c) ==
    IF call[c].pc \in {"lookup", "issue"} /\ call[c].issue = 0
    THEN MaxRetries - call[c].retries + 1
    ELSE 0

Attempts == {t \in Callers \X (1 .. MaxRetries + 1) : t[2] <= AttemptsLeft(t[1])}

(* Every issue takes an attempt of a call, every pull takes a push: it is  *)
(* merged before there can be another, which leaves the branch even.       *)
Counted ==
    /\ IsFiniteSet(Attempts)
    /\ github.issues + Cardinality(Attempts) <= calls * (MaxRetries + 1)
    /\ github.pulls <= calls
    /\ ~github.open /\ github.branch = "ahead" => github.pulls < calls
    /\ github.open => github.pulls > 0

(* Calls that are never under way together.                                *)
Alone ==
    ~seen.overlap =>
        /\ \A c, d \in Callers : Busy(c) /\ Busy(d) => c = d
        /\ \A c \in Callers : /\ call[c].pc \in {"compare", "pull"} => ~github.open
                              /\ call[c].error # "exists"
                              /\ Busy(c) /\ Held => call[c].pc = "lookup"

(* ... and of which none failed and lost no answer.                        *)
Undisturbed ==
    ~seen.overlap /\ ~seen.lost /\ ~seen.stopped =>
        /\ github.issues <= 1
        /\ cache = Absent /\ (\A c \in Callers : ~Busy(c)) => github.issues = 0
        /\ cache = Torn => \E c \in Callers : call[c].pc = "write"
        /\ \A c \in Callers : /\ cache = Absent /\ Busy(c) => call[c].issue = github.issues
                              /\ call[c].pc = "write" => cache = Torn

Inv == /\ Shapes
       /\ \A c \in Callers : Knows(c)
       /\ KeptResultTrue
       /\ Counted
       /\ Alone
       /\ Undisturbed

-----------------------------------------------------------------------------
(* Types, and what an action leaves of the other calls.                    *)

CallShape == [pc : Steps, approved : BOOLEAN, retries : 0 .. MaxRetries,
              issue : Nat, pull : Nat, merged : BOOLEAN, error : Errors]

LEMMA IdleShape == /\ Idle \in CallShape
                   /\ \A e \in Errors : [Idle EXCEPT !.error = e] \in CallShape
  <1>1. 0 \in 0 .. MaxRetries /\ 0 \in Nat
    BY GithubAssumption
  <1>2. Idle \in CallShape
    BY <1>1 DEF Idle, CallShape, Steps, Errors
  <1> QED
    BY <1>2 DEF CallShape

(* An action of a call changes no other call.                              *)
Own(c) == \A d \in Callers \ {c} : call'[d] = call[d]

(* The fields of a call that an action sets.                               *)
Becomes(c, pc, retries, issue, pull, merged, error) ==
    /\ call' \in [Callers -> CallShape] /\ Own(c)
    /\ call'[c].pc = pc /\ call'[c].retries = retries
    /\ call'[c].issue = issue /\ call'[c].pull = pull
    /\ call'[c].merged = merged /\ call'[c].error = error

LEMMA Setting ==
    ASSUME Shapes, NEW c \in Callers, NEW r \in CallShape,
           call' = [call EXCEPT ![c] = r]
    PROVE  Becomes(c, r.pc, r.retries, r.issue, r.pull, r.merged, r.error)
  <1>1. call \in [Callers -> CallShape]
    BY DEF Shapes, CallShape
  <1> QED
    BY <1>1 DEF Becomes, Own

LEMMA EndBecomes ==
    ASSUME Shapes, NEW c \in Callers, NEW e \in Errors, End(c, e)
    PROVE  Becomes(c, "idle", 0, 0, 0, FALSE, e)
  <1> DEFINE r == [Idle EXCEPT !.error = e]
  <1>1. r \in CallShape
    BY IdleShape
  <1>2. /\ r.pc = "idle" /\ r.retries = 0 /\ r.issue = 0
        /\ r.pull = 0 /\ r.merged = FALSE /\ r.error = e
    BY DEF Idle
  <1>3. call' = [call EXCEPT ![c] = r]
    BY DEF End
  <1> HIDE DEF r
  <1>4. Becomes(c, r.pc, r.retries, r.issue, r.pull, r.merged, r.error)
    BY <1>1, <1>3, Setting
  <1> QED
    BY <1>2, <1>4

LEMMA GotoBecomes ==
    ASSUME Shapes, NEW c \in Callers, NEW step \in Steps, Goto(c, step)
    PROVE  Becomes(c, step, call[c].retries, call[c].issue, call[c].pull, call[c].merged,
                   call[c].error)
  <1>1. call \in [Callers -> CallShape]
    BY GithubAssumption DEF Shapes, CallShape
  <1> DEFINE r == [call[c] EXCEPT !.pc = step]
  <1>2. r \in CallShape
    BY <1>1, Zenon DEF CallShape
  <1>3. call' = [call EXCEPT ![c] = r]
    BY <1>1 DEF Goto
  <1>4. /\ r.pc = step /\ r.retries = call[c].retries /\ r.issue = call[c].issue
        /\ r.pull = call[c].pull /\ r.merged = call[c].merged /\ r.error = call[c].error
    BY <1>1 DEF CallShape
  <1> HIDE DEF r
  <1>5. Becomes(c, r.pc, r.retries, r.issue, r.pull, r.merged, r.error)
    BY <1>2, <1>3, Setting
  <1> QED
    BY <1>4, <1>5

LEMMA ProceedBecomes ==
    ASSUME Shapes, NEW c \in Callers, NEW step \in Steps, Proceed(c, step)
    PROVE  Becomes(c, step, 0, call[c].issue, call[c].pull, call[c].merged, call[c].error)
  <1>1. call \in [Callers -> CallShape] /\ 0 \in 0 .. MaxRetries
    BY GithubAssumption DEF Shapes, CallShape
  <1> DEFINE r == [call[c] EXCEPT !.pc = step, !.retries = 0]
  <1>2. r \in CallShape
    BY <1>1, Zenon DEF CallShape
  <1>3. call' = [call EXCEPT ![c] = r]
    BY <1>1 DEF Proceed
  <1>4. /\ r.pc = step /\ r.retries = 0 /\ r.issue = call[c].issue
        /\ r.pull = call[c].pull /\ r.merged = call[c].merged /\ r.error = call[c].error
    BY <1>1 DEF CallShape
  <1> HIDE DEF r
  <1>5. Becomes(c, r.pc, r.retries, r.issue, r.pull, r.merged, r.error)
    BY <1>2, <1>3, Setting
  <1> QED
    BY <1>4, <1>5

LEMMA FoundBecomes ==
    ASSUME Shapes, NEW c \in Callers, Found(c), github'.pulls \in Nat
    PROVE  Becomes(c, IF call[c].approved THEN "merge" ELSE "truncate", 0, call[c].issue,
                   github'.pulls, call[c].merged, call[c].error)
  <1>1. call \in [Callers -> CallShape] /\ 0 \in 0 .. MaxRetries
        /\ (IF call[c].approved THEN "merge" ELSE "truncate") \in Steps
    BY GithubAssumption DEF Shapes, CallShape, Steps, Operations
  <1> DEFINE r == [call[c] EXCEPT !.pc = IF call[c].approved THEN "merge" ELSE "truncate",
                                  !.retries = 0, !.pull = github'.pulls]
  <1>2. r \in CallShape
    BY <1>1, Zenon DEF CallShape
  <1>3. call' = [call EXCEPT ![c] = r]
    BY <1>1 DEF Found
  <1>4. /\ r.pc = IF call[c].approved THEN "merge" ELSE "truncate"
        /\ r.retries = 0 /\ r.issue = call[c].issue /\ r.pull = github'.pulls
        /\ r.merged = call[c].merged /\ r.error = call[c].error
    BY <1>1 DEF CallShape
  <1> HIDE DEF r
  <1>5. Becomes(c, r.pc, r.retries, r.issue, r.pull, r.merged, r.error)
    BY <1>2, <1>3, Setting
  <1> QED
    BY <1>4, <1>5

LEMMA RetryBecomes ==
    ASSUME Shapes, NEW c \in Callers, Retry(c), call[c].pc \in Operations
    PROVE  Becomes(c, Operation(call[c].pc), call[c].retries + 1, call[c].issue,
                   call[c].pull, call[c].merged, call[c].error)
  <1>1. call \in [Callers -> CallShape] /\ Operation(call[c].pc) \in Steps
        /\ call[c].retries + 1 \in 0 .. MaxRetries
    BY GithubAssumption DEF Shapes, CallShape, Retry, Operation, Operations, Steps
  <1> DEFINE r == [call[c] EXCEPT !.pc = Operation(@), !.retries = @ + 1]
  <1>2. r \in CallShape
    BY <1>1, Zenon DEF CallShape
  <1>3. call' = [call EXCEPT ![c] = r]
    BY <1>1 DEF Retry
  <1>4. /\ r.pc = Operation(call[c].pc) /\ r.retries = call[c].retries + 1
        /\ r.issue = call[c].issue /\ r.pull = call[c].pull /\ r.merged = call[c].merged
        /\ r.error = call[c].error
    BY <1>1 DEF CallShape
  <1> HIDE DEF r
  <1>5. Becomes(c, r.pc, r.retries, r.issue, r.pull, r.merged, r.error)
    BY <1>2, <1>3, Setting
  <1> QED
    BY <1>4, <1>5

LEMMA BeginBecomes ==
    ASSUME Shapes, NEW c \in Callers, NEW approved \in BOOLEAN, NEW given \in BOOLEAN,
           NEW pushed \in BOOLEAN, Begin(c, approved, given, pushed)
    PROVE  Becomes(c, "lookup", 0, IF given THEN 1 ELSE 0, 0, FALSE, "none")
  <1>1. /\ Idle \in CallShape /\ call \in [Callers -> CallShape]
        /\ (IF given THEN 1 ELSE 0) \in Nat /\ "lookup" \in Steps
    BY IdleShape DEF Shapes, CallShape, Steps
  <1> DEFINE r == [Idle EXCEPT !.pc = "lookup", !.approved = approved,
                               !.issue = IF given THEN 1 ELSE 0]
  <1>2. r \in CallShape
    BY <1>1, Zenon DEF CallShape
  <1>3. call' = [call EXCEPT ![c] = r]
    BY <1>1 DEF Begin
  <1>4. /\ r.pc = "lookup" /\ r.retries = 0 /\ r.issue = IF given THEN 1 ELSE 0
        /\ r.pull = 0 /\ r.merged = FALSE /\ r.error = "none"
    BY <1>1 DEF Idle
  <1> HIDE DEF r
  <1>5. Becomes(c, r.pc, r.retries, r.issue, r.pull, r.merged, r.error)
    BY <1>2, <1>3, Setting
  <1> QED
    BY <1>4, <1>5

LEMMA CreateIssueBecomes ==
    ASSUME Shapes, NEW c \in Callers, CreateIssue(c)
    PROVE  Becomes(c, "source", 0, github.issues + 1, call[c].pull, call[c].merged,
                   call[c].error)
  <1>1. call \in [Callers -> CallShape] /\ 0 \in 0 .. MaxRetries
        /\ github.issues + 1 \in Nat /\ "source" \in Steps
    BY GithubAssumption DEF Shapes, CallShape, Steps, Operations
  <1> DEFINE r == [call[c] EXCEPT !.pc = "source", !.retries = 0,
                                  !.issue = github.issues + 1]
  <1>2. r \in CallShape
    BY <1>1, Zenon DEF CallShape
  <1>3. call' = [call EXCEPT ![c] = r]
    BY <1>1 DEF CreateIssue
  <1>4. /\ r.pc = "source" /\ r.retries = 0 /\ r.issue = github.issues + 1
        /\ r.pull = call[c].pull /\ r.merged = call[c].merged /\ r.error = call[c].error
    BY <1>1 DEF CallShape
  <1> HIDE DEF r
  <1>5. Becomes(c, r.pc, r.retries, r.issue, r.pull, r.merged, r.error)
    BY <1>2, <1>3, Setting
  <1> QED
    BY <1>4, <1>5

LEMMA MergeBecomes ==
    ASSUME Shapes, NEW c \in Callers, Merge(c)
    PROVE  Becomes(c, "truncate", call[c].retries, call[c].issue, call[c].pull, TRUE,
                   call[c].error)
  <1>1. call \in [Callers -> CallShape] /\ "truncate" \in Steps
    BY GithubAssumption DEF Shapes, CallShape, Steps
  <1> DEFINE r == [call[c] EXCEPT !.pc = "truncate", !.merged = TRUE]
  <1>2. r \in CallShape
    BY <1>1, Zenon DEF CallShape
  <1>3. call' = [call EXCEPT ![c] = r]
    BY <1>1 DEF Merge
  <1>4. /\ r.pc = "truncate" /\ r.retries = call[c].retries /\ r.issue = call[c].issue
        /\ r.pull = call[c].pull /\ r.merged = TRUE /\ r.error = call[c].error
    BY <1>1 DEF CallShape
  <1> HIDE DEF r
  <1>5. Becomes(c, r.pc, r.retries, r.issue, r.pull, r.merged, r.error)
    BY <1>2, <1>3, Setting
  <1> QED
    BY <1>4, <1>5

-----------------------------------------------------------------------------
(* What happens to the repository: nothing is lost.                        *)

Repository == [issues : Nat, branch : {"absent", "even", "ahead"}, pulls : Nat,
               open : BOOLEAN]

Grows(g) == /\ g \in Repository
            /\ github.issues <= g.issues /\ github.pulls <= g.pulls
            /\ g.pulls = github.pulls /\ ~github.open => ~g.open

(* The part of Counted that is about pulls, of a repository after k calls. *)
PullsCounted(g, k) == /\ g.pulls <= k
                      /\ ~g.open /\ g.branch = "ahead" => g.pulls < k
                      /\ g.open => g.pulls > 0

LEMMA EffectsGrow ==
    ASSUME Shapes
    PROVE  /\ Grows(github)
           /\ Grows(WithBranch) /\ WithBranch.issues = github.issues
           /\ Grows(WithMerge) /\ WithMerge.issues = github.issues
           /\ ~github.open => Grows(WithPull) /\ WithPull.issues = github.issues
           /\ LET g == [github EXCEPT !.issues = @ + 1] IN
              Grows(g) /\ g.issues = github.issues + 1
  <1> USE DEF Grows
  <1>1. github \in Repository
    BY DEF Shapes, Repository
  <1>2. Grows(github)
    BY <1>1 DEF Repository
  <1>3. Grows(WithBranch) /\ WithBranch.issues = github.issues
    BY <1>1 DEF Repository, WithBranch
  <1>4. Grows(WithMerge) /\ WithMerge.issues = github.issues
    <2>1. WithMerge.open = FALSE
      BY <1>1, Zenon DEF Repository, WithMerge
    <2>2. /\ WithMerge.issues = github.issues /\ WithMerge.pulls = github.pulls
          /\ WithMerge \in Repository
      BY <1>1 DEF Repository, WithMerge
    <2>3. github.pulls \in Nat /\ github.issues \in Nat
      BY <1>1 DEF Repository
    <2> QED
      BY <2>1, <2>2, <2>3
  <1>5. ~github.open => Grows(WithPull) /\ WithPull.issues = github.issues
    <2>1. github.pulls + 1 \in Nat
      BY <1>1 DEF Repository
    <2>2. WithPull \in Repository
      BY <1>1, <2>1, Zenon DEF Repository, WithPull
    <2>3. /\ WithPull.pulls = github.pulls + 1 /\ WithPull.issues = github.issues
      BY <1>1 DEF Repository, WithPull
    <2>4. github.pulls \in Nat /\ github.issues \in Nat
      BY <1>1 DEF Repository
    <2> QED
      BY <2>2, <2>3, <2>4
  <1>6. LET g == [github EXCEPT !.issues = @ + 1] IN
        Grows(g) /\ g.issues = github.issues + 1
    BY <1>1 DEF Repository
  <1> QED
    BY <1>2, <1>3, <1>4, <1>5, <1>6

LEMMA EffectsCount ==
    ASSUME Shapes, NEW k \in Nat, PullsCounted(github, k)
    PROVE  /\ PullsCounted(WithBranch, k)
           /\ PullsCounted(WithMerge, k)
           /\ ~github.open /\ github.branch = "ahead" => PullsCounted(WithPull, k)
           /\ PullsCounted([github EXCEPT !.issues = @ + 1], k)
  <1> USE DEF PullsCounted
  <1>1. github \in Repository
    BY DEF Shapes, Repository
  <1>2. PullsCounted(WithBranch, k)
    BY <1>1 DEF Repository, WithBranch
  <1>3. PullsCounted(WithMerge, k)
    <2>1. WithMerge.open = FALSE /\ WithMerge.branch = "even"
      BY <1>1, Zenon DEF Repository, WithMerge
    <2>2. WithMerge.pulls = github.pulls
      BY <1>1 DEF Repository, WithMerge
    <2> QED
      BY <2>1, <2>2
  <1>4. ~github.open /\ github.branch = "ahead" => PullsCounted(WithPull, k)
    <2>1. WithPull.pulls = github.pulls + 1 /\ WithPull.open
      BY <1>1 DEF Repository, WithPull
    <2>2. github.pulls \in Nat
      BY <1>1 DEF Repository
    <2> QED
      BY <2>1, <2>2
  <1>5. PullsCounted([github EXCEPT !.issues = @ + 1], k)
    BY <1>1 DEF Repository
  <1> QED
    BY <1>2, <1>3, <1>4, <1>5

LEMMA GrowthKeepsMerged ==
    ASSUME Shapes, Grows(github'), NEW n \in Nat, Merged(n)
    PROVE  Merged(n)'
  <1>1. /\ github.pulls \in Nat /\ github'.pulls \in Nat
    BY DEF Shapes, Grows, Repository
  <1> QED
    BY <1>1 DEF Merged, Grows

-----------------------------------------------------------------------------
(* The kinds of steps.                                                     *)

(* A call ends, by itself or by the death of its process.                  *)
Ends(c) ==
    /\ Busy(c)
    /\ UNCHANGED <<github, cache, calls>>
    /\ \E e \in Errors : /\ Becomes(c, "idle", 0, 0, 0, FALSE, e)
                         /\ e = "exists" => call[c].pc = "pull" /\ github.open
    /\ seen' \in Histories /\ seen'.overlap = seen.overlap /\ seen'.lost = seen.lost
    /\ seen'.stopped \/ (Held /\ seen' = seen)

Transitions == {<<"lookup", "issue">>, <<"lookup", "source">>, <<"source", "ref">>,
                <<"ref", "refs">>, <<"refs", "list">>, <<"list", "compare">>,
                <<"compare", "pull">>}

(* A call goes on to the next command.                                     *)
Moves(c, to, retries) ==
    /\ UNCHANGED <<cache, calls, seen>>
    /\ github' \in {github, WithBranch}
    /\ <<call[c].pc, to>> \in Transitions
    /\ Becomes(c, to, retries, call[c].issue, call[c].pull, call[c].merged, call[c].error)
    /\ call[c].pc = "lookup" => /\ cache = Absent
                                /\ retries = call[c].retries
                                /\ to = "issue" <=> call[c].issue = 0
    /\ to = "compare" => ~github.open

(* It has found, or created, its pull.                                     *)
Finds(c) ==
    /\ UNCHANGED <<cache, calls, seen>>
    /\ Becomes(c, IF call[c].approved THEN "merge" ELSE "truncate", 0, call[c].issue,
               github'.pulls, call[c].merged, call[c].error)
    /\ \/ call[c].pc = "list" /\ github.open /\ github' = github
       \/ /\ call[c].pc = "pull" /\ ~github.open /\ github.branch = "ahead"
          /\ github' = WithPull

LEMMA FailEnds ==
    ASSUME Shapes, NEW c \in Callers, Busy(c), NEW e \in Errors,
           Fail(c, e), UNCHANGED <<github, cache, calls>>,
           e = "exists" => call[c].pc = "pull" /\ github.open
    PROVE  Ends(c)
  <1>1. Becomes(c, "idle", 0, 0, 0, FALSE, e)
    BY EndBecomes DEF Fail
  <1>2. /\ seen' \in Histories /\ seen'.overlap = seen.overlap /\ seen'.lost = seen.lost
        /\ seen'.stopped
    BY DEF Fail, Shapes, Histories
  <1> QED
    BY <1>1, <1>2 DEF Ends

LEMMA StepKinds ==
    ASSUME Shapes, NEW c \in Callers, Step(c) \/ Die(c)
    PROVE  \/ Ends(c)
           \/ \E to, retries : Moves(c, to, retries)
           \/ Finds(c)
           \/ CreateIssue(c) \/ Merge(c) \/ TransientError(c) \/ Truncate(c) \/ Write(c)
           \/ WriteMixed(c)
  <1>1. CASE Lookup(c)
    <2>1. call[c].pc = "lookup" /\ Busy(c) /\ UNCHANGED <<github, cache, calls>>
      BY <1>1 DEF Lookup, At, Busy
    <2>2. CASE cache = Absent
      <3> DEFINE to == IF call[c].issue = 0 THEN "issue" ELSE "source"
      <3>1. Goto(c, to) /\ seen' = seen /\ to \in Steps
        BY <1>1, <2>2 DEF Lookup, Absent, Torn, Steps, Operations
      <3>2. <<call[c].pc, to>> \in Transitions
        BY <2>1 DEF Transitions
      <3>3. Becomes(c, to, call[c].retries, call[c].issue, call[c].pull, call[c].merged,
                    call[c].error)
        BY <3>1, GotoBecomes
      <3>4. to = "issue" <=> call[c].issue = 0
        OBVIOUS
      <3>5. to # "compare"
        OBVIOUS
      <3> HIDE DEF to
      <3>6. Moves(c, to, call[c].retries)
        BY <2>1, <2>2, <3>1, <3>2, <3>3, <3>4, <3>5 DEF Moves
      <3> QED
        BY <3>6
    <2>3. CASE cache = Torn
      <3>1. Fail(c, "torn")
        BY <1>1, <2>3 DEF Lookup, Absent, Torn
      <3> QED
        BY <2>1, <3>1, FailEnds DEF Errors
    <2>4. CASE Held
      <3>1. End(c, "none") /\ seen' = seen
        BY <1>1, <2>4 DEF Lookup, Held
      <3>2. Becomes(c, "idle", 0, 0, 0, FALSE, "none") /\ seen \in Histories
        BY <3>1, EndBecomes DEF Errors, Shapes
      <3> QED
        BY <2>1, <2>4, <3>1, <3>2 DEF Ends, Errors
    <2> QED
      BY <2>2, <2>3, <2>4 DEF Held
  <1>2. CASE ReadSource(c) \/ ReadRefs(c)
    <2>1. PICK to \in {"ref", "list"} : Goto(c, to) /\ <<call[c].pc, to>> \in Transitions
      BY <1>2 DEF ReadSource, ReadRefs, At, Transitions
    <2>2. to \in Steps /\ call[c].pc # "lookup" /\ to # "compare"
      BY <1>2, <2>1 DEF ReadSource, ReadRefs, At, Steps, Operations
    <2>3. UNCHANGED <<github, cache, calls, seen>>
      BY <1>2 DEF ReadSource, ReadRefs
    <2>4. Moves(c, to, call[c].retries)
      BY <2>1, <2>2, <2>3, GotoBecomes DEF Moves
    <2> QED
      BY <2>4
  <1>3. CASE CreateBranch(c)
    <2>1. /\ Proceed(c, "refs") /\ call[c].pc = "ref" /\ "refs" \in Steps
          /\ github' = WithBranch /\ UNCHANGED <<cache, calls, seen>>
      BY <1>3 DEF CreateBranch, At, Steps, Operations
    <2>2. Moves(c, "refs", 0)
      BY <2>1, ProceedBecomes DEF Moves, Transitions
    <2> QED
      BY <2>2
  <1>4. CASE ListPulls(c)
    <2>1. call[c].pc = "list" /\ UNCHANGED <<github, cache, calls, seen>>
      BY <1>4 DEF ListPulls, At
    <2>2. CASE github.open
      <3>1. Found(c) /\ github'.pulls \in Nat
        BY <1>4, <2>1, <2>2 DEF ListPulls, Shapes
      <3> QED
        BY <2>1, <2>2, <3>1, FoundBecomes DEF Finds
    <2>3. CASE ~github.open
      <3>1. Goto(c, "compare") /\ "compare" \in Steps
        BY <1>4, <2>3 DEF ListPulls, Steps, Operations
      <3>2. Moves(c, "compare", call[c].retries)
        BY <2>1, <2>3, <3>1, GotoBecomes DEF Moves, Transitions
      <3> QED
        BY <3>2
    <2> QED
      BY <2>2, <2>3
  <1>5. CASE Compare(c)
    <2>1. call[c].pc = "compare" /\ Busy(c) /\ UNCHANGED <<github, cache, calls>>
      BY <1>5 DEF Compare, At, Busy
    <2>2. CASE Goto(c, "pull") /\ UNCHANGED seen
      <3>1. Moves(c, "pull", call[c].retries)
        BY <2>1, <2>2, GotoBecomes DEF Moves, Transitions, Steps, Operations
      <3> QED
        BY <3>1
    <2>3. CASE Fail(c, "nothing")
      BY <2>1, <2>3, FailEnds DEF Errors
    <2> QED
      BY <1>5, <2>2, <2>3 DEF Compare
  <1>6. CASE CreatePull(c)
    <2>1. call[c].pc = "pull" /\ Busy(c) /\ UNCHANGED <<cache, calls>>
      BY <1>6 DEF CreatePull, At, Busy
    <2>2. CASE /\ ~github.open /\ github.branch = "ahead"
               /\ github' = WithPull /\ Found(c) /\ UNCHANGED seen
      <3>1. github'.pulls \in Nat
        BY <2>2, EffectsGrow DEF Grows, Repository
      <3> QED
        BY <2>1, <2>2, <3>1, FoundBecomes DEF Finds
    <2>3. CASE github.open /\ Fail(c, "exists") /\ UNCHANGED github
      BY <2>1, <2>3, FailEnds DEF Errors
    <2>4. CASE Fail(c, "nothing") /\ UNCHANGED github
      BY <2>1, <2>4, FailEnds DEF Errors
    <2> QED
      BY <1>6, <2>2, <2>3, <2>4 DEF CreatePull
  <1>7. CASE Refused(c)
    <2>1. Busy(c) /\ Fail(c, "refused") /\ UNCHANGED <<github, cache, calls>>
      BY <1>7 DEF Refused, At, Busy, Operations
    <2> QED
      BY <2>1, FailEnds DEF Errors
  <1>8. CASE Die(c)
    <2>1. Idle.error = "none" /\ [Idle EXCEPT !.error = "none"] = Idle
      BY DEF Idle
    <2>2. End(c, "none")
      BY <1>8, <2>1 DEF Die, End
    <2>3. Fail(c, "none") /\ Busy(c) /\ UNCHANGED <<github, cache, calls>>
      BY <1>8, <2>2 DEF Die, Fail
    <2> QED
      BY <2>3, FailEnds DEF Errors
  <1> QED
    BY <1>1, <1>2, <1>3, <1>4, <1>5, <1>6, <1>7, <1>8 DEF Step

-----------------------------------------------------------------------------
(* The parts of the invariant, kept by every action.                       *)

(* What a call knows stays true while the repository grows.                *)
LEMMA KnowsKept ==
    ASSUME Shapes, Grows(github'), NEW c \in Callers, Own(c),
           \A d \in Callers : Knows(d), Knows(c)'
    PROVE  \A d \in Callers : Knows(d)'
  <1> SUFFICES ASSUME NEW d \in Callers, d # c
               PROVE  Knows(d)'
    OBVIOUS
  <1>1. call'[d] = call[d]
    BY DEF Own
  <1>2. /\ call[d].issue \in Nat /\ call[d].pull \in Nat
        /\ github.issues \in Nat /\ github.pulls \in Nat
        /\ github'.issues \in Nat /\ github'.pulls \in Nat
        /\ github.issues <= github'.issues /\ github.pulls <= github'.pulls
    BY DEF Shapes, Grows, Repository
  <1>3. Knows(d)
    OBVIOUS
  <1>4. call[d].merged => Merged(call[d].pull)'
    <2> SUFFICES ASSUME call[d].merged
                 PROVE  Merged(call[d].pull)'
      OBVIOUS
    <2>1. Merged(call[d].pull)
      BY <1>3 DEF Knows
    <2> QED
      BY <1>1, <1>2, <2>1, GrowthKeepsMerged
  <1> QED
    BY <1>1, <1>2, <1>3, <1>4 DEF Knows

LEMMA KeptResultKept ==
    ASSUME Shapes, Grows(github'), KeptResultTrue, cache' = cache
    PROVE  KeptResultTrue'
  <1> SUFFICES ASSUME cache \notin {Absent, Torn}
               PROVE  /\ cache.result.issue \in 1 .. github'.issues
                      /\ cache.result.pull \in 1 .. github'.pulls
                      /\ cache.result.merged => Merged(cache.result.pull)'
    BY DEF KeptResultTrue
  <1>1. /\ github.issues \in Nat /\ github.pulls \in Nat
        /\ github'.issues \in Nat /\ github'.pulls \in Nat
        /\ github.issues <= github'.issues /\ github.pulls <= github'.pulls
    BY DEF Shapes, Grows, Repository
  <1>2. /\ cache.result.issue \in 1 .. github.issues
        /\ cache.result.pull \in 1 .. github.pulls
        /\ cache.result.merged => Merged(cache.result.pull)
    BY DEF KeptResultTrue
  <1>3. cache.result.merged => Merged(cache.result.pull)'
    BY <1>1, <1>2, GrowthKeepsMerged
  <1> QED
    BY <1>1, <1>2, <1>3

(* Attempts, which only a new call adds.                                   *)
LEMMA AttemptsLeftType ==
    ASSUME Shapes, NEW c \in Callers
    PROVE  /\ AttemptsLeft(c) \in 0 .. MaxRetries + 1
           /\ AttemptsLeft(c) \in Nat /\ 0 <= AttemptsLeft(c)
           /\ AttemptsLeft(c) > 0 => <<c, AttemptsLeft(c)>> \in Attempts
  <1>1. call[c].retries \in 0 .. MaxRetries
    BY DEF Shapes
  <1>2. AttemptsLeft(c) \in 0 .. MaxRetries + 1
    BY <1>1, GithubAssumption DEF AttemptsLeft
  <1> QED
    BY <1>2, GithubAssumption DEF Attempts

LEMMA AttemptsShrink ==
    ASSUME NEW c \in Callers, Own(c), Shapes, Shapes', IsFiniteSet(Attempts),
           AttemptsLeft(c)' <= AttemptsLeft(c)
    PROVE  /\ IsFiniteSet(Attempts') /\ Cardinality(Attempts') \in Nat
           /\ Cardinality(Attempts) \in Nat
           /\ Cardinality(Attempts') <= Cardinality(Attempts)
           /\ AttemptsLeft(c)' < AttemptsLeft(c)
                  => Cardinality(Attempts') + 1 <= Cardinality(Attempts)
  <1>1. /\ AttemptsLeft(c) \in 0 .. MaxRetries + 1
        /\ AttemptsLeft(c)' \in 0 .. MaxRetries + 1
        /\ AttemptsLeft(c) > 0 => <<c, AttemptsLeft(c)>> \in Attempts
    <2>1. AttemptsLeft(c)' \in 0 .. MaxRetries + 1
      <3>1. call'[c].retries \in 0 .. MaxRetries
        BY DEF Shapes
      <3> QED
        BY <3>1, GithubAssumption DEF AttemptsLeft
    <2> QED
      BY <2>1, AttemptsLeftType
  <1>2. \A d \in Callers \ {c} : AttemptsLeft(d)' = AttemptsLeft(d)
    BY DEF Own, AttemptsLeft
  <1>3. Attempts' \subseteq Attempts
    <2> SUFFICES ASSUME NEW t \in Attempts'
                 PROVE  t \in Attempts
      OBVIOUS
    <2>1. /\ t \in Callers \X (1 .. MaxRetries + 1) /\ t[2] <= AttemptsLeft(t[1])'
      BY DEF Attempts
    <2>2. t[1] \in Callers /\ t[2] \in 1 .. MaxRetries + 1
      BY <2>1
    <2>3. t[2] <= AttemptsLeft(t[1])
      BY <1>1, <1>2, <2>1, <2>2, GithubAssumption
    <2> QED
      BY <2>1, <2>3 DEF Attempts
  <1>4. /\ IsFiniteSet(Attempts') /\ Cardinality(Attempts') <= Cardinality(Attempts)
    BY <1>3, FS_Subset
  <1>5. Cardinality(Attempts) \in Nat /\ Cardinality(Attempts') \in Nat
    BY <1>4, FS_CardinalityType
  <1>6. ASSUME AttemptsLeft(c)' < AttemptsLeft(c)
        PROVE  Cardinality(Attempts') + 1 <= Cardinality(Attempts)
    <2> DEFINE t == <<c, AttemptsLeft(c)>>
    <2>1. t \in Attempts
      BY <1>1, <1>6
    <2>2. t \notin Attempts'
      BY <1>1, <1>6 DEF Attempts
    <2> HIDE DEF t
    <2>3. Attempts' \subseteq Attempts \ {t}
      BY <1>3, <2>2
    <2>4. /\ IsFiniteSet(Attempts \ {t})
          /\ Cardinality(Attempts \ {t}) = Cardinality(Attempts) - 1
      BY <2>1, FS_RemoveElement
    <2>5. Cardinality(Attempts') <= Cardinality(Attempts \ {t})
      BY <2>3, <2>4, FS_Subset
    <2> QED
      BY <1>5, <2>4, <2>5
  <1> QED
    BY <1>4, <1>5, <1>6

-----------------------------------------------------------------------------
(* The parts that an action may disturb only for the call that takes it.   *)

(* An issue is made by an attempt, which is then spent.                    *)
LEMMA CountedKept ==
    ASSUME Shapes, Shapes', Counted, NEW c \in Callers, Own(c), calls' = calls,
           PullsCounted(github', calls),
           \/ github'.issues = github.issues /\ AttemptsLeft(c)' <= AttemptsLeft(c)
           \/ github'.issues = github.issues + 1 /\ AttemptsLeft(c)' < AttemptsLeft(c)
    PROVE  Counted'
  <1>1. AttemptsLeft(c) \in Nat /\ AttemptsLeft(c)' \in Nat
    <2>1. call[c].retries \in 0 .. MaxRetries /\ call'[c].retries \in 0 .. MaxRetries
      BY DEF Shapes
    <2> QED
      BY <2>1, GithubAssumption DEF AttemptsLeft
  <1>2. /\ IsFiniteSet(Attempts') /\ Cardinality(Attempts') \in Nat
        /\ Cardinality(Attempts) \in Nat
        /\ Cardinality(Attempts') <= Cardinality(Attempts)
        /\ AttemptsLeft(c)' < AttemptsLeft(c)
               => Cardinality(Attempts') + 1 <= Cardinality(Attempts)
    BY <1>1, AttemptsShrink DEF Counted
  <1>3. github'.issues + Cardinality(Attempts') <= calls * (MaxRetries + 1)
    <2>1. /\ github.issues \in Nat /\ github'.issues \in Nat
          /\ calls \in Nat /\ MaxRetries + 1 \in Nat
      BY GithubAssumption DEF Shapes
    <2> DEFINE bound == calls * (MaxRetries + 1)
    <2>2. bound \in Nat
      BY <2>1
    <2>3. github.issues + Cardinality(Attempts) <= bound
      BY DEF Counted
    <2> HIDE DEF bound
    <2>4. github'.issues + Cardinality(Attempts') <= bound
      BY <1>2, <2>1, <2>2, <2>3
    <2> QED
      BY <2>4 DEF bound
  <1> QED
    BY <1>2, <1>3 DEF Counted, PullsCounted

LEMMA AloneKept ==
    ASSUME Alone, NEW c \in Callers, Busy(c), Own(c), seen'.overlap = seen.overlap,
           ~seen.overlap => /\ call'[c].pc \in {"compare", "pull"} => ~github'.open
                            /\ call'[c].error # "exists"
                            /\ Busy(c)' /\ Held' => call'[c].pc = "lookup"
    PROVE  Alone'
  <1> SUFFICES ASSUME ~seen.overlap
               PROVE  /\ \A d, e \in Callers : Busy(d)' /\ Busy(e)' => d = e
                      /\ \A d \in Callers :
                            /\ call'[d].pc \in {"compare", "pull"} => ~github'.open
                            /\ call'[d].error # "exists"
                            /\ Busy(d)' /\ Held' => call'[d].pc = "lookup"
    BY DEF Alone
  <1>1. \A d \in Callers \ {c} : /\ ~Busy(d) /\ ~Busy(d)'
                                 /\ call'[d].pc = "idle" /\ call'[d].error # "exists"
    BY DEF Alone, Own, Busy, At
  <1> QED
    BY <1>1

(* The same of a call that goes on, and neither writes nor makes an issue. *)
LEMMA UndisturbedKept ==
    ASSUME Alone, Undisturbed, NEW c \in Callers, Busy(c), Own(c),
           seen' \in Histories, seen'.overlap = seen.overlap,
           ~seen'.lost => ~seen.lost, ~seen'.stopped => ~seen.stopped,
           ~seen'.lost /\ ~seen'.stopped =>
               /\ cache' = cache /\ github'.issues = github.issues
               /\ call[c].pc # "write" /\ call'[c].pc \notin {"idle", "write"}
               /\ call'[c].issue = call[c].issue
    PROVE  Undisturbed'
  <1> SUFFICES ASSUME ~seen'.overlap, ~seen'.lost, ~seen'.stopped
               PROVE  /\ github'.issues <= 1
                      /\ cache = Absent /\ (\A d \in Callers : ~Busy(d)') => github'.issues = 0
                      /\ cache = Torn => \E d \in Callers : call'[d].pc = "write"
                      /\ \A d \in Callers :
                            /\ cache = Absent /\ Busy(d)' => call'[d].issue = github'.issues
                            /\ call'[d].pc = "write" => cache = Torn
    BY DEF Undisturbed
  <1>1. /\ ~seen.overlap /\ ~seen.lost /\ ~seen.stopped
    OBVIOUS
  <1>2. \A d \in Callers \ {c} : /\ ~Busy(d) /\ ~Busy(d)'
                                 /\ call[d].pc = "idle" /\ call'[d].pc = "idle"
    BY <1>1 DEF Alone, Own, Busy, At
  <1>3. Busy(c)'
    BY DEF Busy, At
  <1>4. /\ github.issues <= 1
        /\ cache = Torn => \E d \in Callers : call[d].pc = "write"
        /\ cache = Absent => call[c].issue = github.issues
    BY <1>1 DEF Undisturbed
  <1>5. cache # Torn
    BY <1>2, <1>4
  <1> QED
    BY <1>2, <1>3, <1>4, <1>5

-----------------------------------------------------------------------------
(* A transient error is an end, or a retry.                                *)
Suffers(c) ==
    /\ UNCHANGED <<cache, calls>>
    /\ call[c].pc \in Operations
    /\ github' \in {github, Effect(c)}
    /\ seen' \in Histories /\ seen'.overlap = seen.overlap
    /\ seen.lost => seen'.lost
    /\ seen.stopped => seen'.stopped
    /\ github' # github /\ call[c].pc = "issue" => seen'.lost
    /\ \/ /\ Becomes(c, Operation(call[c].pc), call[c].retries + 1, call[c].issue,
                      call[c].pull, call[c].merged, call[c].error)
          /\ call[c].retries < MaxRetries
       \/ /\ Becomes(c, "idle", 0, 0, 0, FALSE, "transient")
          /\ seen'.stopped

LEMMA TransientErrorSuffers ==
    ASSUME Shapes, NEW c \in Callers, TransientError(c)
    PROVE  Suffers(c)
  <1> PICK done \in BOOLEAN :
         /\ github' = IF done THEN Effect(c) ELSE github
         /\ \/ Retry(c) /\ seen' = [seen EXCEPT !.lost = @ \/ (done /\ At(c, "issue"))]
            \/ /\ call[c].retries = MaxRetries
               /\ End(c, "transient")
               /\ seen' = [seen EXCEPT !.lost = @ \/ (done /\ At(c, "issue")),
                                       !.stopped = TRUE]
    BY DEF TransientError
  <1>1. call[c].pc \in Operations /\ UNCHANGED <<cache, calls>>
    BY DEF TransientError
  <1>2. github' \in {github, Effect(c)}
    BY Zenon
  <1>3. github' # github => done
    BY Zenon
  <1>4. (seen.lost \/ (done /\ At(c, "issue"))) \in BOOLEAN /\ seen \in Histories
    BY DEF Shapes, Histories
  <1>5. CASE Retry(c) /\ seen' = [seen EXCEPT !.lost = @ \/ (done /\ At(c, "issue"))]
    <2>1. /\ Becomes(c, Operation(call[c].pc), call[c].retries + 1, call[c].issue,
                     call[c].pull, call[c].merged, call[c].error)
          /\ call[c].retries < MaxRetries
      BY <1>1, <1>5, RetryBecomes DEF Retry
    <2>2. /\ seen' \in Histories /\ seen'.overlap = seen.overlap
          /\ seen'.stopped = seen.stopped
          /\ seen'.lost = (seen.lost \/ (done /\ At(c, "issue")))
      BY <1>4, <1>5, Zenon DEF Histories
    <2> QED
      BY <1>1, <1>2, <1>3, <2>1, <2>2 DEF Suffers, At
  <1>6. CASE /\ End(c, "transient")
             /\ seen' = [seen EXCEPT !.lost = @ \/ (done /\ At(c, "issue")),
                                     !.stopped = TRUE]
    <2>1. Becomes(c, "idle", 0, 0, 0, FALSE, "transient")
      BY <1>6, EndBecomes DEF Errors
    <2>2. /\ seen' \in Histories /\ seen'.overlap = seen.overlap
          /\ seen'.stopped = TRUE
          /\ seen'.lost = (seen.lost \/ (done /\ At(c, "issue")))
      BY <1>4, <1>6, Zenon DEF Histories
    <2> QED
      BY <1>1, <1>2, <1>3, <2>1, <2>2 DEF Suffers, At
  <1> QED
    BY <1>5, <1>6

LEMMA EffectKinds ==
    ASSUME Shapes, Counted, NEW c \in Callers
    PROVE  /\ Grows(Effect(c)) /\ PullsCounted(Effect(c), calls)
           /\ Effect(c).issues = IF call[c].pc = "issue" THEN github.issues + 1
                                                        ELSE github.issues
  <1>1. PullsCounted(github, calls) /\ calls \in Nat
    BY GithubAssumption DEF Counted, PullsCounted, Shapes
  <1>2. github.issues \in Nat
    BY DEF Shapes
  <1>3. CASE At(c, "issue")
    <2>1. Effect(c) = [github EXCEPT !.issues = @ + 1]
      BY <1>3 DEF Effect, At
    <2> QED
      BY <1>1, <1>3, <2>1, EffectsGrow, EffectsCount DEF At
  <1>4. CASE At(c, "ref")
    <2>1. Effect(c) = WithBranch
      BY <1>4 DEF Effect, At
    <2> QED
      BY <1>1, <1>4, <2>1, EffectsGrow, EffectsCount DEF At
  <1>5. CASE At(c, "pull") /\ ~github.open /\ github.branch = "ahead"
    <2>1. Effect(c) = WithPull
      BY <1>5 DEF Effect, At
    <2> QED
      BY <1>1, <1>5, <2>1, EffectsGrow, EffectsCount DEF At
  <1>6. CASE At(c, "merge") /\ Mergeable(c)
    <2>1. Effect(c) = WithMerge
      BY <1>6 DEF Effect, At
    <2> QED
      BY <1>1, <1>6, <2>1, EffectsGrow, EffectsCount DEF At
  <1>7. CASE /\ ~At(c, "issue") /\ ~At(c, "ref") /\ ~(At(c, "merge") /\ Mergeable(c))
             /\ ~(At(c, "pull") /\ ~github.open /\ github.branch = "ahead")
    <2>1. Effect(c) = github
      BY <1>7 DEF Effect
    <2> QED
      BY <1>1, <1>7, <2>1, EffectsGrow DEF At
  <1> QED
    BY <1>3, <1>4, <1>5, <1>6, <1>7

-----------------------------------------------------------------------------
(* The invariant, kind by kind.                                            *)

LEMMA EndsKeeps ==
    ASSUME Inv, NEW c \in Callers, Ends(c)
    PROVE  Inv'
  <1>1. /\ Shapes /\ (\A d \in Callers : Knows(d)) /\ KeptResultTrue
        /\ Counted /\ Alone /\ Undisturbed
    BY DEF Inv
  <1> PICK e \in Errors : /\ Becomes(c, "idle", 0, 0, 0, FALSE, e)
                          /\ e = "exists" => call[c].pc = "pull" /\ github.open
    BY DEF Ends
  <1>2. /\ call' \in [Callers -> CallShape] /\ Own(c)
        /\ call'[c].pc = "idle" /\ call'[c].error = e /\ call'[c].merged = FALSE
        /\ call'[c].issue = 0 /\ call'[c].pull = 0
    BY DEF Becomes
  <1>3. /\ Busy(c) /\ UNCHANGED <<github, cache, calls>>
        /\ seen' \in Histories /\ seen'.overlap = seen.overlap
        /\ seen'.lost = seen.lost
        /\ seen'.stopped \/ (Held /\ seen' = seen)
    BY DEF Ends
  <1>4. Shapes'
    BY <1>1, <1>2, <1>3 DEF Shapes, CallShape
  <1>5. Grows(github')
    BY <1>1, <1>3, EffectsGrow
  <1>6. \A d \in Callers : Knows(d)'
    <2>1. github'.issues \in Nat /\ github'.pulls \in Nat
      BY <1>4 DEF Shapes
    <2>2. Knows(c)'
      BY <1>2, <2>1 DEF Knows
    <2> QED
      BY <1>1, <1>2, <1>5, <2>2, KnowsKept
  <1>7. KeptResultTrue'
    BY <1>1, <1>3, <1>5, KeptResultKept
  <1>8. Counted'
    <2>1. PullsCounted(github', calls)
      BY <1>1, <1>3 DEF Counted, PullsCounted
    <2>2. AttemptsLeft(c)' = 0
      BY <1>2 DEF AttemptsLeft
    <2>3. 0 <= AttemptsLeft(c)
      BY <1>1, AttemptsLeftType
    <2> QED
      BY <1>1, <1>2, <1>3, <1>4, <2>1, <2>2, <2>3, CountedKept
  <1>9. Alone'
    <2>1. ~Busy(c)'
      BY <1>2 DEF Busy, At
    <2>2. ~seen.overlap => e # "exists"
      BY <1>1 DEF Alone
    <2> QED
      BY <1>1, <1>2, <1>3, <2>1, <2>2, AloneKept
  <1>10. Undisturbed'
    <2> SUFFICES ASSUME ~seen'.overlap, ~seen'.lost, ~seen'.stopped
                 PROVE  Undisturbed'
      BY DEF Undisturbed
    <2>1. Held /\ seen' = seen
      BY <1>3
    <2>2. github.issues <= 1
      BY <1>1, <2>1 DEF Undisturbed
    <2>3. \A d \in Callers : call'[d].pc = "idle"
      BY <1>1, <1>2, <1>3, <2>1 DEF Alone, Own, Busy, At
    <2> QED
      BY <1>3, <2>1, <2>2, <2>3 DEF Undisturbed, Held
  <1> QED
    BY <1>4, <1>6, <1>7, <1>8, <1>9, <1>10 DEF Inv

LEMMA MovesKeeps ==
    ASSUME Inv, NEW c \in Callers, NEW to, NEW retries, Moves(c, to, retries)
    PROVE  Inv'
  <1>1. /\ Shapes /\ (\A d \in Callers : Knows(d)) /\ KeptResultTrue
        /\ Counted /\ Alone /\ Undisturbed
    BY DEF Inv
  <1>2. /\ call' \in [Callers -> CallShape] /\ Own(c)
        /\ call'[c].pc = to /\ call'[c].retries = retries
        /\ call'[c].issue = call[c].issue /\ call'[c].pull = call[c].pull
        /\ call'[c].merged = call[c].merged /\ call'[c].error = call[c].error
    BY DEF Becomes, Moves
  <1>3. /\ UNCHANGED <<cache, calls, seen>>
        /\ github' \in {github, WithBranch}
        /\ <<call[c].pc, to>> \in Transitions
        /\ to = "compare" => ~github.open
    BY DEF Moves
  <1>4. /\ call[c].pc = "lookup" => cache = Absent /\ retries = call[c].retries
        /\ call[c].pc = "lookup" => (to = "issue" <=> call[c].issue = 0)
    BY DEF Moves
  <1>5. /\ call[c].pc \in {"lookup", "source", "ref", "refs", "list", "compare"}
        /\ to \in {"issue", "source", "ref", "refs", "list", "compare", "pull"}
        /\ to = "issue" => call[c].pc = "lookup"
        /\ to = "pull" => call[c].pc = "compare"
    BY <1>3 DEF Transitions
  <1>6. Grows(github') /\ github'.issues = github.issues /\ PullsCounted(github', calls)
        /\ github'.open = github.open
    <2>1. PullsCounted(github, calls) /\ calls \in Nat
      BY <1>1, GithubAssumption DEF Counted, PullsCounted, Shapes
    <2>2. WithBranch.open = github.open
      BY <1>1 DEF WithBranch, Shapes
    <2> QED
      BY <1>1, <1>3, <2>1, <2>2, EffectsGrow, EffectsCount
  <1>7. Shapes'
    BY <1>1, <1>2, <1>3, <1>6 DEF Shapes, CallShape, Grows, Repository
  <1>8. \A d \in Callers : Knows(d)'
    <2>1. Knows(c) /\ github.issues \in Nat /\ github.pulls \in Nat
          /\ github'.issues \in Nat /\ github'.pulls \in Nat
          /\ call[c].issue \in Nat /\ call[c].pull \in Nat
      BY <1>1, <1>7 DEF Shapes
    <2>2. github.issues <= github'.issues /\ github.pulls <= github'.pulls
      BY <1>6 DEF Grows
    <2>3. ~call[c].merged
      BY <1>5, <2>1 DEF Knows
    <2>4. to # "issue" => call[c].issue > 0
      BY <1>4, <1>5, <2>1 DEF Knows
    <2>5. Knows(c)'
      BY <1>2, <1>4, <1>5, <2>1, <2>2, <2>3, <2>4 DEF Knows
    <2> QED
      BY <1>1, <1>2, <1>6, <2>5, KnowsKept
  <1>9. KeptResultTrue'
    BY <1>1, <1>3, <1>6, KeptResultKept
  <1>10. Counted'
    <2>1. /\ AttemptsLeft(c) \in Nat /\ 0 <= AttemptsLeft(c)
      BY <1>1, AttemptsLeftType
    <2>2. AttemptsLeft(c)' <= AttemptsLeft(c)
      <3>1. CASE to = "issue"
        <4>1. call[c].pc = "lookup" /\ retries = call[c].retries
          BY <1>4, <1>5, <3>1
        <4>2. AttemptsLeft(c)' = AttemptsLeft(c)
          BY <1>2, <3>1, <4>1 DEF AttemptsLeft
        <4> QED
          BY <2>1, <4>2
      <3>2. CASE to # "issue"
        <4>1. AttemptsLeft(c)' = 0
          BY <1>2, <1>5, <3>2 DEF AttemptsLeft
        <4> QED
          BY <2>1, <4>1
      <3> QED
        BY <3>1, <3>2
    <2> QED
      BY <1>1, <1>2, <1>3, <1>6, <1>7, <2>2, CountedKept
  <1>11. Busy(c)
    BY <1>5 DEF Busy, At
  <1>12. Alone'
    <2>1. ~seen.overlap => (Held => call[c].pc = "lookup")
      BY <1>1, <1>11 DEF Alone
    <2>2. ~seen.overlap => ~Held
      BY <1>4, <2>1 DEF Held
    <2>3. Held' = Held
      BY <1>3 DEF Held
    <2>4. ~seen.overlap => /\ to \in {"compare", "pull"} => ~github'.open
                           /\ call'[c].error # "exists"
      BY <1>1, <1>2, <1>3, <1>5, <1>6 DEF Alone
    <2> QED
      BY <1>1, <1>2, <1>3, <1>11, <2>2, <2>3, <2>4, AloneKept
  <1>13. Undisturbed'
    <2>1. seen' \in Histories
      BY <1>7 DEF Shapes
    <2> QED
      BY <1>1, <1>2, <1>3, <1>5, <1>6, <1>11, <2>1, UndisturbedKept
  <1> QED
    BY <1>7, <1>8, <1>9, <1>10, <1>12, <1>13 DEF Inv

LEMMA FindsKeeps ==
    ASSUME Inv, NEW c \in Callers, Finds(c)
    PROVE  Inv'
  <1>1. /\ Shapes /\ (\A d \in Callers : Knows(d)) /\ KeptResultTrue
        /\ Counted /\ Alone /\ Undisturbed
    BY DEF Inv
  <1> DEFINE to == IF call[c].approved THEN "merge" ELSE "truncate"
  <1>2. /\ call' \in [Callers -> CallShape] /\ Own(c)
        /\ call'[c].pc = to /\ call'[c].retries = 0
        /\ call'[c].issue = call[c].issue /\ call'[c].pull = github'.pulls
        /\ call'[c].merged = call[c].merged /\ call'[c].error = call[c].error
        /\ UNCHANGED <<cache, calls, seen>>
    BY DEF Becomes, Finds
  <1>3. to \in {"merge", "truncate"}
    BY Zenon
  <1> HIDE DEF to
  <1>4. /\ call[c].pc \in {"list", "pull"} /\ Busy(c)
        /\ \/ github.open /\ github' = github
           \/ ~github.open /\ github.branch = "ahead" /\ github' = WithPull
    BY DEF Finds, Busy, At
  <1>5. /\ Grows(github') /\ github'.issues = github.issues
        /\ PullsCounted(github', calls) /\ github'.pulls > 0
    <2>1. PullsCounted(github, calls) /\ calls \in Nat /\ github.pulls \in Nat
      BY <1>1, GithubAssumption DEF Counted, PullsCounted, Shapes
    <2>2. WithPull.pulls = github.pulls + 1
      BY <1>1 DEF WithPull, Shapes
    <2>3. github.open => github.pulls > 0
      BY <1>1 DEF Counted
    <2>4. github'.pulls > 0
      BY <1>4, <2>1, <2>2, <2>3
    <2>5. Grows(github') /\ github'.issues = github.issues
      BY <1>1, <1>4, EffectsGrow
    <2>6. PullsCounted(github', calls)
      BY <1>1, <1>4, <2>1, EffectsCount
    <2> QED
      BY <2>4, <2>5, <2>6
  <1>6. Shapes'
    BY <1>1, <1>2, <1>5 DEF Shapes, CallShape, Grows, Repository
  <1>7. \A d \in Callers : Knows(d)'
    <2>1. /\ github.issues \in Nat /\ github'.issues \in Nat /\ github'.pulls \in Nat
          /\ call[c].issue \in Nat
      BY <1>1, <1>6 DEF Shapes
    <2>2. call[c].issue <= github.issues /\ call[c].issue > 0 /\ ~call[c].merged
      BY <1>1, <1>4 DEF Knows
    <2>3. Knows(c)'
      BY <1>2, <1>3, <1>5, <2>1, <2>2 DEF Knows
    <2> QED
      BY <1>1, <1>2, <1>5, <2>3, KnowsKept
  <1>8. KeptResultTrue'
    BY <1>1, <1>2, <1>5, KeptResultKept
  <1>9. Counted'
    <2>1. AttemptsLeft(c)' = 0
      BY <1>2, <1>3 DEF AttemptsLeft
    <2>2. 0 <= AttemptsLeft(c)
      BY <1>1, AttemptsLeftType
    <2> QED
      BY <1>1, <1>2, <1>5, <1>6, <2>1, <2>2, CountedKept
  <1>10. Alone'
    <2>1. ~seen.overlap => ~Held /\ call[c].error # "exists"
      BY <1>1, <1>4 DEF Alone
    <2>2. Held' = Held
      BY <1>2 DEF Held
    <2> QED
      BY <1>1, <1>2, <1>3, <1>4, <2>1, <2>2, AloneKept
  <1>11. Undisturbed'
    <2>1. seen' \in Histories
      BY <1>6 DEF Shapes
    <2> QED
      BY <1>1, <1>2, <1>3, <1>4, <1>5, <2>1, UndisturbedKept
  <1> QED
    BY <1>6, <1>7, <1>8, <1>9, <1>10, <1>11 DEF Inv

LEMMA MergeKeeps ==
    ASSUME Inv, NEW c \in Callers, Merge(c)
    PROVE  Inv'
  <1>1. /\ Shapes /\ (\A d \in Callers : Knows(d)) /\ KeptResultTrue
        /\ Counted /\ Alone /\ Undisturbed
    BY DEF Inv
  <1>2. /\ call' \in [Callers -> CallShape] /\ Own(c)
        /\ call'[c].pc = "truncate" /\ call'[c].retries = call[c].retries
        /\ call'[c].issue = call[c].issue /\ call'[c].pull = call[c].pull
        /\ call'[c].error = call[c].error
    BY <1>1, MergeBecomes DEF Becomes
  <1>3. /\ call[c].pc = "merge" /\ Busy(c) /\ UNCHANGED <<cache, calls, seen>>
        /\ github' = WithMerge /\ github.open /\ call[c].pull = github.pulls
    BY DEF Merge, Mergeable, Busy, At
  <1>4. Grows(github') /\ github'.issues = github.issues /\ PullsCounted(github', calls)
    <2>1. PullsCounted(github, calls) /\ calls \in Nat
      BY <1>1, GithubAssumption DEF Counted, PullsCounted, Shapes
    <2> QED
      BY <1>1, <1>3, <2>1, EffectsGrow, EffectsCount
  <1>5. Shapes'
    BY <1>1, <1>2, <1>3, <1>4 DEF Shapes, CallShape, Grows, Repository
  <1>6. \A d \in Callers : Knows(d)'
    <2>1. /\ github.issues \in Nat /\ github.pulls \in Nat
          /\ call[c].issue \in Nat /\ call[c].pull \in Nat
      BY <1>1 DEF Shapes
    <2>2. /\ call[c].issue <= github.issues /\ call[c].issue > 0 /\ call[c].pull > 0
      BY <1>1, <1>3 DEF Knows
    <2>3. WithMerge.pulls = github.pulls /\ ~WithMerge.open
      <3>1. WithMerge.open = FALSE
        BY <1>1, Zenon DEF Shapes, WithMerge
      <3> QED
        BY <1>1, <3>1 DEF Shapes, WithMerge
    <2>4. call'[c].pull \in 1 .. github'.pulls /\ call'[c].pull = github'.pulls
          /\ ~github'.open
      BY <1>2, <1>3, <2>1, <2>2, <2>3
    <2>5. Merged(call[c].pull)'
      BY <2>4 DEF Merged
    <2>6. Knows(c)'
      BY <1>2, <1>4, <2>1, <2>2, <2>4, <2>5 DEF Knows
    <2> QED
      BY <1>1, <1>2, <1>4, <2>6, KnowsKept
  <1>7. KeptResultTrue'
    BY <1>1, <1>3, <1>4, KeptResultKept
  <1>8. Counted'
    <2>1. AttemptsLeft(c)' = 0
      BY <1>2 DEF AttemptsLeft
    <2>2. 0 <= AttemptsLeft(c)
      BY <1>1, AttemptsLeftType
    <2> QED
      BY <1>1, <1>2, <1>3, <1>4, <1>5, <2>1, <2>2, CountedKept
  <1>9. Alone'
    <2>1. ~seen.overlap => ~Held /\ call[c].error # "exists"
      BY <1>1, <1>3 DEF Alone
    <2>2. Held' = Held
      BY <1>3 DEF Held
    <2> QED
      BY <1>1, <1>2, <1>3, <2>1, <2>2, AloneKept
  <1>10. Undisturbed'
    <2>1. seen' \in Histories
      BY <1>5 DEF Shapes
    <2> QED
      BY <1>1, <1>2, <1>3, <1>4, <2>1, UndisturbedKept
  <1> QED
    BY <1>5, <1>6, <1>7, <1>8, <1>9, <1>10 DEF Inv

LEMMA CreateIssueKeeps ==
    ASSUME Inv, NEW c \in Callers, CreateIssue(c)
    PROVE  Inv'
  <1>1. /\ Shapes /\ (\A d \in Callers : Knows(d)) /\ KeptResultTrue
        /\ Counted /\ Alone /\ Undisturbed
    BY DEF Inv
  <1>2. /\ call' \in [Callers -> CallShape] /\ Own(c)
        /\ call'[c].pc = "source" /\ call'[c].retries = 0
        /\ call'[c].issue = github.issues + 1 /\ call'[c].pull = call[c].pull
        /\ call'[c].merged = call[c].merged /\ call'[c].error = call[c].error
    BY <1>1, CreateIssueBecomes DEF Becomes
  <1>3. /\ call[c].pc = "issue" /\ Busy(c) /\ UNCHANGED <<cache, calls, seen>>
        /\ github' = [github EXCEPT !.issues = @ + 1]
    BY DEF CreateIssue, Busy, At
  <1>4. /\ Grows(github') /\ github'.issues = github.issues + 1
        /\ PullsCounted(github', calls)
    <2>1. PullsCounted(github, calls) /\ calls \in Nat
      BY <1>1, GithubAssumption DEF Counted, PullsCounted, Shapes
    <2> QED
      BY <1>1, <1>3, <2>1, EffectsGrow, EffectsCount
  <1>5. Shapes'
    BY <1>1, <1>2, <1>3, <1>4 DEF Shapes, CallShape, Grows, Repository
  <1>6. \A d \in Callers : Knows(d)'
    <2>1. /\ github.issues \in Nat /\ github.pulls \in Nat /\ github'.pulls \in Nat
          /\ call[c].issue \in Nat /\ call[c].pull \in Nat
      BY <1>1, <1>5 DEF Shapes
    <2>2. /\ call[c].issue = 0 /\ call[c].pull <= github.pulls /\ ~call[c].merged
      BY <1>1, <1>3 DEF Knows
    <2>3. call[c].pull <= github'.pulls
      BY <1>4, <2>1, <2>2 DEF Grows
    <2>4. Knows(c)'
      BY <1>2, <1>4, <2>1, <2>2, <2>3 DEF Knows
    <2> QED
      BY <1>1, <1>2, <1>4, <2>4, KnowsKept
  <1>7. KeptResultTrue'
    BY <1>1, <1>3, <1>4, KeptResultKept
  <1>8. Counted'
    <2>1. AttemptsLeft(c)' = 0
      BY <1>2 DEF AttemptsLeft
    <2>2. AttemptsLeft(c) = MaxRetries - call[c].retries + 1
      BY <1>1, <1>3 DEF AttemptsLeft, Knows
    <2>3. call[c].retries \in 0 .. MaxRetries
      BY <1>1 DEF Shapes
    <2>4. AttemptsLeft(c)' < AttemptsLeft(c)
      BY <2>1, <2>2, <2>3, GithubAssumption
    <2> QED
      BY <1>1, <1>2, <1>3, <1>4, <1>5, <2>4, CountedKept
  <1>9. Alone'
    <2>1. ~seen.overlap => ~Held /\ call[c].error # "exists"
      BY <1>1, <1>3 DEF Alone
    <2>2. Held' = Held
      BY <1>3 DEF Held
    <2> QED
      BY <1>1, <1>2, <1>3, <2>1, <2>2, AloneKept
  <1>10. Undisturbed'
    <2> SUFFICES ASSUME ~seen.overlap, ~seen.lost, ~seen.stopped
                 PROVE  Undisturbed'
      BY <1>3 DEF Undisturbed
    <2>1. \A d \in Callers \ {c} : call[d].pc = "idle" /\ call'[d].pc = "idle" /\ ~Busy(d)'
      BY <1>1, <1>2, <1>3 DEF Alone, Own, Busy, At
    <2>2. ~Held
      BY <1>1, <1>3 DEF Alone
    <2>3. cache # Torn
      BY <1>1, <1>3, <2>1 DEF Undisturbed
    <2>4. cache = Absent
      BY <2>2, <2>3 DEF Held
    <2>5. call[c].issue = 0 /\ call[c].issue = github.issues
      BY <1>1, <1>3, <2>4 DEF Undisturbed, Knows
    <2>6. github'.issues = 1 /\ call'[c].issue = 1 /\ Busy(c)'
      BY <1>2, <1>4, <2>5 DEF Busy, At
    <2> QED
      BY <1>2, <1>3, <2>1, <2>3, <2>6 DEF Undisturbed
  <1> QED
    BY <1>5, <1>6, <1>7, <1>8, <1>9, <1>10 DEF Inv

(* What GitHub did before the error is the effect of the command; the call *)
(* does not know of it.                                                    *)
LEMMA SuffersGrows ==
    ASSUME Inv, NEW c \in Callers, Suffers(c)
    PROVE  /\ Grows(github') /\ PullsCounted(github', calls)
           /\ \/ github'.issues = github.issues
              \/ /\ call[c].pc = "issue" /\ seen'.lost
                 /\ github'.issues = github.issues + 1
  <1>1. Shapes /\ Counted
    BY DEF Inv
  <1>2. CASE github' = github
    <2>1. Grows(github) /\ PullsCounted(github, calls)
      BY <1>1, EffectsGrow DEF Counted, PullsCounted
    <2> QED
      BY <1>2, <2>1
  <1>3. CASE github' = Effect(c) /\ github' # github
    <2>1. call[c].pc = "issue" => seen'.lost
      BY <1>3 DEF Suffers
    <2>2. /\ Grows(github') /\ PullsCounted(github', calls)
          /\ github'.issues = IF call[c].pc = "issue" THEN github.issues + 1
                                                     ELSE github.issues
      BY <1>1, <1>3, EffectKinds
    <2> QED
      BY <2>1, <2>2
  <1> QED
    BY <1>2, <1>3 DEF Suffers

LEMMA RetryKeeps ==
    ASSUME Inv, NEW c \in Callers, Suffers(c),
           Becomes(c, Operation(call[c].pc), call[c].retries + 1, call[c].issue,
                   call[c].pull, call[c].merged, call[c].error),
           call[c].retries < MaxRetries
    PROVE  Inv'
  <1>1. /\ Shapes /\ (\A d \in Callers : Knows(d)) /\ KeptResultTrue
        /\ Counted /\ Alone /\ Undisturbed
    BY DEF Inv
  <1> DEFINE to == Operation(call[c].pc)
  <1>2. /\ call' \in [Callers -> CallShape] /\ Own(c)
        /\ call'[c].pc = to /\ call'[c].retries = call[c].retries + 1
        /\ call'[c].issue = call[c].issue /\ call'[c].pull = call[c].pull
        /\ call'[c].merged = call[c].merged /\ call'[c].error = call[c].error
    BY DEF Becomes
  <1>3. /\ UNCHANGED <<cache, calls>> /\ call[c].pc \in Operations /\ Busy(c)
        /\ seen' \in Histories /\ seen'.overlap = seen.overlap
        /\ seen.lost => seen'.lost
        /\ seen.stopped => seen'.stopped
    BY DEF Suffers, Busy, At, Operations
  <1>4. /\ to \in {"issue", "source", "refs", "merge"}
        /\ to = "issue" <=> call[c].pc = "issue"
        /\ to = "merge" <=> call[c].pc = "merge"
    BY <1>3 DEF Operations, Operation
  <1> HIDE DEF to
  <1>5. /\ Grows(github') /\ PullsCounted(github', calls)
        /\ \/ github'.issues = github.issues
           \/ /\ call[c].pc = "issue" /\ seen'.lost
              /\ github'.issues = github.issues + 1
    BY SuffersGrows
  <1>6. Shapes'
    BY <1>1, <1>2, <1>3, <1>5 DEF Shapes, CallShape, Grows, Repository
  <1>7. \A d \in Callers : Knows(d)'
    <2>1. /\ github.issues \in Nat /\ github.pulls \in Nat
          /\ github'.issues \in Nat /\ github'.pulls \in Nat
          /\ call[c].issue \in Nat /\ call[c].pull \in Nat
      BY <1>1, <1>6 DEF Shapes
    <2>2. /\ call[c].issue <= github.issues /\ call[c].pull <= github.pulls
          /\ ~call[c].merged
          /\ call[c].pc = "issue" => call[c].issue = 0
          /\ call[c].pc # "issue" => call[c].issue > 0
          /\ call[c].pc = "merge" => call[c].pull > 0
      BY <1>1, <1>3 DEF Knows, Operations
    <2>3. /\ call[c].issue <= github'.issues /\ call[c].pull <= github'.pulls
      BY <1>5, <2>1, <2>2 DEF Grows
    <2>4. Knows(c)'
      BY <1>2, <1>4, <2>2, <2>3 DEF Knows
    <2> QED
      BY <1>1, <1>2, <1>5, <2>4, KnowsKept
  <1>8. KeptResultTrue'
    BY <1>1, <1>3, <1>5, KeptResultKept
  <1>9. Counted'
    <2>1. call[c].retries \in 0 .. MaxRetries /\ 0 <= AttemptsLeft(c)
      BY <1>1, AttemptsLeftType DEF Shapes
    <2>2. CASE call[c].pc = "issue"
      <3>1. /\ AttemptsLeft(c) = MaxRetries - call[c].retries + 1
            /\ AttemptsLeft(c)' = MaxRetries - (call[c].retries + 1) + 1
        BY <1>1, <1>2, <1>4, <2>2 DEF AttemptsLeft, Knows
      <3>2. AttemptsLeft(c)' < AttemptsLeft(c) /\ AttemptsLeft(c)' <= AttemptsLeft(c)
        BY <2>1, <3>1, GithubAssumption
      <3> QED
        BY <1>1, <1>2, <1>3, <1>5, <1>6, <3>2, CountedKept
    <2>3. CASE call[c].pc # "issue"
      <3>1. AttemptsLeft(c)' = 0
        BY <1>2, <1>4, <2>3 DEF AttemptsLeft
      <3> QED
        BY <1>1, <1>2, <1>3, <1>5, <1>6, <2>1, <2>3, <3>1, CountedKept
    <2> QED
      BY <2>2, <2>3
  <1>10. Alone'
    <2>1. ~seen.overlap => ~Held /\ call[c].error # "exists"
      BY <1>1, <1>3 DEF Alone, Operations
    <2>2. Held' = Held
      BY <1>3 DEF Held
    <2> QED
      BY <1>1, <1>2, <1>3, <1>4, <2>1, <2>2, AloneKept
  <1>11. Undisturbed'
    <2>1. call[c].pc # "write" /\ to \notin {"idle", "write"}
      BY <1>3, <1>4 DEF Operations
    <2> QED
      BY <1>1, <1>2, <1>3, <1>5, <2>1, UndisturbedKept
  <1> QED
    BY <1>6, <1>7, <1>8, <1>9, <1>10, <1>11 DEF Inv

LEMMA GivesUpKeeps ==
    ASSUME Inv, NEW c \in Callers, Suffers(c),
           Becomes(c, "idle", 0, 0, 0, FALSE, "transient"), seen'.stopped
    PROVE  Inv'
  <1>1. /\ Shapes /\ (\A d \in Callers : Knows(d)) /\ KeptResultTrue
        /\ Counted /\ Alone /\ Undisturbed
    BY DEF Inv
  <1>2. /\ call' \in [Callers -> CallShape] /\ Own(c)
        /\ call'[c].pc = "idle" /\ call'[c].error = "transient"
        /\ call'[c].merged = FALSE /\ call'[c].issue = 0 /\ call'[c].pull = 0
    BY DEF Becomes
  <1>3. /\ UNCHANGED <<cache, calls>> /\ call[c].pc \in Operations /\ Busy(c)
        /\ seen' \in Histories /\ seen'.overlap = seen.overlap
    BY DEF Suffers, Busy, At, Operations
  <1>4. /\ Grows(github') /\ PullsCounted(github', calls)
        /\ \/ github'.issues = github.issues
           \/ call[c].pc = "issue" /\ github'.issues = github.issues + 1
    BY SuffersGrows
  <1>5. Shapes'
    BY <1>1, <1>2, <1>3, <1>4 DEF Shapes, CallShape, Grows, Repository
  <1>6. \A d \in Callers : Knows(d)'
    <2>1. github'.issues \in Nat /\ github'.pulls \in Nat
      BY <1>5 DEF Shapes
    <2>2. Knows(c)'
      BY <1>2, <2>1 DEF Knows
    <2> QED
      BY <1>1, <1>2, <1>4, <2>2, KnowsKept
  <1>7. KeptResultTrue'
    BY <1>1, <1>3, <1>4, KeptResultKept
  <1>8. Counted'
    <2>1. AttemptsLeft(c)' = 0
      BY <1>2 DEF AttemptsLeft
    <2>2. call[c].retries \in 0 .. MaxRetries /\ 0 <= AttemptsLeft(c)
      BY <1>1, AttemptsLeftType DEF Shapes
    <2>3. CASE call[c].pc = "issue"
      <3>1. AttemptsLeft(c) = MaxRetries - call[c].retries + 1
        BY <1>1, <2>3 DEF AttemptsLeft, Knows
      <3>2. AttemptsLeft(c)' < AttemptsLeft(c) /\ AttemptsLeft(c)' <= AttemptsLeft(c)
        BY <2>1, <2>2, <3>1, GithubAssumption
      <3> QED
        BY <1>1, <1>2, <1>3, <1>4, <1>5, <3>2, CountedKept
    <2>4. CASE call[c].pc # "issue"
      BY <1>1, <1>2, <1>3, <1>4, <1>5, <2>1, <2>2, <2>4, CountedKept
    <2> QED
      BY <2>3, <2>4
  <1>9. Alone'
    <2>1. ~Busy(c)'
      BY <1>2 DEF Busy, At
    <2> QED
      BY <1>1, <1>2, <1>3, <2>1, AloneKept
  <1>10. Undisturbed'
    BY DEF Undisturbed
  <1> QED
    BY <1>5, <1>6, <1>7, <1>8, <1>9, <1>10 DEF Inv

LEMMA TruncateKeeps ==
    ASSUME Inv, NEW c \in Callers, Truncate(c)
    PROVE  Inv'
  <1>1. /\ Shapes /\ (\A d \in Callers : Knows(d)) /\ Counted /\ Alone /\ Undisturbed
    BY DEF Inv
  <1>2. /\ Goto(c, "write") /\ "write" \in Steps /\ call[c].pc = "truncate" /\ Busy(c)
        /\ cache' = Torn /\ UNCHANGED <<github, calls, seen>>
    BY DEF Truncate, Busy, At, Steps
  <1>3. /\ call' \in [Callers -> CallShape] /\ Own(c)
        /\ call'[c].pc = "write"
        /\ call'[c].issue = call[c].issue /\ call'[c].pull = call[c].pull
        /\ call'[c].merged = call[c].merged /\ call'[c].error = call[c].error
    BY <1>1, <1>2, GotoBecomes DEF Becomes
  <1>4. Grows(github')
    BY <1>1, <1>2, EffectsGrow
  <1>5. Shapes'
    BY <1>1, <1>2, <1>3 DEF Shapes, CallShape
  <1>6. \A d \in Callers : Knows(d)'
    <2>1. /\ call[c].issue <= github.issues /\ call[c].pull <= github.pulls
          /\ call[c].issue > 0 /\ call[c].pull > 0
          /\ call[c].merged => Merged(call[c].pull)
      BY <1>1, <1>2 DEF Knows
    <2>2. call'[c].merged => Merged(call[c].pull)'
      BY <1>2, <1>3, <2>1 DEF Merged
    <2>3. Knows(c)'
      BY <1>2, <1>3, <2>1, <2>2 DEF Knows
    <2> QED
      BY <1>1, <1>3, <1>4, <2>3, KnowsKept
  <1>7. KeptResultTrue'
    BY <1>2 DEF KeptResultTrue
  <1>8. Counted'
    <2>1. PullsCounted(github', calls)
      BY <1>1, <1>2 DEF Counted, PullsCounted
    <2>2. AttemptsLeft(c)' = 0 /\ AttemptsLeft(c) = 0
      BY <1>2, <1>3 DEF AttemptsLeft
    <2> QED
      BY <1>1, <1>2, <1>3, <1>5, <2>1, <2>2, CountedKept
  <1>9. Alone'
    <2>1. ~Held'
      BY <1>2 DEF Held
    <2>2. ~seen.overlap => call[c].error # "exists"
      BY <1>1 DEF Alone
    <2> QED
      BY <1>1, <1>2, <1>3, <2>1, <2>2, AloneKept
  <1>10. Undisturbed'
    <2> SUFFICES ASSUME ~seen.overlap, ~seen.lost, ~seen.stopped
                 PROVE  Undisturbed'
      BY <1>2 DEF Undisturbed
    <2>1. github'.issues <= 1
      BY <1>1, <1>2 DEF Undisturbed
    <2>2. cache' # Absent
      BY <1>2 DEF Absent, Torn
    <2> QED
      BY <1>2, <1>3, <2>1, <2>2 DEF Undisturbed
  <1> QED
    BY <1>5, <1>6, <1>7, <1>8, <1>9, <1>10 DEF Inv

LEMMA WriteKeeps ==
    ASSUME Inv, NEW c \in Callers, Write(c)
    PROVE  Inv'
  <1>1. /\ Shapes /\ (\A d \in Callers : Knows(d)) /\ Counted /\ Alone /\ Undisturbed
    BY DEF Inv
  <1> DEFINE kept == [issue |-> call[c].issue, pull |-> call[c].pull,
                      merged |-> call[c].merged]
  <1>2. /\ End(c, "none") /\ call[c].pc = "write" /\ Busy(c)
        /\ cache' = Kept(kept) /\ UNCHANGED <<github, calls, seen>>
    BY DEF Write, Busy, At
  <1>3. /\ call' \in [Callers -> CallShape] /\ Own(c)
        /\ call'[c].pc = "idle" /\ call'[c].error = "none"
        /\ call'[c].merged = FALSE /\ call'[c].issue = 0 /\ call'[c].pull = 0
    BY <1>1, <1>2, EndBecomes DEF Becomes, Errors
  <1>4. /\ kept \in [issue : Nat, pull : Nat, merged : BOOLEAN]
        /\ kept.issue = call[c].issue /\ kept.pull = call[c].pull
        /\ kept.merged = call[c].merged
    <2>1. /\ call[c].issue \in Nat /\ call[c].pull \in Nat /\ call[c].merged \in BOOLEAN
      BY <1>1 DEF Shapes
    <2> QED
      BY <2>1
  <1> HIDE DEF kept
  <1>5. Kept(kept) # Torn /\ Kept(kept) # Absent /\ Kept(kept).result = kept
    BY DEF Kept, Torn, Absent
  <1>6. Grows(github')
    BY <1>1, <1>2, EffectsGrow
  <1>7. Shapes'
    BY <1>1, <1>2, <1>3, <1>4 DEF Shapes, CallShape
  <1>8. \A d \in Callers : Knows(d)'
    <2>1. github'.issues \in Nat /\ github'.pulls \in Nat
      BY <1>7 DEF Shapes
    <2>2. Knows(c)'
      BY <1>3, <2>1 DEF Knows
    <2> QED
      BY <1>1, <1>3, <1>6, <2>2, KnowsKept
  <1>9. KeptResultTrue'
    <2>1. /\ call[c].issue <= github.issues /\ call[c].pull <= github.pulls
          /\ call[c].issue > 0 /\ call[c].pull > 0
          /\ call[c].merged => Merged(call[c].pull)
      BY <1>1, <1>2 DEF Knows
    <2>2. /\ call[c].issue \in Nat /\ call[c].pull \in Nat
          /\ github.issues \in Nat /\ github.pulls \in Nat
      BY <1>1 DEF Shapes
    <2>3. /\ cache'.result.issue \in 1 .. github'.issues
          /\ cache'.result.pull \in 1 .. github'.pulls
      BY <1>2, <1>4, <1>5, <2>1, <2>2
    <2>4. cache'.result.merged => Merged(cache.result.pull)'
      BY <1>2, <1>4, <1>5, <2>1 DEF Merged
    <2> QED
      BY <2>3, <2>4 DEF KeptResultTrue
  <1>10. Counted'
    <2>1. PullsCounted(github', calls)
      BY <1>1, <1>2 DEF Counted, PullsCounted
    <2>2. AttemptsLeft(c)' = 0 /\ AttemptsLeft(c) = 0
      BY <1>2, <1>3 DEF AttemptsLeft
    <2> QED
      BY <1>1, <1>2, <1>3, <1>7, <2>1, <2>2, CountedKept
  <1>11. Alone'
    <2>1. ~Busy(c)'
      BY <1>3 DEF Busy, At
    <2> QED
      BY <1>1, <1>2, <1>3, <2>1, AloneKept
  <1>12. Undisturbed'
    <2> SUFFICES ASSUME ~seen.overlap, ~seen.lost, ~seen.stopped
                 PROVE  Undisturbed'
      BY <1>2 DEF Undisturbed
    <2>1. github'.issues <= 1
      BY <1>1, <1>2 DEF Undisturbed
    <2>2. cache' # Absent /\ cache' # Torn
      BY <1>2, <1>5
    <2>3. \A d \in Callers : call'[d].pc = "idle"
      BY <1>1, <1>2, <1>3 DEF Alone, Own, Busy, At
    <2> QED
      BY <2>1, <2>2, <2>3 DEF Undisturbed
  <1> QED
    BY <1>7, <1>8, <1>9, <1>10, <1>11, <1>12 DEF Inv

LEMMA WriteMixedKeeps ==
    ASSUME Inv, NEW c \in Callers, WriteMixed(c)
    PROVE  Inv'
  <1>1. /\ Shapes /\ (\A d \in Callers : Knows(d)) /\ Counted /\ Alone /\ Undisturbed
    BY DEF Inv
  <1>2. /\ End(c, "none") /\ call[c].pc = "write" /\ Busy(c)
        /\ cache' = Torn /\ UNCHANGED <<github, calls, seen>>
    BY DEF WriteMixed, Busy, At
  <1>3. /\ call' \in [Callers -> CallShape] /\ Own(c)
        /\ call'[c].pc = "idle" /\ call'[c].error = "none"
        /\ call'[c].merged = FALSE /\ call'[c].issue = 0 /\ call'[c].pull = 0
    BY <1>1, <1>2, EndBecomes DEF Becomes, Errors
  <1>4. Grows(github')
    BY <1>1, <1>2, EffectsGrow
  <1>5. Shapes'
    BY <1>1, <1>2, <1>3 DEF Shapes, CallShape
  <1>6. \A d \in Callers : Knows(d)'
    <2>1. github'.issues \in Nat /\ github'.pulls \in Nat
      BY <1>5 DEF Shapes
    <2>2. Knows(c)'
      BY <1>3, <2>1 DEF Knows
    <2> QED
      BY <1>1, <1>3, <1>4, <2>2, KnowsKept
  <1>7. KeptResultTrue'
    BY <1>2 DEF KeptResultTrue
  <1>8. Counted'
    <2>1. PullsCounted(github', calls)
      BY <1>1, <1>2 DEF Counted, PullsCounted
    <2>2. AttemptsLeft(c)' = 0 /\ AttemptsLeft(c) = 0
      BY <1>2, <1>3 DEF AttemptsLeft
    <2> QED
      BY <1>1, <1>2, <1>3, <1>5, <2>1, <2>2, CountedKept
  <1>9. Alone'
    <2>1. ~Busy(c)'
      BY <1>3 DEF Busy, At
    <2> QED
      BY <1>1, <1>2, <1>3, <2>1, AloneKept
  <1>10. Undisturbed'
    <2>1. seen.overlap \/ seen.lost \/ seen.stopped
      BY <1>1, <1>2 DEF Undisturbed, WriteMixed
    <2> QED
      BY <1>2, <2>1 DEF Undisturbed
  <1> QED
    BY <1>5, <1>6, <1>7, <1>8, <1>9, <1>10 DEF Inv

(* A call begins with MaxRetries + 1 attempts.                             *)
LEMMA AttemptsAdded ==
    ASSUME Shapes, Shapes', Counted, NEW c \in Callers, Own(c), ~Busy(c),
           calls' = calls + 1,
           \/ github'.issues = github.issues
           \/ github'.issues = github.issues + 1 /\ AttemptsLeft(c)' = 0
    PROVE  /\ IsFiniteSet(Attempts')
           /\ github'.issues + Cardinality(Attempts') <= calls' * (MaxRetries + 1)
  <1>1. /\ github.issues \in Nat /\ github'.issues \in Nat /\ calls \in Nat
        /\ MaxRetries + 1 \in Nat /\ 1 <= MaxRetries + 1 /\ MaxRetries \in Nat
    BY GithubAssumption DEF Shapes
  <1>2. IsFiniteSet(Attempts) /\ Cardinality(Attempts) \in Nat
    BY FS_CardinalityType DEF Counted
  <1> DEFINE mine == {c} \X (1 .. MaxRetries + 1)
  <1>3. IsFiniteSet(mine) /\ Cardinality(mine) = MaxRetries + 1
    <2>1. IsFiniteSet({c}) /\ Cardinality({c}) = 1
      BY FS_Singleton
    <2>2. IsFiniteSet(1 .. MaxRetries + 1) /\ Cardinality(1 .. MaxRetries + 1) = MaxRetries + 1
      <3>1. 1 \in Int /\ MaxRetries + 1 \in Int /\ ~(1 > MaxRetries + 1)
            /\ (MaxRetries + 1) - 1 + 1 = MaxRetries + 1
        BY <1>1
      <3> QED
        BY <3>1, FS_Interval, Zenon
    <2>3. IsFiniteSet(mine) /\ Cardinality(mine) = 1 * (MaxRetries + 1)
      BY <2>1, <2>2, FS_Product
    <2> QED
      BY <1>1, <2>3
  <1>4. \A t \in Attempts' : t \in Callers \X (1 .. MaxRetries + 1) /\ t[2] <= AttemptsLeft(t[1])'
    BY DEF Attempts
  <1>5. \A d \in Callers \ {c} : AttemptsLeft(d)' = AttemptsLeft(d)
    BY DEF Own, AttemptsLeft
  <1>6. Attempts' \subseteq Attempts \cup mine
    <2> SUFFICES ASSUME NEW t \in Attempts', t \notin mine
                 PROVE  t \in Attempts
      OBVIOUS
    <2>1. t \in Callers \X (1 .. MaxRetries + 1) /\ t[2] <= AttemptsLeft(t[1])'
      BY <1>4
    <2>2. t[1] \in Callers \ {c}
      BY <2>1
    <2> QED
      BY <1>5, <2>1, <2>2 DEF Attempts
  <1> HIDE DEF mine
  <1>7. /\ IsFiniteSet(Attempts \cup mine)
        /\ Cardinality(Attempts \cup mine) <= Cardinality(Attempts) + (MaxRetries + 1)
    <2>1. IsFiniteSet(Attempts \cap mine) /\ Cardinality(Attempts \cap mine) \in Nat
      BY <1>2, FS_Intersection, FS_CardinalityType
    <2>2. /\ IsFiniteSet(Attempts \cup mine)
          /\ Cardinality(Attempts \cup mine) =
                Cardinality(Attempts) + Cardinality(mine) - Cardinality(Attempts \cap mine)
      BY <1>2, <1>3, FS_Union
    <2> QED
      BY <1>1, <1>2, <1>3, <2>1, <2>2
  <1>8. /\ IsFiniteSet(Attempts') /\ Cardinality(Attempts') \in Nat
        /\ Cardinality(Attempts') <= Cardinality(Attempts) + (MaxRetries + 1)
    <2>1. IsFiniteSet(Attempts') /\ Cardinality(Attempts') <= Cardinality(Attempts \cup mine)
      BY <1>6, <1>7, FS_Subset
    <2>2. /\ Cardinality(Attempts') \in Nat /\ Cardinality(Attempts \cup mine) \in Nat
      BY <1>7, <2>1, FS_CardinalityType
    <2> QED
      BY <1>1, <1>2, <1>7, <2>1, <2>2
  <1>9. github'.issues + Cardinality(Attempts') <= github.issues + Cardinality(Attempts) + (MaxRetries + 1)
    <2>1. CASE github'.issues = github.issues
      BY <1>1, <1>2, <1>8, <2>1
    <2>2. CASE github'.issues = github.issues + 1 /\ AttemptsLeft(c)' = 0
      <3>1. Attempts' \subseteq Attempts
        <4> SUFFICES ASSUME NEW t \in Attempts'
                     PROVE  t \in Attempts
          OBVIOUS
        <4>1. t \in Callers \X (1 .. MaxRetries + 1) /\ t[2] <= AttemptsLeft(t[1])'
          BY <1>4
        <4>2. t[1] \in Callers /\ t[2] \in 1 .. MaxRetries + 1
          BY <4>1
        <4>3. t[1] # c
          BY <1>1, <2>2, <4>1, <4>2
        <4> QED
          BY <1>5, <4>1, <4>2, <4>3 DEF Attempts
      <3>2. Cardinality(Attempts') <= Cardinality(Attempts)
        BY <1>2, <3>1, FS_Subset
      <3> QED
        BY <1>1, <1>2, <1>8, <2>2, <3>2
    <2> QED
      BY <2>1, <2>2
  <1>10. github.issues + Cardinality(Attempts) <= calls * (MaxRetries + 1)
    BY DEF Counted
  <1> DEFINE before == calls * (MaxRetries + 1)
  <1>11. before \in Nat /\ calls' * (MaxRetries + 1) = before + (MaxRetries + 1)
    BY <1>1
  <1> HIDE DEF before
  <1>12. github.issues + Cardinality(Attempts) <= before
    BY <1>10 DEF before
  <1>13. github'.issues + Cardinality(Attempts') <= before + (MaxRetries + 1)
    BY <1>1, <1>2, <1>8, <1>9, <1>11, <1>12
  <1> QED
    BY <1>8, <1>11, <1>13

LEMMA BeginKeeps ==
    ASSUME Inv, NEW c \in Callers, NEW approved \in BOOLEAN, NEW given \in BOOLEAN,
           NEW pushed \in BOOLEAN, Begin(c, approved, given, pushed)
    PROVE  Inv'
  <1>1. /\ Shapes /\ (\A d \in Callers : Knows(d)) /\ KeptResultTrue
        /\ Counted /\ Alone /\ Undisturbed
    BY DEF Inv
  <1> DEFINE issue == IF given THEN 1 ELSE 0
  <1>2. /\ call' \in [Callers -> CallShape] /\ Own(c)
        /\ call'[c].pc = "lookup" /\ call'[c].retries = 0
        /\ call'[c].issue = issue /\ call'[c].pull = 0
        /\ call'[c].merged = FALSE /\ call'[c].error = "none"
    BY <1>1, BeginBecomes DEF Becomes
  <1>3. /\ ~Busy(c) /\ call[c].pc = "idle" /\ calls < MaxCalls
        /\ calls' = calls + 1 /\ cache' = cache
    BY DEF Begin, Busy, At
  <1>4. /\ issue \in {0, 1}
        /\ given <=> issue = 1
    OBVIOUS
  <1>5. /\ github' \in Repository
        /\ github'.issues = IF given /\ github.issues = 0 THEN 1 ELSE github.issues
        /\ github'.pulls = github.pulls /\ github'.open = github.open
    <2>1. github \in Repository
      BY <1>1 DEF Shapes, Repository
    <2>2. github' = [github EXCEPT !.issues = IF given /\ @ = 0 THEN 1 ELSE @,
                                   !.branch = IF pushed THEN "ahead" ELSE @]
      BY DEF Begin
    <2> QED
      BY <2>1, <2>2 DEF Repository
  <1> HIDE DEF issue
  <1>6. /\ Grows(github') /\ issue <= github'.issues
        /\ github.issues \in Nat /\ github.pulls \in Nat
        /\ github'.issues \in Nat /\ github'.pulls \in Nat
        /\ calls \in Nat /\ calls' \in 0 .. MaxCalls
    <2>1. /\ github.issues \in Nat /\ github.pulls \in Nat /\ calls \in 0 .. MaxCalls
      BY <1>1 DEF Shapes
    <2>2. /\ github'.issues \in Nat /\ github.issues <= github'.issues
          /\ issue <= github'.issues
      BY <1>4, <1>5, <2>1
    <2> QED
      BY <1>3, <1>5, <2>1, <2>2, GithubAssumption DEF Grows
  <1>7. seen' \in Histories /\ seen'.lost = seen.lost /\ seen'.stopped = seen.stopped
        /\ seen'.overlap = (seen.overlap \/ \E d \in Callers : Busy(d))
    <2>1. seen' = [seen EXCEPT !.overlap = @ \/ \E d \in Callers : Busy(d)]
      BY DEF Begin
    <2>2. (seen.overlap \/ \E d \in Callers : Busy(d)) \in BOOLEAN /\ seen \in Histories
      BY <1>1 DEF Shapes, Histories
    <2> QED
      BY <2>1, <2>2, Zenon DEF Histories
  <1>8. Shapes'
    BY <1>1, <1>2, <1>3, <1>5, <1>6, <1>7 DEF Shapes, CallShape, Repository
  <1>9. \A d \in Callers : Knows(d)'
    <2>1. Knows(c)'
      BY <1>2, <1>6 DEF Knows
    <2> QED
      BY <1>1, <1>2, <1>6, <2>1, KnowsKept
  <1>10. KeptResultTrue'
    BY <1>1, <1>3, <1>6, KeptResultKept
  <1>11. Counted'
    <2>1. \/ github'.issues = github.issues
          \/ github'.issues = github.issues + 1 /\ AttemptsLeft(c)' = 0
      BY <1>2, <1>4, <1>5 DEF AttemptsLeft
    <2>2. /\ IsFiniteSet(Attempts')
          /\ github'.issues + Cardinality(Attempts') <= calls' * (MaxRetries + 1)
      BY <1>1, <1>2, <1>3, <1>8, <2>1, AttemptsAdded
    <2>3. /\ github.pulls <= calls
          /\ github.open => github.pulls > 0
      BY <1>1 DEF Counted
    <2>4. github'.pulls < calls' /\ (github'.open => github'.pulls > 0)
      BY <1>3, <1>5, <1>6, <2>3
    <2> QED
      BY <1>6, <2>2, <2>4 DEF Counted
  <1>12. Alone'
    <2> SUFFICES ASSUME ~seen'.overlap
                 PROVE  Alone'
      BY DEF Alone
    <2>1. ~seen.overlap /\ \A d \in Callers : ~Busy(d)
      BY <1>7
    <2>2. \A d \in Callers \ {c} : /\ ~Busy(d)' /\ call'[d].pc = "idle"
                                   /\ call'[d].error # "exists"
      BY <1>1, <1>2, <2>1 DEF Alone, Own, Busy, At
    <2> QED
      BY <1>2, <2>2 DEF Alone
  <1>13. Undisturbed'
    <2> SUFFICES ASSUME ~seen'.overlap, ~seen'.lost, ~seen'.stopped
                 PROVE  Undisturbed'
      BY DEF Undisturbed
    <2>1. /\ ~seen.overlap /\ ~seen.lost /\ ~seen.stopped
          /\ \A d \in Callers : ~Busy(d) /\ call[d].pc = "idle"
      BY <1>7 DEF Busy, At
    <2>2. /\ github.issues <= 1 /\ cache # Torn
          /\ cache = Absent => github.issues = 0
      BY <1>1, <2>1 DEF Undisturbed
    <2>3. /\ github'.issues <= 1
          /\ cache = Absent => issue = github'.issues
      BY <1>4, <1>5, <1>6, <2>2
    <2>4. \A d \in Callers \ {c} : ~Busy(d)' /\ call'[d].pc = "idle"
      BY <1>2, <2>1 DEF Own, Busy, At
    <2>5. Busy(c)'
      BY <1>2 DEF Busy, At
    <2> QED
      BY <1>2, <1>3, <2>2, <2>3, <2>4, <2>5 DEF Undisturbed
  <1> QED
    BY <1>8, <1>9, <1>10, <1>11, <1>12, <1>13 DEF Inv

-----------------------------------------------------------------------------
LEMMA InitInv ==
    ASSUME Init
    PROVE  Inv
  <1> USE GithubAssumption
  <1>1. Shapes
    <2>1. 0 \in 0 .. MaxRetries /\ 0 \in 0 .. MaxCalls /\ 0 \in Nat
      OBVIOUS
    <2>2. call \in [Callers -> CallShape]
      BY IdleShape DEF Init
    <2> QED
      BY <2>1, <2>2 DEF Init, Shapes, CallShape, Histories
  <1>2. \A c \in Callers : call[c] = Idle
    BY DEF Init
  <1>3. \A c \in Callers : /\ call[c].pc = "idle" /\ call[c].issue = 0 /\ call[c].pull = 0
                           /\ call[c].merged = FALSE /\ call[c].error = "none"
    <2>1. /\ Idle.pc = "idle" /\ Idle.issue = 0 /\ Idle.pull = 0
          /\ Idle.merged = FALSE /\ Idle.error = "none"
      BY DEF Idle
    <2> QED
      BY <1>2, <2>1, Zenon
  <1>4. /\ github.issues = 0 /\ github.pulls = 0 /\ github.open = FALSE
        /\ github.branch = "absent" /\ cache = Absent /\ calls = 0
    BY DEF Init
  <1>5. \A c \in Callers : Knows(c)
    <2> SUFFICES ASSUME NEW c \in Callers
                 PROVE  Knows(c)
      OBVIOUS
    <2>1. ~call[c].merged
      BY <1>3
    <2> QED
      BY <1>3, <1>4, <2>1 DEF Knows
  <1>6. KeptResultTrue
    BY <1>4 DEF KeptResultTrue
  <1>7. Counted
    <2>1. \A c \in Callers : AttemptsLeft(c) = 0
      BY <1>3 DEF AttemptsLeft
    <2>2. Attempts = {}
      <3> SUFFICES ASSUME NEW t \in Attempts
                   PROVE  FALSE
        OBVIOUS
      <3>1. t \in Callers \X (1 .. MaxRetries + 1) /\ t[2] <= AttemptsLeft(t[1])
        BY DEF Attempts
      <3>2. t[1] \in Callers /\ t[2] \in 1 .. MaxRetries + 1
        BY <3>1
      <3> QED
        BY <2>1, <3>1, <3>2
    <2>3. IsFiniteSet(Attempts) /\ Cardinality(Attempts) = 0
      BY <2>2, FS_EmptySet
    <2> QED
      BY <1>4, <2>3 DEF Counted
  <1>8. \A c \in Callers : ~Busy(c)
    BY <1>3 DEF Busy, At
  <1>9. Alone
    BY <1>3, <1>8 DEF Alone
  <1>10. Undisturbed
    BY <1>3, <1>4, <1>8 DEF Undisturbed, Absent, Torn
  <1> QED
    BY <1>1, <1>5, <1>6, <1>7, <1>9, <1>10 DEF Inv

LEMMA SuffersKeeps ==
    ASSUME Inv, NEW c \in Callers, Suffers(c)
    PROVE  Inv'
  BY RetryKeeps, GivesUpKeeps DEF Suffers

LEMMA StepKeeps ==
    ASSUME Inv, NEW c \in Callers, Step(c) \/ Die(c)
    PROVE  Inv'
  <1>1. Shapes
    BY DEF Inv
  <1>2. CASE Ends(c)
    BY <1>2, EndsKeeps
  <1>3. CASE \E to, retries : Moves(c, to, retries)
    BY <1>3, MovesKeeps
  <1>4. CASE Finds(c)
    BY <1>4, FindsKeeps
  <1>5. CASE TransientError(c)
    BY <1>1, <1>5, TransientErrorSuffers, SuffersKeeps
  <1>6. CASE CreateIssue(c)
    BY <1>6, CreateIssueKeeps
  <1>7. CASE Merge(c)
    BY <1>7, MergeKeeps
  <1>8. CASE Truncate(c) \/ Write(c) \/ WriteMixed(c)
    BY <1>8, TruncateKeeps, WriteKeeps, WriteMixedKeeps
  <1> QED
    BY <1>1, <1>2, <1>3, <1>4, <1>5, <1>6, <1>7, <1>8, StepKinds

LEMMA StutterKeeps ==
    ASSUME Inv, UNCHANGED vars
    PROVE  Inv'
  <1>1. /\ github' = github /\ cache' = cache /\ call' = call
        /\ calls' = calls /\ seen' = seen
    BY DEF vars
  <1>2. Shapes' /\ (\A c \in Callers : Knows(c)') /\ KeptResultTrue'
    BY <1>1 DEF Inv, Shapes, Knows, KeptResultTrue, Merged
  <1>3. Counted'
    <2>1. Attempts' = Attempts
      BY <1>1 DEF Attempts, AttemptsLeft
    <2> QED
      BY <1>1, <2>1 DEF Inv, Counted
  <1>4. Alone'
    BY <1>1 DEF Inv, Alone, Busy, At, Held
  <1>5. Undisturbed'
    BY <1>1 DEF Inv, Undisturbed, Busy, At
  <1> QED
    BY <1>2, <1>3, <1>4, <1>5 DEF Inv

LEMMA InvInvariant == Spec => []Inv
  <1>1. Init => Inv
    BY InitInv
  <1>2. Inv /\ [Next]_vars => Inv'
    <2> SUFFICES ASSUME Inv, [Next]_vars
                 PROVE  Inv'
      OBVIOUS
    <2>1. CASE Next
      <3> PICK c \in Callers :
             \/ \E approved, given, pushed \in BOOLEAN : Begin(c, approved, given, pushed)
             \/ Step(c) \/ Die(c)
        BY <2>1 DEF Next
      <3> QED
        BY BeginKeeps, StepKeeps
    <2>2. CASE UNCHANGED vars
      BY <2>2, StutterKeeps
    <2> QED
      BY <2>1, <2>2
  <1> QED
    BY <1>1, <1>2, PTL DEF Spec

-----------------------------------------------------------------------------
(* The type invariant: a call creates at most one issue in each of its     *)
(* MaxRetries + 1 attempts, and at most one pull.                          *)
LEMMA Monotone ==
    ASSUME NEW k \in Nat, NEW m \in Nat, NEW n \in Nat, k <= m
    PROVE  k * n <= m * n
  <1>1. PICK d \in Nat : m = k + d
    <2>1. m - k \in Nat /\ m = k + (m - k)
      OBVIOUS
    <2> QED
      BY <2>1
  <1>2. d * n \in Nat /\ k * n \in Nat /\ m * n = k * n + d * n
    BY <1>1
  <1> QED
    BY <1>2

LEMMA InvBounds ==
    ASSUME Inv
    PROVE  /\ MaxIssues \in Nat
           /\ github.issues \in 0 .. MaxIssues /\ github.pulls \in 0 .. MaxCalls
  <1>1. /\ github.issues \in Nat /\ github.pulls \in Nat /\ calls \in Nat
        /\ calls <= MaxCalls /\ MaxRetries + 1 \in Nat /\ MaxCalls \in Nat
    BY GithubAssumption DEF Inv, Shapes
  <1>2. /\ github.issues + Cardinality(Attempts) <= calls * (MaxRetries + 1)
        /\ github.pulls <= calls /\ Cardinality(Attempts) \in Nat
    BY FS_CardinalityType DEF Inv, Counted
  <1>3. calls * (MaxRetries + 1) <= MaxCalls * (MaxRetries + 1)
    BY <1>1, Monotone
  <1>4. /\ calls * (MaxRetries + 1) \in Nat /\ MaxCalls * (MaxRetries + 1) \in Nat
    BY <1>1
  <1> DEFINE now == calls * (MaxRetries + 1)
             last == MaxCalls * (MaxRetries + 1)
  <1>5. /\ now \in Nat /\ last \in Nat /\ now <= last /\ MaxIssues = last
        /\ github.issues + Cardinality(Attempts) <= now
    BY <1>2, <1>3, <1>4 DEF MaxIssues
  <1> HIDE DEF now, last
  <1> QED
    BY <1>1, <1>2, <1>5

LEMMA InvType ==
    ASSUME Inv
    PROVE  GithubTypeOK
  <1>1. Shapes /\ KeptResultTrue /\ \A c \in Callers : Knows(c)
    BY DEF Inv
  <1>2. /\ MaxIssues \in Nat /\ MaxCalls \in Nat
        /\ github.issues \in 0 .. MaxIssues /\ github.pulls \in 0 .. MaxCalls
    BY InvBounds, GithubAssumption
  <1>3. github \in Repositories
    BY <1>1, <1>2 DEF Shapes, Repositories
  <1>4. cache \in Files
    <2>1. CASE cache \in {Absent, Torn}
      BY <2>1 DEF Files
    <2>2. CASE cache \notin {Absent, Torn}
      <3>1. PICK result \in [issue : Nat, pull : Nat, merged : BOOLEAN] :
               cache = Kept(result)
        BY <1>1, <2>2 DEF Shapes
      <3>2. cache.result = result
        BY <3>1 DEF Kept
      <3>3. result.issue \in 1 .. github.issues /\ result.pull \in 1 .. github.pulls
        BY <1>1, <2>2, <3>2 DEF KeptResultTrue
      <3>4. result.issue \in 1 .. MaxIssues /\ result.pull \in 1 .. MaxCalls
        BY <1>2, <3>3
      <3>5. result \in Results
        BY <3>1, <3>4 DEF Results
      <3> QED
        BY <3>1, <3>5 DEF Files
    <2> QED
      BY <2>1, <2>2
  <1>5. call \in [Callers -> CallStates]
    <2>1. call \in [Callers -> CallShape]
      BY <1>1 DEF Shapes, CallShape
    <2> SUFFICES ASSUME NEW c \in Callers
                 PROVE  call[c] \in CallStates
      BY <2>1
    <2>2. call[c] \in CallShape
      BY <2>1
    <2>3. call[c].issue \in 0 .. MaxIssues /\ call[c].pull \in 0 .. MaxCalls
      <3>1. call[c].issue \in Nat /\ call[c].pull \in Nat
        BY <1>1 DEF Shapes
      <3> QED
        BY <1>1, <1>2, <3>1 DEF Knows
    <2> QED
      BY <2>2, <2>3 DEF CallShape, CallStates, Errors
  <1> QED
    BY <1>1, <1>3, <1>4, <1>5 DEF Shapes, GithubTypeOK

(* Type correctness, for any number of callers, calls and retries; with the*)
(* bounds on issues and pulls that follow from those of the calls.         *)
THEOREM GithubTypeCorrect == Spec => []GithubTypeOK
  <1>1. Inv => GithubTypeOK
    BY InvType
  <1> QED
    BY <1>1, InvInvariant, PTL

(* Whatever fails, dies, is repeated or runs at the same time: the kept    *)
(* result names an issue and a pull that exist, and calls merged only a    *)
(* pull that is.                                                           *)
THEOREM KeptResultIsTrue == Spec => []KeptResultTrue
  <1>1. Inv => KeptResultTrue
    BY DEF Inv
  <1> QED
    BY <1>1, InvInvariant, PTL

(* A second issue has one of the three causes: an answer that was lost, a  *)
(* call that stopped, or two calls at once.                                *)
THEOREM IssueRepeated == Spec => []IssueRepeatedForCause
  <1>1. Inv => IssueRepeatedForCause
    <2> SUFFICES ASSUME Inv, ~seen.lost, ~seen.stopped, ~seen.overlap
                 PROVE  ~(github.issues > 1)
      BY DEF IssueRepeatedForCause
    <2>1. github.issues \in Nat /\ github.issues <= 1
      BY DEF Inv, Shapes, Undisturbed
    <2> QED
      BY <2>1
  <1> QED
    BY <1>1, InvInvariant, PTL

(* A call that was never under way with another does not fail because its  *)
(* pull exists: the list shows it before the command that would create it. *)
THEOREM PullFound == Spec => []RetryFindsPull
  <1>1. Inv => RetryFindsPull
    BY DEF Inv, Alone, RetryFindsPull
  <1> QED
    BY <1>1, InvInvariant, PTL

(* A step from a kept result: the one call under way, if any, looks it up. *)
LEMMA HeldIsFinal ==
    ASSUME Inv, [Next]_vars, Held, ~seen'.overlap
    PROVE  /\ cache' = cache /\ github'.issues = github.issues
           /\ github'.pulls = github.pulls /\ github'.open = github.open
  <1>1. Shapes /\ KeptResultTrue /\ Alone
    BY DEF Inv
  <1>2. CASE UNCHANGED vars
    BY <1>2 DEF vars
  <1>3. ASSUME NEW c \in Callers, NEW approved \in BOOLEAN, NEW given \in BOOLEAN,
               NEW pushed \in BOOLEAN, Begin(c, approved, given, pushed)
        PROVE  /\ cache' = cache /\ github'.issues = github.issues
               /\ github'.pulls = github.pulls /\ github'.open = github.open
    <2>1. /\ github' = [github EXCEPT !.issues = IF given /\ @ = 0 THEN 1 ELSE @,
                                      !.branch = IF pushed THEN "ahead" ELSE @]
          /\ cache' = cache
      BY <1>3 DEF Begin
    <2>2. cache.result.issue \in 1 .. github.issues /\ github.issues \in Nat
      BY <1>1 DEF KeptResultTrue, Held, Shapes
    <2>3. github.issues # 0
      BY <2>2
    <2> QED
      BY <1>1, <2>1, <2>3 DEF Shapes
  <1>4. ASSUME NEW c \in Callers, Step(c) \/ Die(c)
        PROVE  /\ cache' = cache /\ github' = github
    <2>1. CASE Ends(c)
      BY <2>1 DEF Ends
    <2>2. CASE ~Ends(c)
      <3>1. seen'.overlap = seen.overlap
        <4>1. CASE TransientError(c)
          BY <1>1, <4>1, TransientErrorSuffers DEF Suffers
        <4>2. CASE ~TransientError(c)
          BY <1>1, <1>4, <2>2, <4>2, StepKinds
             DEF Moves, Finds, CreateIssue, Merge, Truncate, Write, WriteMixed
        <4> QED
          BY <4>1, <4>2
      <3>2. Busy(c) => call[c].pc = "lookup"
        BY <1>1, <3>1 DEF Alone
      <3>3. \A to, retries : ~Moves(c, to, retries)
        <4> SUFFICES ASSUME NEW to, NEW retries, Moves(c, to, retries)
                     PROVE  FALSE
          OBVIOUS
        <4>1. call[c].pc # "idle"
          BY DEF Moves, Transitions
        <4> QED
          BY <3>2, <4>1 DEF Moves, Held, Busy, At
      <3> QED
        BY <1>1, <1>4, <2>2, <3>2, <3>3, StepKinds
           DEF Finds, CreateIssue, Merge, TransientError, Truncate, Write, WriteMixed, Busy,
               At, Operations
    <2> QED
      BY <2>1, <2>2
  <1> QED
    BY <1>2, <1>3, <1>4 DEF Next

(* Once a result is kept, calls that do not overlap change neither the     *)
(* file nor GitHub: they take the result from the file.                    *)
THEOREM ResultStays == Spec => ResultIsFinal
  <1>1. Inv /\ [Next]_vars =>
           [cache \notin {Absent, Torn} /\ ~seen'.overlap =>
               /\ cache' = cache
               /\ github'.issues = github.issues
               /\ github'.pulls = github.pulls
               /\ github'.open = github.open]_vars
    BY HeldIsFinal DEF Held
  <1> QED
    BY <1>1, InvInvariant, PTL DEF Spec, ResultIsFinal
=============================================================================
