--------------------------- MODULE GithubAutomation ---------------------------
(***************************************************************************)
(* runGithubAutomation (github/automation.ts) over the gh adapter          *)
(* (github/gh-cli-adapter.ts): the calls for one request, that is, with    *)
(* one idempotency key and one branch, from one or several processes.      *)
(*                                                                         *)
(* Each gh command is a step.  A command may fail before GitHub has seen   *)
(* it or after GitHub has done it, with an error that counts as transient  *)
(* (shouldRetry) or with one that does not; withRetry then repeats the     *)
(* adapter's operation from its beginning.  A process may die between any  *)
(* two steps.  Branches are not deleted and pulls are not closed by others.*)
(***************************************************************************)
EXTENDS Integers

CONSTANTS
    Callers,     \* processes that call runGithubAutomation
    MaxRetries,  \* retry.maxRetries
    MaxCalls     \* bound: calls in a behaviour

ASSUME GithubAssumption == MaxRetries \in Nat /\ MaxCalls \in Nat

VARIABLES
    github,  \* what the repository on GitHub holds of this request
    cache,   \* the file of the idempotency key
    call,    \* the call of each process
    calls,   \* calls so far
    seen     \* history, see Histories

vars == <<github, cache, call, calls, seen>>

-----------------------------------------------------------------------------
MaxIssues == MaxCalls * (MaxRetries + 1)

(* Issues are counted.  The branch is as far as main, or ahead of it.      *)
(* Pulls are numbered; only the last one may be open, the others are       *)
(* merged.                                                                 *)
Repositories == [issues : 0 .. MaxIssues, branch : {"absent", "even", "ahead"},
                 pulls : 0 .. MaxCalls, open : BOOLEAN]

Merged(n) == n \in 1 .. github.pulls /\ (n < github.pulls \/ ~github.open)

(* What a call returns, and keeps in the file.                             *)
Results == [issue : 1 .. MaxIssues, pull : 1 .. MaxCalls, merged : BOOLEAN]

(* The file is truncated before it is written.                             *)
Absent == [state |-> "absent"]
Torn == [state |-> "torn"]
Kept(result) == [state |-> "kept", result |-> result]
Files == {Absent, Torn} \cup {Kept(result) : result \in Results}

Operations == {"issue", "source", "ref", "refs", "list", "compare", "pull", "merge"}
Steps == {"idle", "lookup", "truncate", "write"} \cup Operations

(* The issue is 0 until there is one, so is the pull; the error is the one *)
(* the last call ended with.                                               *)
CallStates == [pc : Steps, approved : BOOLEAN, retries : 0 .. MaxRetries,
               issue : 0 .. MaxIssues, pull : 0 .. MaxCalls, merged : BOOLEAN,
               error : {"none", "transient", "refused", "nothing", "exists", "torn"}]

Idle == [pc |-> "idle", approved |-> FALSE, retries |-> 0, issue |-> 0, pull |-> 0,
         merged |-> FALSE, error |-> "none"]

(* Two calls were under way at once; the answer of a command that creates  *)
(* an issue was lost; a call died or failed.                               *)
Histories == [overlap : BOOLEAN, lost : BOOLEAN, stopped : BOOLEAN]

Init == /\ github = [issues |-> 0, branch |-> "absent", pulls |-> 0, open |-> FALSE]
        /\ cache = Absent
        /\ call = [c \in Callers |-> Idle]
        /\ calls = 0
        /\ seen = [overlap |-> FALSE, lost |-> FALSE, stopped |-> FALSE]

-----------------------------------------------------------------------------
At(c, step) == call[c].pc = step

Busy(c) == ~At(c, "idle")

Goto(c, step) == call' = [call EXCEPT ![c].pc = step]

(* The next operation, with retries of its own.                            *)
Proceed(c, step) == call' = [call EXCEPT ![c].pc = step, ![c].retries = 0]

End(c, error) == call' = [call EXCEPT ![c] = [Idle EXCEPT !.error = error]]

Fail(c, error) == End(c, error) /\ seen' = [seen EXCEPT !.stopped = TRUE]

(* A call: the user may have approved the merge (or none is required), the *)
(* workflow may have created the issue, and pushed the branch.             *)
Begin(c, approved, given, pushed) ==
    /\ At(c, "idle")
    /\ calls < MaxCalls
    /\ calls' = calls + 1
    /\ github' = [github EXCEPT !.issues = IF given /\ @ = 0 THEN 1 ELSE @,
                                !.branch = IF pushed THEN "ahead" ELSE @]
    /\ call' = [call EXCEPT ![c] = [Idle EXCEPT !.pc = "lookup", !.approved = approved,
                                                !.issue = IF given THEN 1 ELSE 0]]
    /\ seen' = [seen EXCEPT !.overlap = @ \/ \E d \in Callers : Busy(d)]
    /\ UNCHANGED cache

(* Mutant: the file is not looked at.                                      *)
LookupNothing(c) == /\ At(c, "lookup")
                    /\ Goto(c, IF call[c].issue = 0 THEN "issue" ELSE "source")
                    /\ UNCHANGED <<github, cache, calls, seen>>

(* readIdempotentResult: a result that is kept is the answer.              *)
Lookup(c) ==
    /\ At(c, "lookup")
    /\ CASE cache = Absent -> /\ Goto(c, IF call[c].issue = 0 THEN "issue" ELSE "source")
                              /\ UNCHANGED seen
         [] cache = Torn -> Fail(c, "torn")
         [] OTHER -> End(c, "none") /\ UNCHANGED seen
    /\ UNCHANGED <<github, cache, calls>>

-----------------------------------------------------------------------------
(* The commands that succeed.                                              *)

CreateIssue(c) ==
    /\ At(c, "issue")
    /\ github' = [github EXCEPT !.issues = @ + 1]
    /\ call' = [call EXCEPT ![c].pc = "source", ![c].retries = 0,
                            ![c].issue = github.issues + 1]
    /\ UNCHANGED <<cache, calls, seen>>

ReadSource(c) == /\ At(c, "source")
                 /\ Goto(c, "ref")
                 /\ UNCHANGED <<github, cache, calls, seen>>

(* That the branch exists already is no error.                             *)
WithBranch == [github EXCEPT !.branch = IF @ = "absent" THEN "even" ELSE @]

CreateBranch(c) == /\ At(c, "ref")
                   /\ github' = WithBranch
                   /\ Proceed(c, "refs")
                   /\ UNCHANGED <<cache, calls, seen>>

ReadRefs(c) == /\ At(c, "refs")
               /\ Goto(c, "list")
               /\ UNCHANGED <<github, cache, calls, seen>>

Found(c) == call' = [call EXCEPT ![c].pc = IF call[c].approved THEN "merge" ELSE "truncate",
                                 ![c].retries = 0,
                                 ![c].pull = github'.pulls]

(* Mutant: open pulls are not looked for.                                  *)
ListNothing(c) == /\ At(c, "list")
                  /\ Goto(c, "compare")
                  /\ UNCHANGED <<github, cache, calls, seen>>

ListPulls(c) == /\ At(c, "list")
                /\ UNCHANGED github
                /\ IF github.open THEN Found(c) ELSE Goto(c, "compare")
                /\ UNCHANGED <<cache, calls, seen>>

Compare(c) ==
    /\ At(c, "compare")
    /\ \/ github.branch = "ahead" /\ Goto(c, "pull") /\ UNCHANGED seen
       \/ github.branch # "ahead" /\ Fail(c, "nothing")
    /\ UNCHANGED <<github, cache, calls>>

(* GitHub takes one open pull for a branch, and none without commits.      *)
WithPull == [github EXCEPT !.pulls = @ + 1, !.open = TRUE]

CreatePull(c) ==
    /\ At(c, "pull")
    /\ \/ /\ ~github.open /\ github.branch = "ahead"
          /\ github' = WithPull
          /\ Found(c)
          /\ UNCHANGED seen
       \/ github.open /\ Fail(c, "exists") /\ UNCHANGED github
       \/ github.branch # "ahead" /\ Fail(c, "nothing") /\ UNCHANGED github
    /\ UNCHANGED <<cache, calls>>

(* The pull that a call knows of, if it is still to be merged.             *)
Mergeable(c) == github.open /\ call[c].pull = github.pulls

WithMerge == [github EXCEPT !.open = FALSE, !.branch = "even"]

(* Mutant: an answer without "merged" counts.                              *)
MergeUnchecked(c) ==
    /\ At(c, "merge")
    /\ github' \in {github, IF Mergeable(c) THEN WithMerge ELSE github}
    /\ call' = [call EXCEPT ![c].pc = "truncate", ![c].merged = TRUE]
    /\ UNCHANGED <<cache, calls, seen>>

Merge(c) == /\ At(c, "merge")
            /\ Mergeable(c)
            /\ github' = WithMerge
            /\ call' = [call EXCEPT ![c].pc = "truncate", ![c].merged = TRUE]
            /\ UNCHANGED <<cache, calls, seen>>

-----------------------------------------------------------------------------
(* The commands that fail.                                                 *)

(* The adapter's operation a command belongs to.                           *)
Operation(step) == CASE step \in {"source", "ref"} -> "source"
                     [] step \in {"refs", "list", "compare", "pull"} -> "refs"
                     [] OTHER -> step

(* What GitHub holds when the command at a step was carried out.           *)
Effect(c) == CASE At(c, "issue") -> [github EXCEPT !.issues = @ + 1]
               [] At(c, "ref") -> WithBranch
               [] At(c, "pull") /\ ~github.open /\ github.branch = "ahead" -> WithPull
               [] At(c, "merge") /\ Mergeable(c) -> WithMerge
               [] OTHER -> github

(* Mutant: a retry begins with the first operation.                        *)
RetryAll(c) == /\ call[c].retries < MaxRetries
               /\ call' = [call EXCEPT ![c].pc = "issue", ![c].retries = @ + 1]

(* Mutant: one retry too many.                                             *)
RetryOnceMore(c) == /\ call[c].retries <= MaxRetries
                    /\ call' = [call EXCEPT ![c].pc = Operation(@), ![c].retries = @ + 1]

(* Mutant: retries are not counted.                                        *)
RetryUncounted(c) == Goto(c, Operation(call[c].pc))

Retry(c) == /\ call[c].retries < MaxRetries
            /\ call' = [call EXCEPT ![c].pc = Operation(@), ![c].retries = @ + 1]

(* withRetry: a transient error, before or after the effect.               *)
TransientError(c) ==
    /\ call[c].pc \in Operations
    /\ \E done \in BOOLEAN :
          /\ github' = IF done THEN Effect(c) ELSE github
          /\ LET lost == done /\ At(c, "issue") IN
             \/ Retry(c) /\ seen' = [seen EXCEPT !.lost = @ \/ lost]
             \/ /\ call[c].retries = MaxRetries
                /\ End(c, "transient")
                /\ seen' = [seen EXCEPT !.lost = @ \/ lost, !.stopped = TRUE]
    /\ UNCHANGED <<cache, calls>>

(* Any other error ends the call; a merge that GitHub refuses is one.      *)
Refused(c) == /\ call[c].pc \in Operations
              /\ Fail(c, "refused")
              /\ UNCHANGED <<github, cache, calls>>

-----------------------------------------------------------------------------
(* persistIdempotentResult, behind two logs; the write truncates first.    *)
Truncate(c) == /\ At(c, "truncate")
               /\ cache' = Torn
               /\ Goto(c, "write")
               /\ UNCHANGED <<github, calls, seen>>

Write(c) == /\ At(c, "write")
            /\ cache' = Kept([issue |-> call[c].issue, pull |-> call[c].pull,
                              merged |-> call[c].merged])
            /\ End(c, "none")
            /\ UNCHANGED <<github, calls, seen>>

(* Another call has written to the file since this one truncated it: what  *)
(* is longer shows behind what is shorter.                                 *)
WriteMixed(c) == /\ At(c, "write")
                 /\ cache # Torn
                 /\ cache' = Torn
                 /\ End(c, "none")
                 /\ UNCHANGED <<github, calls, seen>>

(* The process dies.                                                       *)
Die(c) == /\ Busy(c)
          /\ call' = [call EXCEPT ![c] = Idle]
          /\ seen' = [seen EXCEPT !.stopped = TRUE]
          /\ UNCHANGED <<github, cache, calls>>

-----------------------------------------------------------------------------
Step(c) == \/ Lookup(c) \/ CreateIssue(c) \/ ReadSource(c) \/ CreateBranch(c)
           \/ ReadRefs(c) \/ ListPulls(c) \/ Compare(c) \/ CreatePull(c) \/ Merge(c)
           \/ TransientError(c) \/ Refused(c) \/ Truncate(c)
           \/ Write(c) \/ WriteMixed(c)

Next == \E c \in Callers :
           \/ \E approved, given, pushed \in BOOLEAN : Begin(c, approved, given, pushed)
           \/ Step(c)
           \/ Die(c)

Spec == Init /\ [][Next]_vars

(* Every gh command and every file operation comes back.                   *)
Fairness == \A c \in Callers : WF_vars(Step(c))

FairSpec == Spec /\ Fairness

-----------------------------------------------------------------------------
(* Properties.                                                             *)

GithubTypeOK == /\ github \in Repositories
                /\ cache \in Files
                /\ call \in [Callers -> CallStates]
                /\ calls \in 0 .. MaxCalls
                /\ seen \in Histories

(* The result that is kept for later calls is true: its issue and its pull *)
(* exist, and the pull it calls merged is, whatever was retried, died or   *)
(* ran at the same time.                                                   *)
KeptResultTrue ==
    cache \notin {Absent, Torn} =>
        /\ cache.result.issue \in 1 .. github.issues
        /\ cache.result.pull \in 1 .. github.pulls
        /\ cache.result.merged => Merged(cache.result.pull)

(* An issue is created once, unless its answer was lost, or an earlier     *)
(* call did not come to its end, or another one was under way.             *)
IssueRepeatedForCause ==
    github.issues > 1 => seen.lost \/ seen.stopped \/ seen.overlap

(* A pull whose answer was lost is found by the retry and by later calls:  *)
(* no call that was alone fails because there is one.                      *)
RetryFindsPull ==
    \A c \in Callers : call[c].error = "exists" => seen.overlap

(* When the result is kept, calls change neither the file nor GitHub, if   *)
(* no two of them were under way at once.                                  *)
ResultIsFinal ==
    [][cache \notin {Absent, Torn} /\ ~seen'.overlap =>
          /\ cache' = cache
          /\ github'.issues = github.issues
          /\ github'.pulls = github.pulls
          /\ github'.open = github.open]_vars

(* Every call ends, however many errors there are.                         *)
CallsEnd == \A c \in Callers : Busy(c) ~> ~Busy(c)
=============================================================================
