# A verification model of opencode-team

TLA+ modules of the parts of opencode-team that decide what happens when runs
interleave, fail, crash, are cancelled and are resumed; TLC configurations that
check them on small instances; and proofs, checked by TLAPS, of what holds for
every instance. Paths below are relative to the repository.

* [The system](#the-system)
* [Modules](#modules)
* [Runs](#runs)
* [Disagreements with the documents](#disagreements-with-the-documents)
* [Fairness](#fairness)
* [Proofs](#proofs)
* [What is not modelled](#what-is-not-modelled)
* [Plan](#plan)

## The system

opencode-team is a plugin (and a CLI) that runs a task through a pipeline of
agent roles. A *session* is a directory `.agent-guide/runtime/state/sessions/<id>`;
all that survives a process lies in files, so every component is a program that
reads files, works, and writes files, with other processes doing the same.

| component | state | operations | speaks to |
|---|---|---|---|
| Session lock, `runtime/session-lock.ts` | `session.lock`: token, age | acquire (create exclusively, judge stale by token or by age, remove, retry), release (compare the token, remove) | files only |
| Workflow loop, `pipeline/orchestrator.ts` `runWorkflow` | `workflow-state.json`: completed stages, current node, role progress, role runs, artifacts; `orchestrator.cancel` | run fresh, resume, stop at the marker or at the budget, record a stage | session lock, executors, callbacks of the plugin |
| Stage executors, `createDefaultExecutors` | artifacts handed from role to role; the issue, branch and pull request outside | six stages of one to three roles each | subagents, git, GitHub automation |
| Mode operations, `runtime/mode-operations.ts`, `mode-state-contract.ts` | `<mode>-state.json` of orchestrator, ultrawork, ralph | run a mode, resume it, cancel | session lock, ralph loop, ultrawork |
| Plugin runtime, `plugin/create-plugin-interface.ts` | the orchestrator's mode state | dispatch of /orchestrate, /ultrawork, /ralph, /ulw-loop, /cancel | all of the above |
| GitHub automation, `github/automation.ts`, `gh-cli-adapter.ts` | one result file per idempotency key | issue, branch, pull request, merge, each with retries | the `gh` command |
| Consensus planning, `planning/index.ts` | drafts, notes and plan of one artifact name | planner, architect and critic in turn until approved or out of iterations | subagents |
| Ralph loop, `execution/ralph-loop.ts` | none kept | iterations up to a limit | callbacks |
| Ultrawork, `execution/ultrawork.ts` | none kept | waves of dependent tasks | the tasks it is given, of the development stage and of /ulw-loop |
| Subagent execution, `pipeline/subagent-executor.ts`, `agent-runtime.ts`, `runtime/agent-tool-policy.ts` | none kept | one role run: timeout, retries, output contract, tool policy | agents |
| Workflow policy, `pipeline/workflow-policy.ts` | the plan in the state file | decide once, before a fresh run, which optional roles run | configuration, loop, executors |
| Artifact contract, command routing | none | pure decisions | loop, plugin |
| Context memory, notepad, structured logs | append-only and rewritten files | hooks before and after a run | plugin |
| Configuration, MCP bootstrap and install, `config/index.ts`, `runtime/mcp-*.ts` | the user's and the project's configuration file, three legacy paths of them, `opencode.json`, package directories, the MCP manifest | load (merge, fall back to and move legacy files), install (create the user's file, register the plugin, install packages, patch the project, write the manifest) | npm, OpenCode, the user; every other command loads |
| Doctor, CLI, release gate, prompts | none | reports; texts | configuration |

What makes this code hard, and what a unit test would hardly reach:

* **the lock is a file**, and each of its operations is several awaits long; a
  stale file is removed by path, not by content;
* **a run may stop anywhere** (error, crash, cancellation, budget), and a resume
  has two independent records of where it was, the completed stages and the
  current node, plus the role progress within a stage;
* **effects outside the state file** (issue, commit, push, pull request) come
  before the write that remembers them;
* **/cancel takes no lock**: it reads all state files of a session and writes
  them back while a run writes them too;
* **the configuration has no lock at all**: every command may rewrite it as it
  reads, by truncating first, while OpenCode and the user write it too;
* **tasks of a wave end in any order**, and their outputs overwrite each other;
* **retries repeat commands whose answer was lost.**

What makes each component correct: the lock admits one run at a time and always
becomes free again; the loop can be resumed from every file it leaves behind,
in order, without repeating or skipping a stage and without forgetting roles;
the executors commit, push and merge reviewed work only; a mode's state file
says what its runs did; a repeated request finds what the first one made; what
the user has configured is what runs act on, and installing comes to rest; waves
start a task once, after its dependencies, and their answer does not depend on
who was first. The complete list of hazards, each with the line where it bites
and the properties that watch it, is in `PROJECT.json`.

## Modules

    SessionMutex      what the lock promises
      ^ refined by (TLC and proof)
    SessionLock       the lock, file operation by file operation
    Workflow          the stage loop, any executors
      ^ refined by (TLC and proof)
    WorkflowRoles     the six default executors, role by role
    SessionModes      commands of a session over lock, loop and mode files
    GithubAutomation  issue, branch, pull request and merge through gh
    Planning          the consensus loop over role runs that may hang or come late
    TaskGraph         what running tasks with dependencies promises
      ^ refined by (TLC and proof)
    Ultrawork         the waves of runUltrawork
    Installation      install and the loading of the configuration, over their files

`MC<module>` instantiates a module for TLC; `<module>Proofs` holds proofs.
Operators named in `PROJECT.json` under "mutants" are variants of an action with
a plausible bug; each has a comment that begins with "Mutant", and nothing uses
them in the specifications themselves.

**SessionLock** (`runtime/session-lock.ts`). `lock` is the file: whose token,
whether it has been written yet (`open` and the write are two steps of
`writeFile`), the age of the token and of the file. `pc` is where each caller is
between two awaits; `age` is the age of its token; `robbed` records live callers
whose file others took away. Ages stop just past the TTL, since the code only
compares them with it, so that neither clocks nor attempts need a bound. A crash
of a caller stands also for a file operation that throws: either way its file
stays.

**Workflow** (`runWorkflow`). `disk` is `workflow-state.json`, `state` the run's
copy, `pc` the place in the loop. An executor is any function that answers as
the default ones may. Runs of a session exclude each other here (SessionLock is
about that), so one `pc` is enough; `orphaned` is the time after a crash in
which the lock file keeps everybody out. Role runs are counted up to one past
the budget, and written or truncated as `writeWorkflowState` does it. Two
things are abstracted: the migration of version 1 files, and the latency
budget, which is added up and compared like the runs.

**WorkflowRoles** (`createDefaultExecutors`, `pipeline/agent-graph.ts`) EXTENDS
Workflow and replaces the arbitrary executor by the six default ones: which
role runs next, which artifacts (`arts`, `fileArts`) it needs and leaves, where
an answer fails or throws, and what happens outside: `issues` on GitHub and the
working `tree` (clean, dirty, committed, or "none" where the working directory is
no git repository: the developer is then not asked for changes, and the merge
stage has nowhere to commit them). `slips` records each way in which the record
of an issue that exists on GitHub gets lost: its answer, the run between the
answer and the state file, or the stage that runs over its budget. `PolicyPlans` are the plans that
`decideWorkflowPolicy` makes: words of the task, any of which may be there,
keep an optional role, and the reviewer also stays where merges need no
approval by the user. That setting is the user's to change at any time, hence no
variable: it is read when the plan is made (`approval`, which the plan's reasons
record) and again when a merge begins (`unasked`), each time with any answer.
`ImplementsWorkflow` says that these executors keep to what the loop takes for
granted.

**SessionModes** (`plugin/create-plugin-interface.ts`, `runtime/mode-*.ts`,
`execution/ralph-loop.ts`). `file` holds the three mode states, `run` each
process and where its command is, `cancel` the process that runs /cancel: what
it read, what it has yet to write (a set of files, written in the order of their
names). It lists the directory in one step and reads each file in a step of its
own. Each write of a file is a step, since `writeTextFileAtomic` replaces
files as a whole. `OperationFails` is a file operation that throws, at any place
of a command: the lock is given back, and outside of `runWorkflow` and of
ralph's iterations nothing catches the error, so that the mode's file keeps
what it said. The lock is free, held, or left
by a dead run; a workflow is the number of stages it has completed.

**GithubAutomation** (`github/*.ts`). `github` is what the repository holds of
one request, `cache` the result file (absent, torn, kept), `call` each caller's
place among the gh commands. Every command succeeds, or fails with a transient
error before or after it took effect, or with another one. The result file is
written in place, so that it is torn in between, and for good where two calls
write at once and what is longer shows behind what is shorter (`WriteMixed`). What GitHub itself
does (one open pull per branch, no pull without commits, a merged pull is not
merged again) is taken from how the adapter uses it.

**Planning** (`planning/index.ts`, `pipeline/subagent-executor.ts`, the checks of
`pipeline/agent-runtime.ts`, `runtime/role-output-contract.ts`). `call` is each
call's place in the loop: iteration, role, `try` of the contract and `attempt` of
the executor, what the roles have said so far, and `late`, an execution that
outlived its timer. `drafts`, `notes` and `plan` are the files, which all
sessions of a workspace share, each write a step. The loop, its hooks and the
executor are the code's; what is executed may give any output, since the loop
and the executor check no more of it than the model does. A critic that runs as
a role may decide itself or as the default critic does. A draft is faulty
(`validateDraft` finds errors), plain or deliberate. Of several late executions
the newest is remembered; the code ignores them all.

**Ultrawork** (`execution/ultrawork.ts`). `input` is the list of tasks, `status`
how far each is, `produced` those that answered with an output; `waves`,
`pending`, `completed` and `outputs` are the function's locals, `answer` what it
returns. Its synchronous parts (validation, the choice of a wave, the merge of
a settled one) are one step each, the ends of tasks are steps between them.
An output is reduced to what decides the merge: whose own fields it brings, and
who won the fields that all set. The comparator of the wave contradicts itself
where one task has `runInBackground: false` and another leaves it out; any order
is allowed there. **TaskGraph** is the promise without waves: start ready tasks
once, none after a failure, answer when nothing runs, and truly.

**Installation** (`install` of `plugin/create-plugin-interface.ts`,
`config/index.ts`, `runtime/mcp-bootstrap.ts`, `runtime/mcp-auto-install.ts`).
`file` is the content of each path: absent, torn (truncated, or written in
part), JSON, or JSON with comments, which the loader takes and the installer's
patch does not. `packages` are the directories npm has left; `call` is each
process's place in an install or a load; `wish` is what the user has last
written, `damaged` that something was written from a misreading, and `patched`
whether install has patched the project since the user last wrote it, and
whether the user has changed the user's file after that. Each write is two steps
(`Truncate`, `Write`), either of which may fail or be the last, and each read
may fail although the file is there (`ReadFails`): the loader then warns and
takes the next location, which it moves over the first, the patch takes the file
for empty, and the rest throws.
Settings keep what the merge tells apart: `approval` stands for all of them
outside of `mcp.servers`, a server has its fields, of which any may be missing
or of a wrong type (`Bad`); `Texts` are the strings of commands, arguments and
names of plugins, `Spread` is the object spread of the language. Of
`opencode.json` the model keeps the strings in `plugin` (`names`), in their
order and with their versions, and whether there is anything else, an entry that
is no string or a value that stands for the list (`others`), which adding the
plugin drops. Packages are installed in one step; a failure may leave the earlier
ones behind, or the directory of the one that failed. What
`scripts/postinstall.mjs` writes, a user's file and a manifest of its own
defaults, is among the initial contents, since it runs before the program does.

## Runs

| run | instance | question |
|---|---|---|
| `lock_timely` | 3 callers, TTL 2, nobody dies or overstays | Does the lock exclude, and implement SessionMutex? |
| `lock_recovery` | 3 callers, one of which may overstay and die, TTL 1 | Whose file may be lost, does an abandoned lock recover, does acquiring end? |
| `lock_double_break` | 3 callers that may die, TTL 1 | Does it exclude when files go stale? No. |
| `workflow_safety` | the real pipeline (2, 3, 1, 2, 1, 2 roles), 3 role runs of budget, 2 faults | Is every file that is left behind resumable, in order, without loss? |
| `roles` | the real pipeline, budget 3, 1 fault, documenter and reviewer may be skipped, with and without a git repository, commands may hang | Do the executors refine the loop, merge reviewed work only, and get done? |
| `session_modes` | 2 processes, 2 commands, 1 cancellation, 2 deaths or failing file operations, 2 stages | Do state files tell the truth? |
| `session_cancel` | 1 process, 1 /cancel | Does /cancel reach the workflow? No. |
| `session_locked` | 2 /orchestrate commands | Does the one that is kept out leave the other's state alone? No. |
| `planning` | 2 calls of high risk, 2 iterations, 1 contract retry, 1 attempt more | Is the plan that is kept the one that was approved, and do calls return? |
| `github` | 2 processes, 3 calls, 1 retry | Is what is kept true and final, is a pull found again, do calls end? |
| `install` | 2 processes, 2 calls, 1 edit by the user, 1 death or failing operation, 40 initial sets of files; symmetric in the processes | Are the user's choices what runs act on, and does installing settle? |
| `ultrawork` | all graphs over 3 tasks, four shapes of 4 tasks, each with three mixes of `runInBackground`; ids repeated, missing or none | Do the waves implement the task graph, is the answer determined, is there one? |

Why these bounds are enough to be interesting. *Lock*: a double break takes two
contenders and a file to be stale, hence three callers; a TTL of 1 or 2 keeps
fresh, due and stale apart. *Workflow*: the six stages are the code's; two
faults let a resume be interrupted again; a budget of three runs is overrun
within one stage, between stages, and not at all. *Roles*: one fault suffices
for every place where effect and record come apart; documenter and reviewer are
the optional roles whose absence later stages ask about. *Modes*: two stages and
two iterations show a stage boundary and both phases of ralph; two commands
overlap, follow each other, or resume each other, one /cancel lies anywhere
among them, and two faults let a second file operation fail after a death or
another failure. There is room for one /cancel only; the proofs cover any number. *GitHub*: three calls let one fail, one succeed and one
find the result; one retry makes an operation fail for good at the second error.
*Planning*: with two of each, every limit is reached and not reached, and an
execution of the first iteration can come late in the second; one call has all
its roles run, the other skips the architect and the critic, as the workflow
policy allows. *Install*: two calls overlap or follow each other (the second finds what the
first left), one fault lands in every write, one edit at every point between two
steps; the initial files have each form at least once, a legacy and a current
file of both levels, wrong types of a field and of a whole server, a repeated
`-y` prefix, servers that only the project knows, fixed ones turned off, the
plugin pinned, registered or missing, entries that are no strings, and what the
npm package leaves. *Ultrawork*: three tasks give all graphs of up to three
levels and all cycles; diamonds, crossing pairs and a cycle behind a task that
can run take four. As the lists are short, a contradiction of the comparator
needs no more than the three values of one field, which the mixes have.

Properties, by module:

* SessionLock: `ImplementsMutex` (timely callers; `Exclusion` is what the
  violation run refutes for others); `FileHasItsRun` (only a death or an error of
  a file operation leaves a lock file behind that belongs to no run);
  `UnrobbedOwnsFile` (two callers at work means that one was robbed by a stale
  judgement); `RobbedLeavesSuccessorAlone` (the token check of release);
  `AbandonedLockRecovers`, `AcquireTerminates`.
* Workflow: `Resumable` (completed stages and current node name the same place; a
  failure blames a stage that is open; "completed" means all stages),
  `StagesInOrder`, `ProgressAgrees`, `CancelStops` (one stage at most overtakes a
  cancellation, over any number of crashes and resumes), `KeepsWork` (no write
  forgets a completed stage, nor a role of the stage that is open).
* WorkflowRoles: `MergesOnlyReviewed` (over plans, resumes and changes of the
  approval setting), `DeveloperOutputKept`, `IssueRepeatedForCause` (a second
  issue has one of exactly three causes), `ImplementsWorkflow`, `RunEndsOrHangs`
  (every run ends, unless its process died or a command of git or gh never comes
  back), `ResumeCompletes` (a resumed workflow is completed in the end, or stays
  for good at a dead end of the merge stage, or hangs). The dead ends are named in
  `DeadEnd`: a rejected gate recorded with the reviewer's role done, a commit
  already made, and a working directory that is no git repository, which
  `docs/user-guide.md:159-160` rule out and the code meets in its last stage only.
* SessionModes: `ModesTypeOK` (with the contract of `validateModeStateContract`),
  `QuietMeansInactive` (an active state is left behind only by a process that died
  or met a failing file operation, or by a /cancel that wrote back what had
  changed), `RalphCompletesOverDoneUltrawork`, `CompleteMeansCompleted`.
* GithubAutomation: `KeptResultTrue`, `IssueRepeatedForCause`, `RetryFindsPull`,
  `ResultIsFinal`, `CallsEnd`.
* Planning: `PlanByConsensus` (the plan is a draft that the critic approved, sound,
  and deliberate where the default critic judged a high risk, in place of a
  skipped role or run by it: the user guide says that high risk always forces
  it), `RecordsMatch` (rejections stay in the
  notes, and an answer agrees with the files it names), `CallsReturn`.
* Ultrawork: `ImplementsTaskGraph`, `AnswerDetermined` (waves are minimal; blame,
  merged outputs and completed tasks follow from the tasks' results alone),
  `UltraworkEnds` (there is an answer, unless a task never ends).
* Installation: `UserChoicesKept`: before install has patched a project, what runs
  load is exactly what the user has set over the defaults; afterwards that holds of
  everything but the servers the patch names (`Respects`), and the strings listed
  as plugins keep their order, with the plugin added behind them once.
  `InstallSettles`, whose claims about packages and the project's file except an
  install that misread that file (`doubt`): a project file with comments that
  disables a package is taken for empty, so that what is patched does not start
  the package and what is loaded next does not agree.

`CHECK_DEADLOCK FALSE` stands in the configurations of SessionModes,
GithubAutomation, Planning, Installation and Ultrawork only: when all commands
or calls of the bound are used up, or the tasks have their answer, the system
rests.

## Disagreements with the documents

Three runs show the code doing something else than its documents say; the
quotations are in `PROJECT.json` under "findings".

1. `lock_double_break`: a contender removes whatever file is at the path by the
   time it gets there, also one that another contender has just created.
2. `session_cancel`: `/cancel` takes `workflow-state.json` for a mode state,
   fails at its missing session id, and never writes the marker.
3. `session_locked`: an /orchestrate that the lock keeps out has already written
   `starting` over the mode state, and writes `failed` afterwards.

Others are in the models and stated by no run:

* Truncating the role runs in the state file (`Written`) resets the count that a
  resumed run compares with its budget (`Load`), so that a budget that
  `docs/user-guide.md:127` calls fatal can be passed by resuming.
* `ARCHITECTURE.md:131` promises that issues are not created twice. They are, for
  three causes (`slips`): the answer of GitHub to the first is lost; the run ends
  between that answer and the write of the state file; the issue stage overruns
  the budget, so that the issue exists and the stage is not completed. A resume
  then creates another. `IssueRepeatedForCause` shows that there is no fourth.
* `MergesOnlyReviewed` has an exception: a plan leaves the reviewer out because
  the user is to approve the merge; if the user then sets
  `merge_policy.require_user_approval` to false, the merge stage of the same
  workflow merges with neither. The documents allow automatic merges with
  that setting and do not speak of plans made before.
* install writes `web_search` and `context7` into the project's file, turned on,
  whatever the user has set (`buildProjectConfigPatch`). As the project's file
  comes before the user's (`docs/user-guide.md:155-157`), a user who turned them
  off at either level has them on after an install. And as the patch holds every field of the
  packaged servers, a user's file that is changed later does not reach them in a
  patched project. `Respects` says what is left of the user's choice, and that
  no packaged server is started which the user had turned off.
* Adding the plugin to `opencode.json` drops entries that are no strings, and a
  value that is no list (`config/index.ts:981-989`); a pinned `opencode-team@1` does
  not count as registered and gets `opencode-team@latest` beside it. Both are in
  `WithTeam` and `HasTeam`, and no document speaks of them.
* `UserChoicesKept` excepts misreadings (`damaged`, `doubt`), and each is one the
  installer is capable of: it takes a project file with comments for empty and
  overwrites it; after a failed migration its patch hides the legacy file; it
  creates a default user's file that hides a legacy one; a reader takes a torn
  file, or one that it fails to read, for an absent one. A manifest that was torn
  by a death makes every later install throw. No document promises otherwise.

## Fairness

Fairness is assumed of what the code's scheduling gives, and of nothing else.

* SessionLock: a running caller goes on, and time does. Only a *timely* caller
  must finish its work; nobody has to ask for the session, nobody has to die.
* WorkflowRoles: the loop goes on, and so does a role, since the executor of roles
  has a timer (`subagent-executor.ts:117`), which also runs out on the verification
  by npm and on the development script, though it stops neither. Nothing is
  assumed of the commands of git and gh that the issue and merge stages await
  outside of any timer (`orchestrator.ts:675-720`, `gh-cli-adapter.ts`): a run may
  wait there for ever (`Hangs`). A lock file goes stale, and the user resumes again
  and again. `<>[][~Mishap]_vars` says that what may go wrong in an executor for
  reasons outside of it (a role that fails, a reviewer that rejects) is not for
  ever; what the code makes of its own record is not among the mishaps.
* GithubAutomation: every gh command and file operation comes back, with
  whatever result; errors are unlimited, so that `CallsEnd` rests on the
  counting of retries alone. A gh command that never comes back holds its call up
  for ever, as the code has no timer for it; that case is `Hangs` above.
* Planning: an awaited execution answers or its timer fires, and file operations
  come back. Whether an execution that hangs ever ends is left open.
* Ultrawork: the loop goes on. Of tasks nothing is assumed: the development script
  runs without a timer (`runDevelopmentScript`), and that of its role gives up
  waiting without ending it.

Workflow, SessionModes and Installation are checked for safety only.

## Proofs

TLC checks the instances above. The theorems below hold for every value of the
constants under the named assumptions, which TLC evaluates for each instance:
`LockAssumption`, `WorkflowAssumption`, `RolesAssumption`, `GithubAssumption`,
`PlanningAssumption` and `UltraworkAssumption` say that constants are numbers
and sets of the right kind, `RolesAssumption` besides that the pipeline is the
code's own six stages with their roles, `ModesAssumption` that no process has one of
the two names that stand for a free lock and a dead holder, and
`InstallationAssumption` that files and edits hold settings (fields of the right
type, `Bad`, or missing) and any plugins, strings or not, repeated or not, and that the
literals of the code are strings. TLC checked each invariant before it was
proved. All invariants and action properties of the passing runs, and the three
refinements, are theorems; liveness is not.

**SessionLockProofs** - any set of callers, any TTL.
`TypeCorrect`; `FilesAreOfRuns`, which is inductive beside the types; `UnrobbedOwns` and `RobbedIsHarmless` from `LockInv`, which adds
to the property that a robbed caller has no file of its own left (`RobbedInv`):
without it nothing keeps a robbed caller's token check from succeeding.
Under `NothingStale` (all timely, nobody dies): `FreshExclusion` and
`FreshRefinement`, from `FreshInv`: no token outlives the TTL, hence nobody
reaches the removal, hence the file names exactly its holder. The refinement
maps `inside` to the callers that hold a file; a create is an Enter, the end of
a release a Leave, all else stutters.

**WorkflowProofs** - any pipeline, roles, budget and number of faults.
`TypeCorrect`, `AlwaysResumable`, `OrderKept`, `ProgressCorrect`,
`CancelIsBounded`, `CompletedKept` follow from one inductive invariant `Inv`.
None of them is inductive alone: a write copies the run's `state` to `disk`, so
`Inv` says the same of both (`Consistent`), where the loop index stands against
them at each step (`Position`: in step with the file, or one stage ahead just
before the save), and what a crash may leave. `ProgressKept` needs `RolesKept`
besides: in a resumed run the copy is never behind the file. `WorkKept` joins
`CompletedKept` and `ProgressKept`.
Each action has a lemma of its own; `InvNext` puts them together.

**WorkflowRolesProofs** EXTENDS WorkflowProofs - any budget, number of faults and
switches. `RolesImplementWorkflow` first: every step of an executor is a step of
the loop or stutters, by one lemma per action, so that the invariant of
WorkflowProofs holds of the executors too. On top of it `RolesTypeCorrect`,
`DeveloperKept`, `MergesReviewed` and `IssueCause` follow from an invariant that
says what a recorded state has handed on: which artifacts are there for each
completed stage and for each role of the open one (`Handed`), in memory and in
the file, and what that means for the tree, the issues and the approvals. The
properties alone are not inductive since a resume takes all it knows from the
file, and the file is one save behind. For `IssueCause` the invariant says where
the one issue of a run without `slips` is known: to the file, or to the run whose
next write is that of the issue stage.

**GithubAutomationProofs** - any callers, calls and retries. `GithubTypeCorrect`,
`KeptResultIsTrue`, `IssueRepeated`, `PullFound`, `ResultStays`. `Inv` has for
each caller what it knows of GitHub at its place (`Knows`: an issue it made is
there, a pull it found is open or merged); `Counted`: issues there are, and
attempts still to be made, are together bounded by calls and retries, which is
what keeps the number of issues finite; and, while no two calls overlapped,
`Alone`: one call is under way and meets no open pull that it did not look for.
Where besides no request failed or lost its answer (`Undisturbed`), there is at
most one issue, the one this call made or the file keeps.

**PlanningProofs** - any callers and any of the three limits. `PlanningTypeCorrect`,
`PlansAreAgreed`, `RecordsAgree`. `Inv` says for each place of the loop of which
iteration draft, review and decision are (`Staged`), how history and reasons grew
(`Told`), and what of it the shared files already have (`Filed`): an execution
that comes late belongs to an earlier iteration, and the proof is that none of
its outputs can get past the executor's check.

**SessionModesProofs** - any processes, stages, iterations, commands,
cancellations and faults. `ModesTypeCorrect`, `QuietIsInactive`,
`RalphOverDone`, `CompleteIsCompleted`. `Inv`: every file keeps to its contract
(`Files`) and so does what /cancel holds in memory (`Cancelling`); each run's
place agrees with its command (`Placed`); the lock has at most one holder
(`Exclusive`); an active file has a run that will end it, or a death or an
overwriting /cancel is on record (`Manned`); and, while commands do not overlap,
one command owns the orchestrator's file (`OneOrchestrator`), whose `complete`
stays true until the next one takes it over (`CompleteInTime`).

**UltraworkProofs** - any ids, any set of task lists, so any number of tasks.
`TypeCorrect`, and `WavesImplement`: the refinement of TaskGraph. `Inv` says for
each place of the function how far the tasks are: those of `completed` are done,
those of the wave under way were runnable when it started, all others wait.
That a blocked list has a set of tasks that wait for each other needs no
search for a cycle: where nothing is runnable, `pending` itself is that set. One
lemma per action for the invariant, and one for its step in the task graph.
`AnswerFollows` needs `Told` besides: the waves recorded so far account for
exactly what is completed, and a task that waits could not have been in an
earlier wave.

**InstallationProofs** - any processes, initial files and edits, any bounds.
`InstallationTypeCorrect`, `ChoicesAreKept`, `InstallingSettles`. The invariant
has three parts. `Typed`: what each path may hold, and what a call that has yet
to write may lead to (`Written`). `ChoicesKept`: while nothing was damaged, the
files and what each call without doubt holds in memory or is about to write are
*faithful* to the wish. The project's file need not have the user's words: once
patched it `Says` the same in other ones (the same approval, the same servers
that only the user knows, the same packages switched on and local), and what is
loaded from it `Respects` the wish (`SaidIsRespected`). The property alone says
nothing of files and of data on its way. `Settling`: what an undisturbed install
has achieved at each step, above
all that what it has loaded is what would be loaded now (`LoadedNow`), also
while it moves a legacy file, since a level whose own file cannot be read comes
from the same fallback before, between and after the two steps of the write. It
rests on lemmas about the pure functions: the loop of `normalizeNpxServerArgs`
ends within the arguments and leaves its own output alone (`PairsEnd`,
`NormalizeTwice`), a merged server has each field of the last that sets it
(`LoadedField`), a server that only files name depends on nothing else
(`OtherServer`), a user's file that install has made says what none says
(`DefaultsAsNothing`), a patch of a patched file changes nothing and starts the
same packages (`PatchTwice`), and it goes on saying what the user has set
(`PatchedSays`). `PairsEnd` is about the least place without a pair, by
well-foundedness of the naturals; no recursion is involved.

Model-checked only: liveness (`AbandonedLockRecovers`, `AcquireTerminates`,
`RunEndsOrHangs`, `ResumeCompletes`, `CallsEnd`, `CallsReturn`, `UltraworkEnds`), which
the prover does not do under fairness.

## What is not modelled

* Texts: prompts, logs, reports, the wording of errors, and the loading of
  prompts. Where code decides by searching an error text (`shouldRetry`,
  `isBranchAlreadyExistsError`) both outcomes are tried.
* Command routing: a choice by words of a prompt, without state. SessionModes
  takes any choice it can make. Nor the words the policy looks for, nor the
  explanation it records.
* The artifact contract: a check of texts and booleans after a stage, whose
  failure is a throw of the run, which Workflow has at that place.
* Context memory and notepad: texts added to prompts; a hook that fails is
  swallowed, so that no modelled step depends on them.
* Doctor, CLI, release gate, the doctor contract of the manifest: reports. The
  doctor's load of the configuration is a reader of Installation.
* In GithubAutomation the idempotency key, the calls being those with one key,
  and the two logs. In SessionModes `linkedMode` and its fields, which no
  command writes, and `ralph-signals.json`, with which a user overrules ralph.
  In Installation the field `required` of a server, which install passes on, and
  all settings outside of the servers but one, which are read, merged and
  moved alike.
* What tools of a role run do. A denied tool has done its work when the policy
  is asked (`agent-runtime.ts:275`), and a development script may outlive its
  timer, its stage and the lock (`orchestrator.ts:729`); neither has a state
  here that it could spoil.
* A merge whose answer is lost (`gh-cli-adapter.ts:184`) is refused at the
  retry. The model has it; what later calls do then is up to GitHub.

## Plan

Done: SessionMutex, SessionLock, Workflow, WorkflowRoles, SessionModes,
GithubAutomation, Planning, TaskGraph, Ultrawork, Installation, and proofs of
all their safety properties.

Next are lemmas that the proofs do not need and a reader may want: that moving a
legacy file twice moves it once, for each level; that a plan of the workflow
policy never leaves out a role that its own merge stage asks for; what a
cancelled workflow may still do outside, over WorkflowRoles.

Further models, should the code grow that way: role runs with effects for the
development stage, a script that outlives its lock beside the one a resume
starts; the prompts' memory files, once something depends on them.
