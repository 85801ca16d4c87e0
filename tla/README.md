# A verification project for xgoal

xgoal is a local daemon that drives coding agents towards a goal in one Git
repository. It plans a goal into work items, lets an agent change the current
directory for one work item at a time, validates what the agent left, and
accepts it by moving a private *integration ref*. SQLite is the only authority;
Git and the files of the directory are effects the store has to stay consistent
with, through crashes, cancellations, timeouts and edits of the operator.

This directory holds TLA+ models of that code, the TLC configurations that check
them and the proofs that TLAPS checks. `PROJECT.json` maps every definition to
the lines it models. Paths below are relative to `src/internal/`.

## 1. Inventory

| Component | State it keeps | Operations | Hard behaviour |
|---|---|---|---|
| `domain` | transition tables of goal, work, attempt, lease, gate, effect | `CanTransition`, `Validate...Transition` | terminal states, edges nobody uses |
| `promotion`, `store/sqlite/promotion.go`, `effect.go` | promotion and effect rows, marker file, integration ref | `Promote`: `Ensure`, `Preflight`, commit, marker, `RecordCommit`, swap, `RecordRefUpdate`, read-back, `Observe`; `Fail` | two stores without a common transaction; crash between any two steps; ambiguous swap |
| `orchestrator` | the serial run of a goal, cancel functions, one execution slot | `Run`, `RunGoal`, `executeWork`, `Recover`, `failAttempt`, `openFailureGate`, `stopInvariant` | context cancelled at any await; recovery at a start and at each run |
| store: work and ownership (`control_repository.go`, `lease_lifecycle.go`, `checkout.go`, `work_control.go`, `process_recovery.go`) | works, attempts, leases, the checkout record | `ClaimWork`, `HeartbeatLease`, `ReleaseLease`, `ResolveExpiredLease`, `AdmitCheckout`, `RetryCheckoutWork`, `CancelWork`, `ReconcileProcessAttempts` | an elapsed lease, a cancel between two steps, a restart that revokes |
| store: gates (`gate_boundary.go`, `gate_continuation.go`, `control_m5.go`) | gates with expiry and decision | create, decide, resume, replan | expiry against decision; what a denied gate blocks later |
| planning (`orchestrator/planning.go`, `goalcompile`, `store/sqlite/planning*.go`) | planning generations, their effects and gates | begin, answer, publish, pause, retry, resume, recover | late answer of an old generation; recovery of a generation whose gate was answered |
| acceptance (`orchestrator/acceptance.go`, `store/sqlite/acceptance.go`) | acceptance effect and session | begin, observe, recover, replay | crash during a session with outside effects |
| finalization (`orchestrator/finalize.go`, `finalize`, `store/sqlite/final_report.go`) | final report row, two report files | evaluate, complete, rename, mark, recover | crash between the completing transaction and the renames; four publishers |
| processes (`supervisor`, `recovery`, `store/sqlite/process.go`) | process rows, process groups | start behind a barrier, register, terminate, recover | a group outliving its leader, its kill or the daemon |
| daemon (`daemon`, `app`, `project/ownership.go`) | two locks, socket, listener | acquire, open, recover, listen, stop | two starts, a start during a stop |
| `control`, idempotency | idempotency rows | begin, steer, answer, complete, replay | repeated request, request during a run |
| patch, workspace, scope (`patch`, `workspace`) | none: functions of directories | capture, replay, `CheckWrite` | renames, case folding, links |
| agent adapters (`adapter/codex`, `adapter/claude`) | a parser per invocation | `Write`, `Finalize` | pieces cut anywhere, two pipes |
| `reconcile` | none | fingerprint, progress, `Decide` | the no-progress rule |
| evidence and findings | evidence sets, findings | seal, count | staleness at completion |
| the rest | `gitrepo`, `environment`, `validator`, `review`, `protocol`, `config`, `api`, `cli`, `exporter`, `benchmark`, ... | commands, wire formats, parsing | I/O and data, not state machines |

They interact through the store. The control service writes rows and then wakes
or cancels the engine; the engine is a single serial loop with one execution slot
per project; each of its external effects is bracketed by store transactions; a
restart reads the rows back before the daemon listens. One SQLite connection
makes transactions serial, so a transaction is one step of a model and everything
between two transactions can be interleaved with the control API, the clock, the
operating system and a crash.

What makes the components correct, in one line each: the promotion protocol keeps
the ref and the store in agreement and loses no update; one attempt at a time
writes the directory, and a retry begins only when nothing else can; what is
accepted is what was validated and reviewed; planning publishes only the current
generation and asks when it has failed; acceptance never runs twice unasked; a
completed goal has its approval and gets its report; a live process is never
forgotten; one daemon serves a repository; a repeated request has one effect.

Code that production never calls is not modelled, and some properties one would
expect have no code behind them: nothing outside the tests calls `CompleteGoal`,
`SetCompletionFacts`, `ConsumeAuthorization`, `RevokeGate`,
`MarkEvidenceStaleIfMismatched`, `TransitionEvidence`, `TransitionFinding`,
`UpdateEffect`, `EvidenceSetCurrent`, `RecordWorker` or `ExpiredLeases`. So evidence
never goes stale, findings are never closed (finding 3), authorizations are not
counted, and idempotency records never expire.

`recordAndWait` (`orchestrator/failure.go:201`) calls `reconcile.Decide` without
`Previous`, so every failure counts as material progress and the rule "the same
fingerprint without progress is diagnosed" is never reached. Retries are still
bounded, by `repeat_count` and the attempt limit of `retryCheckoutWork`; only the
recorded decision differs. That is why `reconcile` has no module: `Attempt` takes
the two outcomes that change state as a choice under the store's own guards.

## 2. Modules

| Module | What it is |
|---|---|
| `Lifecycle` | the transition tables of `domain/state.go` and `CanMove` |
| `Promotion`, `MCPromotion` | one goal's accepted line: claim, attempt, promotion, failure, recovery, operator, environment |
| `AcceptedLine` | the abstract promise: works published one at a time on top of what they depend on, accepted, never taken back |
| `PromotionProofs` | the safety theorems of `Promotion`; `Promotion` implements `AcceptedLine` |
| `Processes` | the journal of invocations and the process groups of the operating system |
| `Attempt` | the execution of one work over `Processes`: stages, failure, retry, operator, lease, crash and recovery |
| `AttemptProofs` | what each operation on the journal keeps; the safety theorems of `Attempt` |
| `Scopes`, `Patch`, `Compile`, `Streams` | pure algorithms with their reference definitions: matching of a path against a pattern; capture and replay of a directory; compilation of a plan against the store's check; the parsers of agent output |
| `Inputs` | the inputs of the pure modules, and the three properties about them |
| `MCAttempt` | the instance of `Attempt` and of `Inputs` |
| `Recursion`, `InputsProofs` | induction and recursively defined functions; the theorems about the pure modules |
| `Planning`, `MCPlanning`, `PlanningProofs` | the generations of a planner before anything is frozen |
| `Acceptance`, `MCAcceptance`, `AcceptanceProofs` | the acceptance sessions of a goal's final validation |
| `Finalize`, `MCFinalize`, `FinalizeProofs` | the completion of a goal and the publication of its report |
| `Daemon` | start, locks, listening, stop and crash of the daemons of a project |
| `Control`, `MCControlPlane`, `ControlProofs` | requests with their idempotency records and the engine's loop, over `Daemon` |
| `ServedOnce` | the abstract promise to a client: one effect, one answer that stays, nothing more after the handler's answer |

`Attempt` extends `Processes`, `Control` extends `Daemon`, and all state machines
extend `Lifecycle`. `Promotion` and `Attempt` meet at `Submit`: the protocol that
`Promotion` takes step by step is one step of `Attempt`, and the agent's run that
`Promotion` takes in two steps is most of `Attempt`. Each abstracts the other by
what the other establishes: `AcceptedAsValidated` says which tree a promotion is
asked for, `RefAgrees` that it is accepted or not at all. Operators marked
"Mutant" are plausible bugs that TLC must find with the property of a run.

### Promotion and the code

`pc` is the place of the serial engine between two steps; `via` says who called
the protocol: a run (`execute`), the recovery at the beginning of a run
(`recover`), or the recovery of a start (`startup`). The steps of
`Manager.Promote` are, in order,

`verify` (candidate in the directory) -> `effect`, `request` (the two
transactions of `Ensure`) -> `preflight` -> `mark` (commit object and marker
file) -> `commit` (`RecordCommit`) -> `preflight2` -> `verify2` -> `cas`
(`UpdateRefCAS`) -> `updated` (`RecordRefUpdate`) -> `observe` (read-back) ->
`adopt` (`Observe`) -> `refresh`

with the error paths `failing` (`Fail`), `error` (classification in
`executeWork` or `Recover`), `gate` and `wait` (`openPromotionRecoveryGate`),
`fail`, `park` and `hold` (`failAttempt`, `observeFailureScene`,
`recordAndWait`, `openFailureGate`). An existing marker or an already moved ref
skip steps exactly as the code does. `UpdateRef` may move the ref and still
report an error; `Interrupt` ends the context of a run or recovery between any
two steps; `Crash` sends the engine to `down`; `Restart` is
`ReconcileProcessAttempts` and the beginning of the startup recovery. The control
API is enabled between any two steps while the daemon serves; `EditTree` is the
operator's editor, any time. A lease is `ACTIVE`, and `ELAPSED` when its row is
still ACTIVE but `expires_at` has passed. An attempt stands for its candidate tree
and for the commit made from it, whose bytes are a function of the promotion
request. The tree `Foreign` is any other content, HEAD or index.

Abstracted: one goal, admitted in a clean checkout, RUNNING with an active plan;
the run of agent and validators is two steps that may fail; the transactions of
`failAttempt` up to the end of the lease are one step, as are `NextReadyWork`,
`integration` and `ClaimWork`; pure reads of rows that only the engine writes are
merged with the step that follows; evidence, patch bundle, configuration and goal
revision stay valid in `Preflight`.

### Processes, Attempt and the code

A row of the journal and its process group are one record of `proc`: `row` is the
state in `process_invocations` (`EXITED` and `TERMINATED` are `ENDED`), `os` is the
group, `seen` is what the daemon that started it was told. `BeginProcess`,
`RegisterProcess` and `ReleaseWrapper` are the barrier of `supervisor/runner.go`:
the wrapper waits on a pipe until its row is REGISTERED. `Reap` is the goroutine
that waits for the leader; `Kill` and `KillFails` are `Terminate`;
`RecoverProcess` is the recovery of a start, youngest row first.

`job` is the engine in `executeWork`. Its `stage` runs over bootstrap, agent,
service, probe, validators, reviewer and submission; its `pc` over the steps of
a stage (`enter`, `begin`, `register`, `release`, `await`, `stopped`), the capture
(`collect`), `cleanup`, and the transactions of `failAttempt` and `recordAndWait`
(`settle`, `settleWork`, `settleLease`, `observe`, `wait`), each a step of its
own, with the operator, the clock and a crash between any two. `job.filed` is the
tree each artifact names: workspace, bundle, validation environment, validator
run and review. The directory `disk` can change whenever something executes
(`Write`) or the operator edits. A control commits first and cancels the context
of the run afterwards (`reach`, `CancelReaches`).

Abstracted: `Claim` merges the creation of the workspace with `ClaimWork`; the
second bootstrap of the validation environment is omitted; STARTING is passed
through; the several validators and probes are one each, a probe being retried is
the same process; `openFailureGate` is one transaction; ended rows are forgotten,
since nothing reads them; inspecting and signalling a group are one step, as its
identity includes the start time; a graceful stop is a cancellation followed by a
crash; `ResumeWorkGate` is `RetryWork`. The heartbeat's renewal is not a step: a
lease only lapses (`Lapse`), and a conflict of its version with `ReleaseLease` is
the third disjunct of `ReleaseLease`.

### Planning and the code

`effect[g]` is the planner effect of generation `g`, `gen` the goal's current
one, `gate[g, k]` the gate the generation opened. `pc` is `runPlanning`:
`plan` -> `begin` -> `call` -> `calling` -> `judge` -> `persist` -> `read` ->
`check` -> `publish`, with `refused` and `failing` for errors. `job.fresh` says
whether the goal's version the run read is still the goal's: every control makes
it stale, and `BeginPlanning` and `PublishPlanning` refuse a stale one. `Recovers`
is the transaction `RecoverPlanning`, called at a start and before every run of
any goal. Other goals, the configuration file and the slot are nondeterministic
refusals; answers are `good`, `bad` (cannot be frozen) or `gated` (needs an
approval first).

### Acceptance and the code

`calls` is the sequence of acceptance effects, the gate about a call being
derived from its id; `current` is the fence of the goal's version the engine
holds, `Binding` is `acceptanceBindingState`. `RequireAcceptanceReplay`,
`BeginAcceptance`, `StartWorker`, `EndSession` and `RecordOutcome` take one call
from its request to `ObserveAcceptance`; `RecoverAcceptance` is what a run or a
start does with an open one, with or without its answer on disk; `CompleteGoal`
is `FinalizeGoal` as far as the session goes. Parsing of scenarios and of
evidence is data.

### Finalize and the code

`pc[a]` is where actor `a` (engine, operator, recovery of a start, reader of the
report) is in `CompleteAndPublish` or `RecoverReport`: `json?` and `md?` look
whether the final file exists, `json!` and `md!` rename, `mark` is the
transaction that makes the row COMMITTED. `fresh[m]` is the goal's version fence
of a maker. A gate past its expiry is `LAPSED` (OPEN) or `STALE` (APPROVED).

### Daemon, Control and the code

`life[d]` is how far `Serve` of daemon `d` came; the two locks are `owner.lock` of
the repository and `daemon.lock` of the state directory, taken in that order and
released in the reverse. `Control` adds the handlers (`hand[c]`), the idempotency
records, the engine's loop, its channel and its slot. `Advance` is the daemon's
own life, `Handle` a client's request, `Execute` the loop. The context of a
request may end at any step that looks at it. One goal; what `service.cancel`
does to the execution is in `Attempt`; the replan's three transactions are not
modelled here; the goal's version is the set `current` of keys whose expected
version is the goal's.

### The pure modules

`Scopes` (`matchSegments`), `Patch` (`Capture`, `compareFiles`, `Replay`,
`CheckWrite`, `Canonical`, `changesValidatorConfig`), `Compile` (`compilePlan`,
`scopesMayOverlap`, `validateAndHashPlan`) and `Streams` (`jsonlStream.Write`,
`stream.Write`, `boundedStderr.Write`, `Finalize`, `observeExecution`) are
operators without steps, each with the reference definition it is compared with:
`Covers` cuts a path into one piece per segment of the pattern, `Reproduces` says
which directories are taken and what replay makes of them, `Completes` follows a
plan from every state of its progress, `Agrees` reads the output as a whole.
What they are given are constants with named assumptions (`PatchAssumption`,
`CompileAssumption`, `ScopesAssumption`, `StreamsAssumption`): any trees, policies, plans and outputs
of the right shape. `Inputs` makes each of them an initial state from which
nothing goes on, so that a run enumerates them and a theorem is about all.
What one segment of a scope matches, with `*`, `?` and `[..]`, is `path.Match` of
the Go library: the constant `Matching`, a relation; `Starred` are the segments
with a `*`, where `literalPrefix` cuts (`ScopesAssumption`: `**` is one). The
scopes are those that `compilePattern` takes. Names fold by case through a given
function.

## 3. Runs

| Run | Instance | Distinct states | Shows |
|---|---|---|---|
| `promotion` | 2 works, the second depending on the first, 2 attempts | 815,847 | safety of the accepted line, refinement of `AcceptedLine` |
| `promotion_liveness` | 1 work, 1 attempt, fair | 14,223 | `PublishedIsAccepted`, `OwnershipEnds`, `ServesAgain` |
| `attempt` | 2 attempts, 6 kinds of process, 2 trees, 1 control or edit, 1 fault, 1 crash; and 10,918 inputs of the pure modules, of directories with at most three files, plans of three works with scopes such as `/[ab]` and `/a*/b`, and outputs of three lines; fair | 407,074 | one writer, nothing unjournalled, retries at rest, accepted as validated, executions settle; the pure modules |
| `planning` | 3 generations, 1 control, 1 edit, 1 stop or crash; fair | 1,447,060 | one planner, authorized repeats, frozen once, failures are asked, planning settles |
| `acceptance` | 3 sessions, 2 trees, 2 crashes, 2 interventions | 3,896,090 | sessions do not overlap, replay is authorized, completion on the current claim |
| `finalize` | 2 attempts, 2 gates, a human criterion, 1 crash; fair | 183,345 | approval, one report of the completed tree, publication, verification ends |
| `control_plane` | 2 daemons, 2 clients, 2 keys, 1 stop, 1 fault; fair | 492,024 | one owner, refinement of `ServedOnce`, a runnable goal is run |
| `pending_lease`, `ready_dependencies`, `findings_of_tree`, `start_serves`, `interrupted_is_stopped` | as `promotion`, `finalize`, `planning`, `control_plane` | | counterexamples: the findings |

The properties, besides one type invariant per module:

* `RefAgrees`: ref and accepted commit differ by at most the one pending
  promotion. `NoLostUpdate`: the observed candidates are one chain from the base.
  `WriteAhead`: marker and journal before the swap, the swap before its record.
  `MarkedKeepsOwnership`: a marked promotion keeps lease, directory, attempt and
  work. `LeaseMatchesAttempt`, `CompletedOnce`, `KeepsAcceptedLine`.
* `OneWriter`: no two attempts have processes that execute at the same time,
  whatever became of the first one's lease. `AliveIsJournaled`: what executes has
  a row the slot check and the recovery find. `RetryAtRest`: a retry is
  authorized, and stays so, only over a project where nothing executes.
  `AcceptedAsValidated`: a work completes with the tree its bundle, validator run
  and review name and the directory holds. `ExecutionSettles`.
* `ReplayReproduces`: a directory is taken exactly if every path it changes is in
  scope and configures no validator, and its replay over the base makes it again.
  `PublishedPlanCompletes`: a plan that compiles and can be stored never gets stuck,
  and the compiler's test for a cycle and the store's agree; and if the plan is
  `Literal`, that is if its scopes have no `?`, no `[` and only canonical spellings
  before their first `*`, it never has two ready works that may write the same path.
  For other plans that is not so (section 4, 6). `StreamsAgree`: an invocation has a result
  exactly if its output as a whole is one, however it was cut and mixed with the
  other pipe.
* `OnePlanner`, `RepeatsAreAuthorized`, `FrozenOnce`, `FailureIsAsked`,
  `PlanningSettles`.
* `OneSession`, `AuthorizedReplay`, `CompletedOnCurrentClaim`, `ClaimStands`.
* `ReportOfCompletion`, `CompletedUnderApproval`, `ReportPublished`,
  `VerificationEnds`.
* `Owned`, `RunnableIsRun`. `ServesOnce`: the requests of all daemons together
  implement `ServedOnce`. That is more than `AtMostOnce` (one effect, and a record that
  tells the truth about it, which is proved beside it): an answer never changes, nothing takes
  effect after the handler's answer. After an interruption it still may, which is
  finding 5; so a client that reads REQUEST_INTERRUPTED knows nothing of the effect.

Every property of a passing run has a mutant in `PROJECT.json`: a plausible bug in
a mapped definition with which TLC finds that property violated.

**Bounds.** Nothing but the environment is bounded, and each bound is a constant:
faults, crashes, controls and edits. One fault, one crash and one control in any
order are enough for every race of two disturbances with a run; the proofs hold
for any number. Two attempts suffice for what a decided attempt leaves to the
next one; two daemons for every overlap of a stop and a start, since a third
meets the same locks; two clients with one key, or with two, for a request that
is repeated and one that overtakes it. Planning has three generations: the first,
its repeat, and one asked for by the operator; `NoProgressLimit` is 2 so that the
limit is reached. Where a bound uses up a resource (attempts, calls, gates,
generations) the model rests in the loop; runs whose system can come to an end
say `CHECK_DEADLOCK FALSE`.

**Fairness.** Each module states its own `FairSpec` (`Attempt`: `Fairness`).
The steps of the engine's goroutine are weakly fair: they are statements, and
every await has a timeout (`orchestrator/execute.go`, `waitAgent`;
`supervisor`). In `Attempt` the goroutine that waits for a process is fair, the
processes themselves are not: an engine waiting for one is released by its
timeout. In `Planning` the ticker runs what is runnable, and in `Planning`,
`Promotion`, `Finalize` and `Control` a daemon that is down is started again. In
`Finalize` somebody reads the report of a completed goal. In `Promotion` the operator
does what the recovery gate asks for (`orchestrator/failure.go:390`: restore the
recorded candidate and HEAD/index, then resume or restart), and what the code
cannot prevent must cease at some point (`Disturbance`), as any promise of
progress requires. Nothing is assumed of cancellations, retries, decisions of
gates and elapsed leases.

## 4. Findings

1. **A pending promotion without a lease** (`pending_lease`). `Store.Ensure`
   (`store/sqlite/promotion.go:35`) journals a promotion without looking at any
   lifecycle state. A work cancelled after the last fenced step of its attempt
   and before that transaction gets a pending promotion whose lease is REVOKED.
   `Fail` needs the lease and cannot end it, so it stays pending and
   `checkoutIdle` refuses every claim of the project. `process_recovery.go:13`:
   "Pending Promotions retain their lease for Git CAS readback."
2. **READY before the dependencies** (`ready_dependencies`). An explicit retry
   (`store/sqlite/checkout.go:261`) makes a PENDING work READY without the check
   `UpdateWorkState` makes, against `xgoal-technical-spec-v0.1.md:284`. The
   claim's own check keeps the accepted line in order: `KeepsAcceptedLine` holds.
3. **Findings are never closed** (`findings_of_tree`). The completion counts the
   open findings of every tree of the goal (`store/sqlite/final_report.go:418`)
   and nothing closes one, so a goal whose reviewer once sent a candidate back
   cannot complete on the repaired one.
4. **A denied gate ends every start** (`start_serves`). The recovery of a
   generation whose `planning_process_unconfirmed` gate was denied or has lapsed
   fails (`store/sqlite/planning_recovery.go:109`), and with it the start of the
   daemon, for good.
5. **A living request recorded as interrupted** (`interrupted_is_stopped`). Every
   run of the engine repeats the recovery of a start, which completes the
   IN_PROGRESS records of the requests this daemon is still executing as
   REQUEST_INTERRUPTED (`store/sqlite/planning_recovery.go:114`).

`PROJECT.json` quotes the line each of these disagrees with. A sixth is shown by a
theorem and not by a run, and is listed among the hazards:

6. **Overlapping scopes that nothing orders** (`InexactScopesMissed`).
   `scopesMayOverlap` compares what precedes the first `*` of two scopes as text
   (`goalcompile/compile.go:340`), while `matchSegments` gives `?` and `[..]` their
   meaning (`scope/scope.go:206`) and `validScope` admits both. Works with the
   scopes `/a?` and `/ab` compile unordered, are ready at once and both may write
   `/ab`, against `xgoal-technical-spec-v0.1.md:530`: "无法证明不冲突的写范围按冲突处理"
   (write scopes that cannot be proved free of conflict are handled as
   conflicting). Only one attempt owns the directory at a time, so nothing is lost;
   the second work may meet changes it was not ordered after. Hence the
   restriction of `PublishedPlanCompletes` to `Literal` plans.

## 5. Proofs

Every theorem is for any value of the constants that satisfies the assumptions of
its module. All safety properties of the passing runs, the invariants, the action
properties and both refinements, are stated by a theorem. None of the invariants of
the state machines is inductive alone; each proof module defines an `IndInv`,
proves that the initial states have it and every step keeps it, one lemma per
conjunct or group of actions with one step per action, and derives the checked
properties.

* **`PromotionProofs`** (from `ParametersAssumption`; the dependencies need not
  be acyclic): all safety invariants of `promotion`. `IndInv` adds `OneWriter`
  (at most one attempt has a live lease or a pending promotion: what
  `checkoutIdle` buys), `EngineOwns`, `Fenced` (what a live lease guarantees),
  `Claimed`, `LiveIsOwner`, `MarkedIsOwner`, and `AtStep`: what the engine has
  established before each step of the protocol. The theorem `Refines` is
  `Spec => KeepsAcceptedLine`: the swap publishes, the observation accepts, a
  cancellation drops, every other step stutters; the guards of the abstract steps
  come from `IndInv`.
* **`AttemptProofs`**: `OneWriter`, `AliveIsJournaled`, `RetryAtRest`,
  `AcceptedAsValidated`. Its first part says what each operation on the journal
  keeps (`ProcInv`) and which of them start something; the second who calls them
  when: `Advances` (an attempt that may go on holds its lease), `Alone` (only the
  engine's attempt has unfinished rows), `AtRest` (a retry is over a project at
  rest, and since no attempt holds a lease then, no process starts before the
  claim), `Behind` (the stages behind the engine no longer execute), `Filed` (their
  artifacts name the bundle's tree) and `Shape`.
* **`PlanningProofs`**: `OnePlanner`, `RepeatsAreAuthorized`, `FrozenOnce`,
  `FailureIsAsked`. `IndInv` separates the records from what runs. Of the records,
  `Order`: the generations before the current one have failed, those after it and
  their gates do not exist, so a step disturbs one generation and the count of
  interruptions grows by at most one. Of what runs, `Planner` (a process belongs to
  the current generation) and `AtStep` (from the beginning of a generation to the
  record of its answer it stays current and EXECUTING, because a control that would
  replace it is refused; a version still fresh says in what state it was read).
* **`AcceptanceProofs`**: `OneSession`, `CompletedOnCurrentClaim`, `ClaimStands`,
  `AuthorizedReplay`. `IndInv` adds `Calling`: between its beginning and its
  observation a call is the latest and undecided. The authorization is a second
  invariant beside it, `ReplayInv`: what the engine's packet names (`Sought`) is
  still the latest call when it begins, no decision about that one is spent
  (`Unspent`), and a replay without a decision follows an interrupted call of the
  same tree (`Paid`), so such replays are no more than the interruptions, which
  are within the limit whenever one begins.
* **`FinalizeProofs`**: `ReportOfCompletion`, `CompletedUnderApproval`. `IndInv`
  adds `Published`, what each of the four publishers may rely on before its next
  step, and `Accepted`: verification never begins without the approval it needs.
* **`ControlProofs`**: `Owned`, `AtMostOnce`, `ServesOnce`. Ownership rests on
  `Locking` (which locks each stage of a daemon's life holds) and `Serving`;
  at-most-once rests on the records alone (`Once`) and not on the locks. For the
  refinement (`Serves`) a steering request and a probe are `Act`, a completion is
  `Answer` unless the record was completed by then, both recoveries are
  `Interrupt`, and `Once` gives the guards; the mapping is the identity on the two
  variables the promise is about. `AtMostOnce` is proved of the control plane and
  not derived from the promise.
* **`Recursion`**: a non-empty set of numbers has a least element, induction, and
  that a recursion on `0 .. N` has a solution, from the well-foundedness of `<`
  alone. The library states these for operator parameters, which no prover here can
  instantiate; stated for sets and functions they can be cited, and so what a
  recursive function computes is provable after all.
* **`InputsProofs`**: the three properties of the pure modules.
  *Matching*: the sets the algorithm computes from the last segment are those from
  which a `Covers` exists (`MatchSegmentsCorrect`).
  *Directories* (`ReplayReproducesHolds`): the captured entries are exactly the
  differences, a path has at most one, and applying them to the base gives the
  directory, hence the acceptance test is about all changed paths.
  *Plans* (`CycleTestsCorrect`, `PublishedPlanCompletesHolds`): reachability and the
  taking of works both settle on a finite graph; a work on a cycle would have to be
  taken before itself, and among the works never taken one with the fewest
  ancestors lies on a cycle, so the compiler's test and the store's agree. Two
  ready works do not reach each other, so their scopes were compared; if both cover
  a path and the plan is `Literal`, their literal prefixes begin it and one begins
  the other. `InexactScopesMissed` shows that the restriction cannot be dropped.
  *Output* (`StreamsAgreeHolds`): `Said` relates the parser to the words it has
  read, `Read` to the pieces of the word it is in; each unit keeps them whatever its
  order with the other pipe, and the limit is the sum of both.

Only model-checked: liveness (fairness and ENABLED are out of the provers'
reach) and the five counterexamples.

## 6. Not modelled

* Wire formats, schemas, parsing of configuration and scenarios, command lines of
  the adapters, rendering of reports, canonical hashing, exporters, benchmarks,
  the doctor and the kernel simulation: data and I/O without a state machine.
* The index of invocations (`orchestrator/invocation.go`): no step of a goal
  reads it; that its recovery can fail a run is in the list of hazards.
* Several goals at once. Each module has one; others are a nondeterministic
  refusal (the slot in `Planning`) or absent. A goal that waits for a directory
  another one keeps is therefore a hazard without a property.
* A goal cancelled while a process is unconfirmed has no gate and its lease stays
  ACTIVE until a restart; a committed pause whose cancellation is lost with the
  request is not promised anything by the code.
* The capability probe before a claim, which runs unjournalled; case-only
  renames, which `Canonical` refuses; snapshots torn by concurrent writes.
* Schema, migrations and backup of the database; errors of SQLite other than the
  failures the models take as faults; permissions and peers of the socket.
