# A TLA+ verification of PlanRace

PlanRace is a Bittensor subnet in which miners compete to produce index bundles
for validator-owned SQL queries. A validator commits to a task with hidden
fixtures, sends it to miners in signed requests, verifies and collects their
signed responses until a deadline, seals them, reveals the fixtures, measures
the bundles in a sandbox, aggregates the scores and submits weights to the
chain. This project models the protocol and the processes around it (version 2,
`planrace/*_v2.py`, the testnet tools and the runner in `scripts/`), checks the
models with TLC and proves the central facts with TLAPS. Paths below are
relative to `src/`.

## Inventory

| Part | State it keeps | Operations | Interaction |
|---|---|---|---|
| Response authentication, `planrace/auth_v2.py` | replay table (memory dictionary or SQLite) | `verify_signed_response`, `check_and_store`, `sign_optimization_response` | called by the validator client and by the lifecycle; the table is shared by threads and, in SQLite, by processes |
| Validator client, `planrace/validator_client_v2.py` | none of its own | `request_optimization_v2` | HTTP to the miner; samples the clock when the body is complete, then verifies |
| Task lifecycle, `planrace/taskgen_v2.py` | phase, submissions, lock | `submit_verified`, `seal`, `reveal`, `sealed_bundles`, `create_task_v2`, `audit_task_reveal` | verifies under its lock, and so uses the replay store |
| Benchmark generator, `planrace/benchmark_v2.py` | none (pure) | holdouts of a seed and a family | used by the creation of a task and by its audit |
| Miner service, `planrace/api_v2.py`, `auth.py`, `nonce.py` | nonce table, pending count, semaphore, executor threads | `authenticate_request`, `optimize`, `execute_strategy` | one event loop; strategies in coroutines or threads |
| Sandbox worker, `planrace/sandbox_v2.py` | two copies of a fixture, deadlines, trial transcript; a child process on the validator's side | `execute_request`, `worker_main`, `run_bounded_process`, `run_docker_worker`, `run_docker_batch_worker` | the validator waits for it under a wall clock and kills its client |
| Holdout evaluation, `planrace/evaluation_v2.py` | none between tasks | task regeneration, two drivers, worst-of-holdouts reward | calls the sandbox, gives observations to the scoring |
| Scoring, aggregation, allocation, `planrace/scoring_v2.py` | none (pure) | benchmark score, deduplication, network aggregate, capped allocation | from observations to weights |
| Evidence runner, `scripts/run_localnet_v2.py` | output directory (run input, checkpoints, epoch files, manifest), chain container, thread pool | dispatch, evaluate, submit, sign, `--resume` | drives all other parts; survives kills by its files |
| Testnet weights, `planrace/testnet_weights.py`, `testnet_submission.py`, `weights.py` | plan and submission files | plan, submit, read back | a chain that moves between the steps |
| Testnet provisioning, `planrace/testnet_provisioning*.py` | plan and receipt files | plan, submit, read back | a chain that moves, nodes that lag |
| Auditor, `scripts/audit_localnet_v2.py`, `planrace/evidence.py` | none | recomputes the bundle | reads the runner's output |
| Preflight, schemas, oracle, simulation, protocol v1, CLI, dashboard | - | - | see *Not modelled* |

What is hard here is listed in `PROJECT.json` under `hazards`, each at its line:
the clock is read several times on the way of one response, with awaits and
locks in between; rows expire while copies of their response are still in
flight; callers of the lifecycle bring a time sampled before they waited for its
lock; a strategy thread outlives the handler that started it, and a sandbox
container its client; one SQLite connection carries the deadlines of many
statements; answers of a batch come back in an order of their own; the runner
can be killed between any two of its files and the chain; the testnet tools
compare states of a chain that moves on, and are run again after a kill.

## Modules

| Module | Models | Kind |
|---|---|---|
| `ResponseAuth` | checks of `verify_signed_response` in order; both `check_and_store` as functions | operators |
| `ResponseIntake` | processes that receive, verify and store responses over one table | state machine |
| `CommitReveal` | what a lifecycle promises | abstract specification |
| `TaskLifecycle` | `TaskLifecycleV2`, several threads, several tasks, shared replay table | state machine, refines `CommitReveal` |
| `MinerService` | the miner's request handling | state machine |
| `Gates` | a chain of early returns | operator |
| `TaskMaterial` | generation of holdouts, Merkle root, commitment, `create_task_v2`, `audit_task_reveal`, `_validate_and_regenerate_task` | operators |
| `Scoring` | `score_benchmark` with its gates | operators |
| `SandboxWorker` | one evaluation of a bundle on a fixture, worker and validator | state machine, uses `Scoring` |
| `Allocation` | eligibility, behaviour groups, `_capped_normalize` | operators |
| `Aggregation` | `deduplicate_task_rewards`, `aggregate_network` and its robust statistics | operators, uses `Allocation` |
| `Evaluation` | a schedule of tasks from their creation to the weights, by both drivers | state machine, composes `TaskMaterial`, `Scoring`, `Aggregation` |
| `EvidenceRecord` | what an evidence directory promises its auditors | abstract specification |
| `LocalnetRun` | the evidence runner over one output directory | state machine, refines `EvidenceRecord` |
| `WeightVector` | from scores to the submitted u16 vector | operators |
| `WeightInputs` | every scoring under every limit, and what `WeightVector` and `Allocation` must compute | inputs and properties |
| `WeightSubmission` | `weight-plan`, `weight-submit`, `weight-readback` against a chain that moves on | state machine, uses `WeightVector` |
| `Provisioning` | `provision-plan`, `provision-submit`, `provision-readback` against a chain that moves on and nodes that lag | state machine |
| `*_proofs` | theorems about the module they extend, with the lemmas on its operators | proofs |
| `MC*` | instances for TLC | constants only |

Operators whose name ends in `Fault` are faulty variants of the definition that
follows them. Nothing uses them; replacing the definition by its variant makes
TLC report the property named with it in `PROJECT.json` (`mutants`), which shows
that the property depends on that detail of the code.

### ResponseAuth, ResponseIntake

A response is its replay key (hotkey, nonce, request id), its validity interval
and the set of *defects*: binding checks it would fail. A signature or digest is
right or wrong, nothing more. `Verdict` is the first failing check in the
order of the code. `CheckAndStore` maps a table to the table and answer after
the call: delete what has expired by the store's clock, count, insert. The
deletion is kept when the insert is refused, as the `with` block commits.

`ResponseIntake` splits the handling of one response where the code can be
overtaken: `Receive` (body complete, first clock sample), `Verify`, `StoreClock`
(lock of the store taken, second sample), `StoreCommit` (the transaction),
`Return`. `Abort` is a process that stops, or a `sqlite3` exception, at any
point; the table survives. The lock is per process, so two processes can be
between `StoreClock` and `StoreCommit` at once, and an older sample can commit
later; with `Persistent = FALSE` the table is the memory store. `lost` records the
responses of processes that stopped between the commit and `Return`; with the
accepted and the pending ones they are the `Holders` of slots. A forged copy with
the key and expiry of the genuine response is a response of its own here, so the
properties tell which of the two took the slot.

### TaskLifecycle, CommitReveal

A caller samples the clock (`InvokeSubmit`, `InvokeTimed`) and its method body
runs later in one step, because the body holds the lock throughout. The replay
table is one for all lifecycles; its clock is read at some time between the
caller's sample and the step. `CommitReveal` has four steps: deadlines pass,
one answer to an unanswered request is collected while the task is open, the
collection is closed when due, the secret is exposed once closed. The
refinement maps submissions to the set of answered requests and `clock >=
Deadline` to `due`.

### MinerService

Handlers are coroutines; a step is what runs between two awaits. `Authenticate`
is the body limit, `bt.http_auth.verify` (external: freshness window around the
nonce, which is the signing time, then the nonce store) up to the authorization
hook (its freshness check and the store read the clock one after the other without
an await in between; both are this step's clock); `Check` the hook and the checks of
`optimize`; `Admit` the pending count
and the second clock read of `execute_strategy`; `AcquireSlot` and `StartThread`
the semaphore and the executor; `Timeout` the `asyncio.timeout`, which leaves a
synchronous strategy running as an orphan that occupies a thread; `Resume` the
checks after the strategy and the signature. `Restart` loses everything but the
nonce table. Wrong signatures, malformed bodies and identities are the constant
`Defect` of a request.

### TaskMaterial

A digest is the value it is taken of, so two digests agree exactly when these
values do. `HiddenFixtures` says which seed each fixture, its rows and its
parameters follow from; the rows themselves are not modelled. `MerkleRoot` is
the tree with index-bound leaves and a repeated last digest on odd levels
(that the root determines the list is evaluated in `MCEvaluation`, on lists of two to
five fixtures, and proved). `CommitmentPayload` leaves out the number of holdouts, as the code
does. The owner of a task stands for its hotkey, engine, generator, policies,
statistics, budget, grammar and deadline.

### Scoring, SandboxWorker

`SandboxWorker` is `execute_request` statement by statement: the admission
checks in their order, one step per index, the query plan, the interleaved
trials with four runs each (baseline and candidate, cold and warm, in the order
of the trial), the result. `left` is the deadline that is installed on each
connection and `ran` how long the current statement has run; `RunInterrupted` is
the progress handler. The validator's side is the process that waits, kills the
docker client when the wall clock expires (at any moment) and drains it; the
container belongs to the daemon, so a worker goes on after its client was killed.
A query result is its digest. Timings appear only as the savings they are worth,
since the gates look at ratios; `score_benchmark` (module `Scoring`) is modelled
on them, with its gates and its penalty for timed-out trials. The copies are removed
with `rmtree(ignore_errors=True)`: `Leave` is the call, and what it should fail to
delete goes with the container's own `/work`, a tmpfs under `--rm`.

### Evaluation, Aggregation, Allocation

`Create` makes the next task of the schedule, `Collect` brings the accepted
submissions and the task as the driver has it: the created one, or one that
lost a part to another task on its way through `run-input.json` (where
`_load_run_input` compares only the public part), or one that `create_task_v2`
made of other terms. The driver `batch` is `_evaluate_epoch` of the runner with
one container for all strategies and holdouts of the task; `cohort` is
`evaluate_task_cohort` with one worker for each. What a worker answers is chosen
from `OutcomesOf`, results that `SandboxWorker` can give, and the answers of a
container may arrive turned round. `CloseTask` writes the observations,
`Allocate` runs `aggregate_network` and `allocate_weights`.

Rewards, means and standard errors are integers of a fixed scale, rounded down.
`CopiesShareOneReward` compares two computations, on whole rewards and on their
`k`-th parts; `FamilyRounding` and `SpreadRounding` are what rounding can make of the
score of a family and of the spread over the families, in units of that scale.
Logarithms appear as products and integer roots. `Aggregation`
follows `scoring_v2.py`: a strategy's reward on a task is divided among its
copies; each family has the lower confidence bound of a winsorized mean over its
scheduled tasks, a miner the geometric mean of its families less its uncertainty,
behind the gates for tasks, families, availability, compliance, correctness and
the worst family.

### LocalnetRun, EvidenceRecord

The directory (`used`, `runInput`, `checkpoint`, `epochFile`, `manifest`) and the
chain (`paused`, `onchain`) survive; the rest is the memory of the process.
`StartFresh` and `Resume` are the two invocations with their refusals. The pool
takes epochs in order, `Workers` at a time; `Evaluate` writes the checkpoint
whether or not the batch failed, as the code does; `executor.map` delivers in
order, and an exception or interrupt cancels what no thread has taken and waits for
the others. The chain is paused before the `try` (`PauseChain`) and released in its
`finally` (`Release`, entered at `unwind` after an exception and at `gathered`
otherwise), and every run with the flag releases it, whoever paused it. Either
docker command may raise, the container changed or not (`PauseFails`,
`ReleaseFails`), and an interrupt can come at any step: between pause and `try` or
inside the `finally` it ends the run without a release, a second one while the
threads drain enters the `finally` at once. `abandoned` records that a pausing run ended
in one of these ways, or was killed. `RefusePartialEvidence`, `PublishEpoch`,
`SubmitWeights` and `SignManifest` follow `main`. `Kill` can come at every step
and runs no `finally`. A file is written to a temporary name and renamed, so a
write is one step. An evaluation is one of two measurements, chosen anew each
time; a weight vector stands for the payloads it is computed from, as
aggregation and allocation are functions of them. One runner at a time uses a
directory. An interrupt is addressed to the runner; a Ctrl-C that also reaches its
docker child is a docker command that fails.

`EvidenceRecord` has four steps: an epoch that has no measurement gets one; with all
of them there and none failed, what was measured is published, submitted once, and
closed as certified or disputed. The refinement maps checkpoints to measurements,
epoch files to what is published, and the manifest with the auditor's tests to the
outcome. Everything else of a run is a stutter: its invocations, the pool, kills,
interrupts, the files that are written again with the content they have.

### WeightVector, WeightInputs

A vector is a function from hotkeys to naturals up to a common factor, since
every step of the code normalises; the arithmetic is exact where the code uses
floats. `BelowCutoff` and `LowerToCutoff` are the search for the cutoff in
`_clip_to_max_weight`; its epsilon of 1e-7 is modelled as the side on which a tie
at the limit falls. `Round` rounds half to even, as Python's `round`. The float
code computes a u16 value that differs by a unit or so on a few percent of
inputs, and by more only where the limit is barely feasible and the epsilon
counts; no property here depends on single units of a value.

### WeightSubmission

A collection reads one pinned block, so `CollectPlan` is one step; `Ready` is the
conjunction of its gates that depend on the subnet. The digest is over the whole
plan, so an authorized digest is a saved plan. `Revalidate` is `weight-submit` up
to `_require_fresh_equivalent_plan`, `Submit` the signature and the broadcast;
between them, and between `Submit` and the inclusion, the chain moves. A process
that is killed or times out after `Submit` leaves its extrinsic in the pool and can
be run again. `Readback` is a `weight-readback` that is ready; others only report.

The chain is external and modelled by what the tools read of it: `Execute` sets
`last_update` and either the row or, with commit-reveal, a commit; `Reveal` writes
the row only, in any later block; a slot given to another hotkey (`Register`)
keeps its entry in the validator's row; the validator itself, once replaced, does
not register again; all operations of this validator are made with these tools.
`Near` is the comparison of the readback, which accepts each value of the row within
`Tolerance` units of the planned one (the code's default is two u16 units), so the row
of another plan may pass.

### Provisioning

The subnet is created by an extrinsic whose price is not limited on the chain.
`CollectPlan` and `Revalidate` each read one block, at a node that may be up to
`MaxLag` blocks behind the chain and behind the node that answered before.
`Submit`, `Abandon` (a kill, or an SDK that gives up) and `WriteReceipt` follow
`provision-submit`; `ReadbackReady` is a `provision-readback` that is ready. On
the chain the price moves, others send funds, register hotkeys, create and
dissolve subnets; an executed extrinsic either creates its subnet at once or is
paid for and waits in a queue of registrations (`Activate`).

## Runs

| Run | Shows |
|---|---|
| `intake` | SQLite store, two processes, three deliveries: a live acceptance keeps its row (`LiveAcceptanceStored`); two acceptances of a key are never both unexpired (`NoSecondAcceptanceWhileLive`); only responses that pass every check take a slot, never more than `max_entries` (`OnlyVerifiedStored`: every row is that of a response that passed and was handed to the store itself, not of a copy of it); a refusal has another handling to blame, that made of an unexpired response of the key, or of as many as fill the table, an accepted, pending or lost one (`RefusalHasHolder`) |
| `intake_replay` | **violation** of `AtMostOnce` by the SQLite store, see Findings; for the memory store it is proved |
| `lifecycle` | every view of a sealed task is the same set, one timely answer per request even after its replay row is gone, phases advance after the deadline only; the lifecycles implement `CommitReveal` |
| `miner` | exact pending count, at most one execution per signed request, signatures inside request and task, executions beyond the limit only for expired requests; an admitted request is answered although no strategy returns (`AdmittedIsAnswered`) |
| `localnet` | weights only from the checkpoints on disk and all submissions equal; no partial evidence; an auditable manifest describes the chain; the chain stays paused with nobody evaluating only after a kill, an interrupt outside the guarded evaluation or a failed docker command, until the next pausing run (`ChainReleased`); all invocations on a directory are one evidence record, measured once and final when closed (`ImplementsEvidenceRecord`); kills and interrupts alone never prevent completion by `--resume` (`StoppedRunCompletes`) |
| `localnet_resume` | **violation** of `ResumeCompletes`, completion also when one sandbox batch fails, see Findings |
| `weights` | no weight operation lies between the block of a plan and the block it was revalidated at, so that running `weight-submit` again after an execution is refused (`ReviewedStateStands`); a ready readback has an operation on the chain behind it, the last of which carried the plan's recipients and values within the tolerance, unless vectors were committed (`EvidenceHasExtrinsic`); a plan is refused only because something changed, unless it lost a score to rounding (`UnchangedPlanPasses`). Of the vectors, for every scoring and limit: a clipped vector has no share above the limit, keeps the proportions of those below it and lowers only the highest (`ClipFillsToLimit`); the u16 vector ranks the hotkeys as their scores do and keeps the best (`RankingKept`); the two capping algorithms of the repository compute the same shares (`CappingsAgree`); with enough recipients the limit gate is missed by no more than the rounding (`GateMissedOnlyByRounding`) |
| `sandbox` | an answer is one the evaluation can rely on, also when it meets the wall clock (`AnswerScorable`); a bundle is correct only when every completed run of both copies gave one result (`CorrectMeansAllAgree`); no trial measures half a bundle; no statement is interrupted by the deadline of an earlier one (`InterruptsAreOwn`); every evaluation ends whatever the worker does (`EvaluationEnds`) |
| `evaluation` | a reward has a worker's answer of its own for every holdout of the very task that was created (`RewardHasItsEvidence`); a task is observed as a whole or not at all (`TasksObservedWhole`); no weight without a success in every family (`WeightNeedsEveryFamily`); a portfolio under several names earns what it earns under one, up to the rounding of its parts (`CopiesShareOneReward`); weights sum to one and no behaviour exceeds the cap (`SharesWithinCap`) |
| `evaluation_invalid` | **violation** of `BrokenBaselineHarmless`, see Findings |
| `provisioning` | what is signed on a revalidation at or after a payment rests on a block at which the registration still waited, and on another plan than the paid one unless incoming funds made up the price (`SignedAfterPayment`); all creations together cost at most the cap on the creation wallet and what was sent to it (`ExposureBounded`); a ready readback names a creation of this project (`EvidenceNamesCreation`) |
| `provisioning_rerun` | **violation** of `AtMostOneSubnet` by one process that is killed after signing and run again, see Findings |

### Bounds

The bounds are the constants named `Max...` and the sets in the MC modules.
Intake: three keys on a table of two rows (so that capacity, expiry and a second
key meet), two processes and three deliveries (so that a copy can be overtaken
while another key fills the table), a clock that runs past every expiry, and
responses that are good, late, early, overlong and forged. Lifecycle: two tasks
with different deadlines, two callers (one can be overtaken by the other between
sample and lock), clock past both deadlines. Miner: three handlers for one slot,
two threads and two pending places, so that one runs, one waits, one is refused, a
thread is free that only the semaphore withholds, and two orphans block the pool; three deliveries of five requests, so that a
request is repeated and the nonce table of two is full. Localnet: three
epochs and two threads, so that one epoch waits; two stops and two failures, so
that a failure can follow a resumption. Weights: two plans and
two processes (an authorization used twice, and two of them crossing), three
blocks, a plan age of one block, two parameter sets, of which one commits and
reveals, and a tolerance of two with which two of the planned vectors are near each
other and the others not; processes are symmetric. For the vectors three hotkeys,
scores 0 to 9 and a largest u16 value of 15, so that clipping of one and of two
hotkeys, infeasible limits, rounding and loss of a value all occur; `MCWeights`
enumerates them before anything happens on the chain, so that the two state spaces
add up and do not multiply. Sandbox: a bundle of two indexes, the empty
one and a refused one; the least number of trials the code admits, six, two
results, a timeout of one tick and one fault of the environment (more faults end
a request only once). Evaluation: three tasks of one family and
one of another (so that in one of them a single failure decides), three miners, two holdouts (the least
`create_task_v2` admits), five bundles among which are metadata variants and a
twin with the same plan; a batch limit that one set of submissions exceeds.
Provisioning: two invocations, two netuids, two prices (one that no review
passes), a balance that pays for two creations, three blocks, a lag of one block, a plan
age of two (so that a plan is still in its age after its payment), two signed
extrinsics; one invocation is enough for `provisioning_rerun`.
Deadlock is checked in `lifecycle`, `localnet` and `localnet_resume`; in the other
runs the bounded clock, deliveries, faults or blocks end the behaviours.

### Fairness

`miner`: the event loop runs ready coroutines and due timers, and time
passes. Nothing is assumed of strategies, threads or the semaphore: the timeout
alone answers. `sandbox`: only the validator's process runs; of the worker
nothing is assumed. `localnet`, `localnet_resume`: the process and its threads
run while they can, and an operator whose runs keep stopping resumes one with
`--pause-chain-during-evaluation` at some time (strong fairness of
`Resume(TRUE)`): where a run has left the chain paused, a resumption without the
flag cannot reach it. Kills, interrupts and failures are finite in number,
so no fairness is asked of their absence.

## Findings

1. `AtMostOnce` (run `intake_replay`). The table deletes a row when `expires <=
   clock`, with the clock read inside the store; the checks refuse a copy only
   when `expires < now`, with the time at which its body was complete. A copy
   received up to the expiry and stored at or after it is accepted again. The
   documents say that replay stores reject reuse. Within a lifecycle the
   `duplicate_request` guard still catches the copy; the validator client alone
   does not. What does hold is proved: the two acceptances are never both live.
2. `ResumeCompletes` (run `localnet_resume`). A payload with `batch_failure` is
   written as a checkpoint and loaded by every `--resume`, which then refuses it
   as partial evidence. `LOCALNET_V2.md` says a stopped evaluation can continue.
3. `BrokenBaselineHarmless` (run `evaluation_invalid`). A reference query that is
   interrupted, which is the validator's own trouble, leaves `execute_request` as
   a failed result with `correct = False` and `compliant = False`; the miner's
   observation then counts against its compliance and correctness gates.
   `scoring_v2.py` and `PROTOCOL_V2.md` say that a broken baseline or invalid
   evidence must not update weights.
4. `AtMostOneSubnet` (run `provisioning_rerun`). `provision-submit` reads ownership,
   registrations and balance at the block of its revalidation and signs afterwards;
   nothing on disk tells a rerun that an extrinsic was signed. Killed or timed out
   after signing and run again before that extrinsic is executed, it finds the chain
   unchanged and signs a second creation; both are paid where the balance allows.
   `TESTNET.md:86-88` says that the ownership and registration checks prevent a rerun
   from creating a second subnet. They do once a creation has appeared, and the
   balance check does for the same plan once it is paid (`SignedAfterPayment`).

Two observations that contradict no line of the repository, and that the
properties are stated around: rounding to u16 after clipping can lift the largest
share over the limit, so the gate refuses a plan with enough recipients by one
unit (`GateMissedOnlyByRounding` says that it is never more); and a plan that lost a
positive score to rounding cannot be submitted, because the submission plans anew
with the scores of the targets (`UnchangedPlanPasses` excludes it).

## Proofs

Every theorem holds for all values of the constants that satisfy the `...Assumption`
of its module: types, and what the configuration classes of the code enforce. TLC
evaluates these assumptions in the runs of the module. `TypeCorrect` (`Spec =>
[]TypeOK`) is proved for every state machine below but `Evaluation`, whose
invariants carry the types they need.

**ResponseIntake** (`ResponseIntake_proofs`). Its lemmas say of `check_and_store`, for
either store, that it keeps every unexpired row, adds at most the row of its
response, and only when no unexpired row has its key; the theorems are
`LiveAcceptancesAreStored`, `AcceptancesDoNotOverlap`, `StoredIsVerified`,
`RefusalsHaveHolders` (assuming the SQLite store) and `MemoryStoreAcceptsOnce`
(assuming the memory store). `LiveAcceptanceStored` is not inductive: a response is
accepted at `Return`, one step after its row was committed. The invariant adds that
both clock samples lie in the past, that the table has one row per key, that a
process whose insert succeeded has its row as long as it is live, and that among
pending and accepted responses of one key only one is live. A deletion uses a clock
not later than now, so it removes no live row; a live row blocks the insert of its
key; so a second insert can only follow the expiry of the first. For `StoredIsVerified`
every row has a holder and every holder has passed: the row committed by a process is
its own response's while it is pending, and goes with it to the accepted or the lost
ones. `RefusalsHaveHolders` reads the rows that refuse through the same invariant.
`MemoryStoreAcceptsOnce` has an invariant of its own: every key that is pending or
accepted is in the table, which the memory store never shortens.

**TaskLifecycle** (`TaskLifecycle_proofs`). `SealedCollectionIsOne`,
`AnswersAreUnique`, `PhasesOnlyAdvance`, `SlotsAreSubmissions` (no refused response
uses up a slot) and `LifecycleImplementsCommitReveal`. The invariant joins the first
two with: an open task has shown no view, and the time a caller brings is in the
past, so a seal that believes the deadline past is right and maps to a `Close` that
is due. Collecting in `CommitReveal` asks that no task has answered the request; the
code looks only at its own submissions, and `OneTimelyAnswerPerRequest` closes the
gap, as a request is stored only in the task it was issued for.

**MinerService** (`MinerService_proofs`). `PendingIsExact`, `RequestsRunOnce`,
`SignaturesInTime`, `ExcessIsExpired`. The invariant: a handler is counted exactly
while it is inside `execute_strategy`; past the checks a request has no defect; a
thread without a handler belongs to a request whose execution deadline has passed;
a request beyond the nonce store is either stored there or too old to be fresh
(`Spent`), which the cleaning of the store and a restart preserve, so no second
handler of it gets through.

**LocalnetRun** (`LocalnetRun_proofs`). `SubmittedFromCheckpoints`,
`EvidenceIsComplete`, `AuditedIsOnChain`, `PauseIsReleased`, `CompletionIsFinal` and
`RunsImplementEvidenceRecord`. The
invariant: a future that is done holds what its checkpoint holds (`Held`); main
publishes and submits only when all are done and none has failed; an accepted
vector names every checkpoint, so none of them is written again; a directory with a
manifest starts no run (`Owned`); what main reports is on the chain (`Reported`).
For the refinement `Kept` adds what outlives an invocation: an epoch file is absent or
repeats its checkpoint, and the chain shows a vector it accepted. So a run that was
killed after some epoch files, or after its submission, and is resumed writes and
submits the same again, which the record does not see.

**WeightSubmission** (`WeightSubmission_proofs`). `SignedOnReviewedState`: the
invariant says it of extrinsics being signed or in the pool too (`AllApart`) and
adds that every operation was executed no later than `last_update`, a plan recorded
a `last_update` no later than its own block, and revalidations are in the past. If
the chain shows the plan's `last_update` at the revalidation, every operation so far
was at or before the block of the plan; what is executed later is in a later block.
`EvidenceIsCaused`: `last_update` is the block of an executed operation, and as long
as all were direct the row is the vector of that one, which the readback found near
the plan's. `UnchangedPlanAccepted`: the
invariant `Made` says that a saved plan is the plan its scores give at its block; a
revalidation that finds the collected state unchanged and every score kept by the
rounding therefore computes the same vector again.

**Weight vectors** (also `WeightSubmission_proofs`, which reaches `WeightInputs`).
For any finite set of hotkeys and natural scores: `PassesFindTheCutoff` (the passes
of `_clip_to_max_weight` end at the one set of hotkeys that stay below the limit),
`LimitFilled`, `ScoresRanked`, `CappingsGiveOneShare` and `GateMissBounded`. Sums
over finite sets are first given their laws (empty, one more element, union,
monotone, scaled), by induction over the subsets of a finite set; `BelowCap` is a
recursion over the number of passes, whose function is shown to exist before it is
used. Then: a set is a cutoff when its members are exactly those that stay below the
share the others leave; each pass only removes hotkeys that no cutoff contains, and
the pass that removes nothing has found one; both cappings of the repository end
there, so their shares agree. Rounding half to even is monotone, which gives the
ranking, and moves a value by half a unit at most, which bounds what the gate can
miss.

**SandboxWorker** (`SandboxWorker_proofs`). `TypeCorrect`, `CorrectnessIsAgreement`,
`BundlesAreMeasuredWhole`, `InterruptsAreInOwnTime`, `AnswersAreScorable`. The
invariant has a part for each: the deadline left on the connection in use is the
current statement's timeout minus what it has run (`Timed`); all indexes are
installed before the plan and the trials (`Built`); what was seen of each copy is
what the reference, the candidate's digest and the runs of the open trial hold, and
a trial closes only when they agree (`Agree`). It holds for any number of trials and
indexes and any timeout. `AnswersAreScorable` needs a second invariant on top of it,
`RInv`: recorded trials have the interleaved orders and a baseline that never timed
out (`Recorded`); what the worker prints and what the process hands on is such a
result or a failure with a code of its own (`Returned`, `Answered`). Leaving out one
trial keeps the interleaved orders balanced, so no correct answer fails the gates
for balance and minimum. The theorem assumes `MinimumTrials <= TrialCount` and
`MaxTimeoutShare <= TrialCount`: `evaluate_holdout` refuses fewer trials than
`minimum_trials` (`evaluation_v2.py:196`), and the default limit of one timeout in
five (`scoring_v2.py:74`) lets one of the at least six trials time out.

**Evaluation** (`Evaluation_proofs`). `OneRevealPerTask`: two reveals that verify
against one public task agree in seed, salt, fixtures and root.
`AcceptedIsGenerated`: a task that passes `_validate_and_regenerate_task` has the
material that `create_task_v2` makes for its owner and family. `RootBinds` and
`OneOpeningPerTask`: a Merkle root is that of one list of fixtures, of whatever length,
so a public task has one opening even for the bundle auditor, who verifies reveals
without regenerating anything (`scripts/audit_localnet_v2.py:348`). Parents determine a
level whose digests all differ (`ParentsDetermine`), a repeated last digest included;
the levels of two trees with one root are followed down together, and leaves are no
nodes (`OneTree`). `EvidenceForRewards`
(`RewardHasItsEvidence`): while a task is measured, every strategy is either
evaluated or still in the queue, and the answers of the batch that remain are those
of the queue, in its order (`Queued`, `Batched`); an evaluation is recorded only
when every answer names its bundle and fixture (`Evaluations`), so none was turned
round unnoticed. `ObservedWhole` (`TasksObservedWhole`): observations are written by
`CloseTask` only, when no strategy is queued (`Complete`), and a raised error leaves
the task without any. `Invariance` is the invariant behind both.

**Rewards and weights** (also `Evaluation_proofs`). `WeightFromEveryFamily`
(`WeightNeedsEveryFamily`), `PlanSharesWithinCap` (`SharesWithinCap`) and
`CopiesShareTaskReward`: on a task, the copies of a strategy have together what one of
them would have, less a remainder below their number. `PlanInvariance` adds to the
first invariant `RInv`: whatever is scored and observed has a natural for its reward
(`Sound`), and the aggregates and weights of an allocated run are those of its
observations (`Allocated`). What the statistics give is proved from their
definitions. Sums and products over finite sets do not depend on the order they are
taken in; the recursions of the root and of the folds have functions; a root of zero
is zero, and no natural whose power stays within the argument exceeds the root; a
sorted value is one of the values, so the winsorized mean and the lower bound of a
family without a reward are zero (`BoundFacts`). Hence a family whose score is not
zero has a rewarded, counted observation (`FamilyFacts`), and the quota follows as
two observations of a miner are never made one. An aggregate depends on the available
observations alone (`SameAggregate`). For the cap, `PassKeeps`: a pass caps fewer
recipients than the mass pays for, and never all of them, as there are enough for the
cap; so the passes end with a non-empty set, a mass that is not negative and nobody
above the cap (`BelowFacts`), and the shares add up (`SharesOf`), also when every raw
share is zero. The proofs assume what the policies enforce (positive quotas, a
`maximum_weight` above zero and not above one) and that a worker's savings are
naturals, as `score_benchmark` counts no negative saving.

**Copies** (also `Evaluation_proofs`). `CopiesShareReward` (`CopiesShareOneReward`):
what `k` names earn together with one portfolio is what one of them would earn alone,
within the stated rounding, for any `k`, families, schedule and policy. `Off(v, w, k,
e)` says that the values `v` are `k` times the values `w` up to `e`. On a task a copy
has the `k`-th part of the whole reward, so `e` is `k - 1`. Every statistic then
carries `Off` along: sorting does, whatever the order of the names (`SortedOff`, by
counting how many values lie below a bound), so medians and absolute deviations do;
the standard error does, as its root moves by at most `3 * e` when four times the
median deviation moves by `8 * e` (`RootsApart`); clipping to the winsorized bounds, the mean and the difference of both
do (`BoundOff`, `FamilyOff`). The geometric mean of families that are each off by `e`
lies between those of the moved families (`GeometricOff`), which is why the property
states the interval with `WorthWithin`. On the other side, copies are observed alike
(`CopiesAlike`), the duplicates of each observation are exactly the copies
(`AsManyAsCopies`), so all have the same rewards, counts and gates (`SameHeads`,
`HeadsEqual`, `SameWorth`), and the compliant share is that of the portfolio alone.

**Provisioning** (`Provisioning_proofs`). `RerunsAfterPayment`: a creation makes
the coldkey an owner at its block and at every later one, so a revalidation that saw
no ownership was at an earlier block (`Sees`); and what the coldkey holds without
what it was sent only falls, at each payment by the price, so a revalidation after
one that finds the reviewed balance again was preceded by incoming funds
(`Falls`). `ExposureStaysBounded`: until the
first payment, what the coldkey holds less what it was sent is what every review
saw; afterwards what it has spent and still holds add up to one review (`Funds`).
`EvidenceIsOfACreation`: every subnet of the coldkey at every block is one of its
creations and a receipt is of one (`Stands`).

Only model-checked: the liveness properties (fairness and `ENABLED` are outside the
prover).

## Not modelled

- The transport of the validator client before a body is complete: endpoint and
  header checks, size limits, timeouts. They refuse without a state change.
- The auditor's recomputation of a bundle, and the portable variant of the task
  regeneration it uses (it leaves out the digest of the database file, which
  depends on the build of SQLite). `LocalnetRun` has only its tests of the
  extrinsic and the readback.
- `submit_weight_plan` and `resolve_hotkey_weight_plan` of `weights.py`, the
  localnet path of a submission; `LocalnetRun` has it as one step with its outcomes.
- Preflight and the network guard: they read a snapshot and report gates.
- The rows, parameters and queries of the generator, the canonical encoding of
  results in the oracle, schemas: values and formats.
- The mechanism simulation (a Monte-Carlo study of the scoring), protocol v1 (kept
  for its tests), the CLI and the dashboard.

## Plan

1. The auditor as a third driver of `Evaluation`: what it recomputes from the files
   of an untouched run agrees with what the runner wrote, on another build too.
2. `Dispatch`: composition of validator client, miner service and lifecycle over a
   network that loses, repeats and delays; the client's timeouts.
3. `weights.py` as a second implementation of what `WeightSubmission` promises.
