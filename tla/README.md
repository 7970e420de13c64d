# A formal model of soroban-verify-backend

This directory holds TLA+ specifications of the verification backend in this
repository, the TLC configurations that model-check them on small instances, and
TLAPS proofs of every safety property that these runs check, for every size of
instance.
Paths below are relative to the repository.

## 1. The system

A client submits a claim ("contract C on network N was built from commit X of
repository R"). The API stores it as a job; a worker claims the job, rebuilds the
Wasm in a container, compares it with the hash on the chain, publishes the
verdict as the canonical record of (C, N), has it attested by a registry contract
and finishes the job. API and workers are separate processes. They share nothing
but Postgres.

| Component | State it keeps | Operations | Talks to |
|---|---|---|---|
| Submission (`api/src/routes/verify.rs`) | none | `submit` | RPC, `verification_jobs` |
| Job queue (`common/src/repo.rs`) | `verification_jobs`, row locks | `insert_job`, `claim_next_job`, `finish_job` | API, workers |
| Worker loop (`worker/src/main.rs`) | semaphore, spawned tasks | acquire, claim, spawn, poll | queue, pipeline |
| Pipeline (`worker/src/pipeline.rs`) | one task per claimed job | `run`, `execute`, `publish`, `fail` | sandbox, RPC, all tables |
| Canonical record (`common/src/repo.rs`) | `verifications`, one row per (contract, network) | `upsert_verification`, `update_attestation` | pipeline, readers |
| Attestation (`worker/src/attest.rs`, `common/src/rpc.rs`) | the network's registry | `submit_attestation` | RPC, `verifications` |
| Build log (`worker/src/logger.rs`) | `seq`, `build_log_lines` | `line` | pipeline |
| SSE stream (`api/src/routes/verify.rs`) | `after_seq` per connection | `job_logs_sse` | `build_log_lines`, job status |
| Migrations (`common/src/db.rs`, `migrations/`) | `_sqlx_migrations`, advisory lock | `migrate` at start-up | api, worker |
| Provenance (`pipeline.rs`, `rpc.rs`, `sep58.rs`, `trust.rs`, `compare.rs`) | what a task carries from step to step | on-chain hash, SEP-58 pre-fill and cross-check, tier, comparison | RPC, submission |
| Sandbox (`worker/src/sandbox.rs`, `git.rs`) | git children, containers, temporary directory, readers, line channel | `clone_at_commit`, `build`, `run_docker`, `locate_wasm` | docker, git, build log |
| Explorer, badge, status (`api/src/routes/`) | none | `list`, `badge`, `get_one`, `job_status`, `get_job` | tables |
| Validation, configuration, error mapping, wiring (`validate.rs`, `config.rs`, `error.rs`, `api/src/main.rs`) | none | pure functions, start-up | API, worker |

What is hard here, and what would make each part correct:

* **Queue.** Claims of several processes overlap with each other and with
  inserts. A claim sees a snapshot, skips locked rows, may be rolled back, and its
  reply may be lost. Correct: a job is handed out at most once; it is not
  overtaken without bound; it is found again after a rollback.
* **Worker and pipeline.** Record, attestation and job status are separate
  statements with no transaction around them. Any of them may fail with or
  without effect, the process may die between any two, and another job of the
  same contract may publish in between. Correct: a record always agrees with its
  job, outcomes are final, no path loses a permit, every job ends when nothing
  fails.
* **Log and stream.** Writer and reader are in different processes. The build
  timeout drops a log insert that is on its way, an insert that reports an error is
  passed over with a warning and may commit all the same, and the reader fetches lines
  and status in two statements. Correct: order, no duplicates, nothing missed that the
  writer knows to be there, an end.
* **Provenance.** A job reads the chain when it is submitted, when it starts and
  again for the SEP-58 check, and its image reference is classified once and looked
  up by two containers. The contract may be upgraded and a tag re-pointed between
  any two of these. Correct: what a record says is true of something that was there
  while its job ran, and the tier is not better than what ran.
* **Sandbox.** What the timeout or a crash drops is only the worker's half: a
  container or a git child goes on, in a directory that is being removed. The output
  passes two pipes, two readers and a bounded channel into the database. Correct:
  steps do not overlap, the artifact is what the job's build wrote, a successful step
  lacks a line in the log only with a warning, a build is not failed by its own log,
  nobody waits for ever on a full pipe.
* **Explorer.** Page and total are two statements, a walk is many, and rows move
  while it is under way. Correct: it ends, and misses nothing without a reason.
* **Start-up.** Two binaries migrate one database.

## 2. Modules

| Module | Models | Runs |
|---|---|---|
| `VerificationSpec.tla` | what the service promises: the life of a job, one verdict per job, the record of a target | as a property of `worker` and of `provenance` |
| `Worker.tla` (`MCWorker.tla`) | loop, pipeline task, attestation, tables | `worker`, `worker_live`, `attest_row` |
| `WorkerProofs.tla` | proofs about `Worker.tla` | (TLAPS) |
| `Provenance.tla` (`MCProvenance.tla`) | submission, `execute` and `publish` by what they read and conclude | `provenance`, `provenance_onchain` |
| `ProvenanceProofs.tla` | proofs about `Provenance.tla` | (TLAPS) |
| `Sandbox.tla` (`MCSandbox.tla`) | `execute` by the processes it runs | `sandbox`, `sandbox_shipped` |
| `SandboxProofs.tla` | proofs about `Sandbox.tla` | (TLAPS) |
| `JobQueue.tla` | insert and claim inside Postgres | `queue` |
| `AtomicClaim.tla` (`MCJobQueue.tla`) | `JobQueue` watched from `Worker`'s side | `queue` |
| `JobQueueProofs.tla` | proofs about `JobQueue.tla` and `AtomicClaim.tla` | (TLAPS) |
| `LogStream.tla` | build log and SSE stream of a job | `logs`, `logs_done` |
| `Explorer.tla` (`MCExplorer.tla`) | the pages of the explorer | `explorer` |
| `OrderBy.tla` | `ORDER BY` of a query, used by the two above | `logs`, `explorer` |
| `OrderByProofs.tla` | what `ORDER BY` returns | (TLAPS) |
| `LogStreamProofs.tla`, `ExplorerProofs.tla` | proofs about `LogStream.tla` and `Explorer.tla` | (TLAPS) |
| `Migrations.tla` (`MCMigrations.tla`) | start-up of api and worker | `migrations` |
| `MigrationsProofs.tla` | proofs about `Migrations.tla` | (TLAPS) |

The modules look at the same pipeline from several sides. `Worker` has every
statement with its failures and keeps the build as one choice of outcome.
`Provenance` lets the statements succeed and opens that choice: what was read and
when. `Sandbox` opens it in another direction: which processes ran. `Worker` and
`Provenance` implement one abstract specification, `VerificationSpec`, so they agree
on what a job and its record go through. `JobQueue` opens the one atomic claim, and
`AtomicClaim` joins the two.

`PROJECT.json` maps every definition to its source lines.

### Worker

State: `status` is the job's column ("absent": no row yet), `row` the
`verifications` table, `registry` the attest transactions the network accepted,
`loop` and `free` the main loop and the semaphore of each process, `pc` and
`verdict` the tasks. A task is indexed by worker *and* job, so the model could
show two workers with a task for one job. Two history variables: `published`, the verdict a job's
upsert wrote, and `lost`, the jobs of which a statement failed or whose process
crashed under their task. Nothing reads them but properties: `lost` says exactly
which jobs may be left running for ever.

Each statement sent to Postgres is one action. With `DbFaults` it may instead
fail, either without effect or with its effect and a lost reply, and the action
takes the code's error path: `?` in `publish` and `fail` ends the task with the
job as it is, an error of `update_attestation` is only logged, an error of the
claim sends the loop to its poll. With `Crashes` a process may die in any state
and be started again. The inside of `execute` is one choice: an outcome with
either verdict (`Built`), or an error or timeout (`BuildFails`). The claim is one
atomic step. Because a claim skips rows other claims have locked, `ClaimNone` may
also happen while a job is queued and another worker is claiming.

A transaction is named by the job that submitted it; two submissions of the same
commit, whose transactions the network would not tell apart, are not considered.

### Provenance

Jobs of one contract, from request to verdict. A step of a job is an action:
existence check, pre-fill and insert, claim, `onchain_wasm_hash`, SEP-58 check with
classification, the two containers, upsert, `finish_job`. The world moves between
any two of them: `Upgrade` changes the contract, archives it or brings it back,
`Repoint` makes a tag name another image. A read of the chain is the *set* of what
it may return: empty where there is no contract, and then the step can only fail or
go on without. A Wasm stands for its hash; `fetch_contract_wasm` reads the hash and
then the code under it, which never changes, so it is one read. A build may give any
Wasm. Two history variables: `window`, what the contract was while a job's request
was handled and then while its task ran, and `ran`, the digests its containers ran.
A failed task forgets what it carried, as `execute` does.

### Sandbox

`execute` of the jobs of one worker process, one process per step: five git children,
two docker clients with their containers. `procs` is what really runs, `child` what
the worker knows of it. `Exit` ends a process and tells whoever follows it. `Timeout`
drops the step in any state, removes the directory and leaves `procs` as it is: the
docker client is killed (`kill_on_drop`), the container and a git child are not.
`Crash` does not even remove the directory. What goes on writes into a directory
that may be gone and may come back. `Write`, `Read`, `Log` are the way of a line
through pipe and channel. An insert that fails is a warning (`logger.rs:30-32`), so
`Log` consumes a line with or without putting it in the log; the history variables
`logged` and `warned` tell the two apart. `Garble` is a line that is not UTF-8, at
which the reader's `while let Ok(Some(..))` ends without a warning. A client whose pipe has no reader dies of it
(`BrokenPipe`). A build may write any of `Products`, whatever name the job asked for,
and a commit may bring Wasm files of its own (`Committed`); `Shipped` are those among
them that `locate_wasm` may take.

### Explorer

One client walks the pages of a filter. An upsert is stamped when it begins (`now()`)
and seen when it commits, so of two upserts of a contract the older may win. Page and
count are separate statements. What an upsert does to a listed row is what the
properties have to allow for: `published` (the row was rewritten), `receded` (a row
moved down or out of the filter, so that rows below it moved up past the offset) and
`overrun` (that happened between page and count).

### JobQueue

Opens the atomic claim of `Worker`: the snapshot when the statement starts, the
walk over it from the oldest row, one row per step, the row lock with its second
look at the row, commit with or without reply, rollback at any step. Inserts are
stamped when they begin and become visible when they commit. `passed` is a
history variable for the order property. Ties of `created_at` and clock
differences are left out.

### AtomicClaim

`Worker`'s claim is one step with two answers. That a job it returns was queued and
goes to nobody else is `JobQueue`'s `ClaimedOnce`. The empty answer is harder: the
statement works on a snapshot, and what it passes over may be queued again, and other
jobs inserted, by the time it ends. `excused` watches the statement for a moment at
which `Worker`'s `ClaimNone` is allowed: nothing queued, or another claim under way.

### LogStream

One job. `append` is the insert the writer waits for. `adrift` are the inserts it
gave up, which commit later or never: those that reported an error, which may be the
loss of the connection (`warned`), and the one the timeout dropped (`dropped`). Starting `fail` numbers its line,
because `fail` begins with one; finishing from `publish` numbers the closing
line. The stream may break at any time (a failing statement, or the client goes
away), and a client may connect again, which starts from line 0.

### Migrations

The sqlx migrator is not in this repository; its rules as this module uses them
are in the module's header. SQL files are reduced to version and checksum.

## 3. Model checking

| Run | Instance | Shows |
|---|---|---|
| `worker` | 2 workers with 2 permits each, 3 jobs, 2 targets (t1 attestable with two jobs, t2 not), faults and crashes, symmetry of workers and of the jobs of t1 | `TypeOK`; one task per job (`TaskOwnsJob`); the record agrees with its job (`RecordAgreesWithJob`); status agrees with what was published (`StatusAgreesWithPublished`); only what was published is attested (`AttestedWasPublished`); permits balance (`PermitsBalance`); a running job has a task, or is lost to a fault (`NoOrphan`); outcomes are final (`TerminalIsFinal`); the record passes only to a publisher (`RecordPassesToPublisher`); refinement of `VerificationSpec` (`ImplementsVerificationSpec`) |
| `worker_live` | 3 jobs, 2 workers with 1 permit each, so jobs wait; faults | every queued job ends or is lost to a fault of its own (`SubmittedEnds`); every worker that waits for a permit gets one, whatever fails (`PermitsComeBack`) |
| `provenance` | 2 jobs, 2 Wasms with different metadata, 3 kinds of request (image open; pinned and allowlisted; tag with an expected hash), 1 tag, 2 digests | trusted means that only allowlisted images ran (`TrustedIsEarned`); the recorded hash was the contract's during the job (`RecordedHashWasLive`), and so was the Wasm the SEP-58 flag is about (`FlagIsAboutLiveWasm`); a pre-filled image was embedded, a named one is kept (`ImageIsNamedOrEmbedded`); refinement of `VerificationSpec` |
| `sandbox` | 2 jobs, 1 permit, channel and pipes of 1 line, up to 1 line on stdout and 1 on stderr in each step, a commit that brings a Wasm of its own | steps do not overlap (`StepsDoNotOverlap`); a successful step lacks a line in the log only with a warning or after a garbled one (`OnlyWarnedIsMissing`); a running container is given up only after a garbled line (`GivenUpOnlyWhenGarbled`); no job takes another one's file, nor any but its own build's if its commit ships none (`NoForeignArtifact`); output is read to its end (`StreamIsDrained`); a full pipe empties (`WriterResumes`) |
| `explorer` | 3 contracts, pages of at most 2, `per_page` 0 and 3, 3 filters, 5 upserts, 2 at a time, symmetry | a walk misses only what was published again or passed by a receding row (`WalkMissesNothing`); a quiet walk is the table (`QuietWalkIsExact`); the total covers its page (`TotalCoversPage`); the walk ends (`WalkIsBounded`) |
| `queue` | 3 jobs, 2 workers | claimed once (`ClaimedOnce`), each worker passes a visible, unlocked job at most once (`BoundedOvertaking`), a claim ends empty only if `Worker`'s claim could have (`EmptyIsExplained`), every queued job is claimed (`QueuedIsClaimed`) |
| `logs` | 4 lines before the last, faults | lines are sent once and in order (`ShownInOrder`); only a line whose insert was given up can be passed over (`OnlyUnconfirmedIsSkipped`); a replay opened after the end is complete (`ReplayIsComplete`); open streams end (`StreamEnds`) |

**Bounds.** The interesting interleavings need two workers, two jobs that share a
target (one overwrites the other's record between its upsert and its attestation)
and a third job that does not; a worker with two permits runs two tasks at once.
In `queue` a job can be passed twice only if there are three. `MaxLines` bounds a
log; its steps do not depend on how many lines came before. In `provenance` two Wasms
and two digests are enough to tell old from new; upgrades and re-pointings are not
counted. In `sandbox` a pipe of one line is full with every line, and the channel is
full with one of either stream, for which the other stream's then has to wait; the
theorems are for outputs of any length. One permit lets a second build run while the
processes of the first go on. In `explorer` pages
of 1 and 2 over 3 rows have a full last page, a short one and an empty one; 5 upserts
fill the table and leave 2 that overtake each other or republish during the walk.
Failures, timeouts and crashes are not counted, they may happen without end.
Deadlock is checked except in `sandbox` (every job over, nothing running) and in
`explorer` (the walk over), which may stop.

**Fairness.** A running loop and a task go on, and a statement is answered
(`WorkerFairness`): both are tokio tasks that wait for nothing else. Builds end
because `tokio::time::timeout` ends them. Strong fairness of `Claim` says that a
worker that finds queued jobs again and again gets one; `JobQueue` shows why a
skipped row is found, and uses strong fairness only to exclude that the same
worker's claims are rolled back for ever. `sendTransaction` has no timeout
(`rpc.rs`, `reqwest::Client::new()`), so that it answers is a separate assumption,
`RpcAnswers`; without it `SubmittedEnds` fails, because a silent RPC server keeps
the task and its permit. In `LogStream` only the stream is fair. In `Sandbox` the
runtime polls `run_docker`'s loop and its readers, one condition for each of these
tasks; a reader is strongly fair because tokio's channel serves waiting senders in
turn, while the other reader may take every free place before it is polled. Nothing is
assumed there of git, docker or the containers, nor that the timeout ever strikes.
Nothing is assumed of clients.

**Mistakes.** For each property, `PROJECT.json` names a definition and a variant
of it with one plausible error (introduced by "Mistake:" in the modules), for
which TLC finds the property violated.

### Where the code does not do what it says

Each of these runs ends in a counterexample to a sentence of the repository.

| Run | Sentence | What happens |
|---|---|---|
| `attest_row` | `repo.rs:161` "so the audit trail reflects the tx hash and attester" | a transaction is written on the record another job published meanwhile |
| `logs_done` | `verify.rs:114` "follows until the job reaches a terminal state" | lines written between the two statements of the stream, such as the reason of a failure, are not sent before `done` |
| `migrations` | `db.rs:14` "idempotent; safe to call from both binaries" | two files have version 2; the first start is refused after applying one of them |
| `provenance_onchain` | `models.rs:80` "Rebuilt Wasm matched the on-chain hash.", with `models.rs:227` "Ignored in production mode" of the expected hash | `pipeline.rs:170` takes an expected hash in every mode: a record says verified for a hash the contract never had |
| `sandbox_shipped` | `sandbox.rs:142` "Finds the built Wasm under the standard soroban target dirs", with `models.rs:269` "Hash of the Wasm we rebuilt from source" | a `.wasm` file that the commit ships in a target directory is taken when it is the only one; with `build_config.package`, also before the built one of that name in the second directory |

Known limits, seen while modelling and not turned into runs of their own:

* `pipeline.rs:38` says `run` leaves the job in a terminal state. A failing upsert or
  `finish_job` ends `run` with the job running, and nothing takes it up again; the
  same after a crash. `NoOrphan` says that this happens to no other job.
* `attest.rs:106` records `TRY_AGAIN_LATER` as submitted, though the network does not
  have the transaction (`AttestSubmitted` without effect).
* After a timeout a container goes on while its permit is free: permits bound tasks,
  not containers. `NoForeignArtifact` shows that what it writes is in no other build.
* `attest.rs:3` says that a job is attested "after a successful byte-comparison".
  `publish` attests whatever the verdict is (`pipeline.rs:205`), and so does `Worker`:
  `AttestedWasPublished` and the refinement allow the attestation of a mismatch.
* `logger.rs:1` ("every line is persisted") and `SECURITY.md:17` ("full build logs are
  retained") promise more than the code keeps. A line whose insert fails, because of
  the database or because `TEXT` does not take it, is missing with only a warning in
  the worker's own output; after a line that is not UTF-8 the rest of its stream is
  missing without one, and the closed pipe may fail the build.
  `OnlyWarnedIsMissing` and `GivenUpOnlyWhenGarbled` say that nothing else is lost or
  failed.
* The answer to `sendTransaction` may be lost: then the registry has an attestation
  that no row records, and nothing reconciles the two.
* Two jobs of a contract may finish in the other order than they were submitted; the
  later upsert wins, be it the older job's.
* In `Worker` a statement that reports an error took effect at once or never does.
  Only `LogStream` lets it commit later.
* `README.md:83` asks of the auditable tier that the image is pinned;
  `TrustPolicy::classify` asks only for its registry, and the default image is a tag.
* A verified record says nothing of upgrades after its job: it stays, its badge too.

## 4. Proofs

`WorkerProofs.tla` proves, for all sets of workers and targets, every finite set
of jobs, any number of permits, with and without failures and crashes:

| Theorem | Property |
|---|---|
| `TypeCorrect` | `TypeOK` |
| `TaskOwnership` | `TaskOwnsJob` |
| `RecordAgreement` | `RecordAgreesWithJob` |
| `StatusAgreement` | `StatusAgreesWithPublished` |
| `AttestationSafety` | `AttestedWasPublished` |
| `PermitConservation` | `PermitsBalance` |
| `Implementation` | `ImplementsVerificationSpec` |
| `TerminalStability` | `TerminalIsFinal` |
| `RecordSuccession` | `RecordPassesToPublisher` |
| `NoIdleClaim` | `NoOrphan` |
| `FaultFreeLosesNothing` | without failures and crashes, every running job has a task |

The assumptions are those named in `Worker.tla`: jobs are finite, `TargetOf` maps
jobs to targets, any number of permits (the code accepts 0), `NONE` is not a job nor a
row.

The properties are not inductive by themselves. That the last update of a job agrees
with its record needs to know what the task knows at that step. So `IInv` adds
`TaskKnows`: under a task the job is running until the task's last update, it is
unpublished up to the upsert, and afterwards its published verdict is the one the
task carries; and `OneTask`, without which another task could falsify that.
`NoOrphan` is an invariant of its own kind (`Served`): only `lost` makes it hold with
faults, and `FaultFreeLosesNothing` shows that `lost` hides nothing, because it stays
empty without faults. The permits are separate (`PermitInv`): the balance per worker,
and that a worker that is down has no tasks. There is one lemma per action and half.
Two of them carry the weight. `UpsertKeepsData` shows that a job that publishes is on
no record before. `UpdateAttestationKeepsData` shows that a transaction written on
another job's row still leaves its job and verdict. Refinement follows step by step
(`StepImplements`), and the two action properties follow from it (`AbstractStep`):
the abstract specification already forbids what they forbid.

`ProvenanceProofs.tla` proves, for any number of jobs of a contract and any Wasms,
metadata, requests, images and tags:

| Theorem | Property |
|---|---|
| `TypeCorrect` | `TypeOK` |
| `TrustIsEarned` | `TrustedIsEarned` |
| `RecordedHashIsLive` | `RecordedHashWasLive` |
| `FlagIsLive` | `FlagIsAboutLiveWasm` |
| `ImageSource` | `ImageIsNamedOrEmbedded` |
| `Implementation` | `ImplementsVerificationSpec` |

The assumptions are those named in `Provenance.tla`: allowlists are of what they
list, digests are not tags, requests and metadata name images, `NONE` is none of the
values it stands in for. Without "digests are not tags" a tier could be re-pointed.

The properties speak of the record, but its fields are collected over five steps
while chain and tags move. `IInv` therefore says what a task knows at each step:
its hash is the expected one or in its window (`HashKnown`), its flag is true of a
Wasm in the window (`FlagKnown`), its tier is the class of its image (`TierKnown`),
and if that class is trusted only allowlisted digests ran (`RanKnown`, by
`ContainerIsTrusted`: a trusted reference is a digest, so no tag has a say). Windows
only grow while they are open, which is why upgrades do not hurt (`UpgradeKnown`).
`PublishKnown` hands all of it to the record.

`JobQueueProofs.tla` proves, for finite sets of jobs and workers, with rollbacks and
lost replies:

| Theorem | Property |
|---|---|
| `TypeCorrect` | `TypeOK` |
| `SingleClaim` | `ClaimedOnce` |
| `FairOrder` | `BoundedOvertaking` |

There are two inductive invariants. `ClaimInv` rests on the row lock: it has one
holder, and its row is still queued (`LocksProtectQueued`); `HandedOutOnce` says what
`ClaimedOnce` counts in terms of sets. `OrderInv` needs more than the count of passed
jobs: a job that is to be had and was passed by a worker is in the next snapshot of
that worker (`LooksAtPassed`), and being older it is reached before any younger row,
so that the worker cannot pass it again.

The second half of the module proves `EmptyIsExplained` of `AtomicClaim` (theorem
`ClaimIsAtomic`). A history variable only watches (`Watches`), so what the first half
proves holds here, too. A claim without excuse was alone since it started, and the
rows it has left are queued and not none (`AloneWithQueued`); then it locks the next
one it looks at.

`SandboxProofs.tla` proves, for any jobs, permits, sizes of pipe and channel, and
lengths of output, with timeouts and crashes in every state:

| Theorem | Property |
|---|---|
| `TypeCorrect` | `TypeOK` |
| `StepOrder` | `StepsDoNotOverlap` |
| `WarnedOrLogged` | `OnlyWarnedIsMissing` |
| `SlowLogFailsNoBuild` | `GivenUpOnlyWhenGarbled` |
| `OwnArtifact` | `NoForeignArtifact` |
| `NobodyIsStuck` | the safety half of `WriterResumes`: a line in a pipe has a reader, which has room in the channel or finds lines there that the loop is still logging |

The assumptions are `SandboxAssumption`: channel and pipes hold at least one line,
and files that come with a commit, or that a build is about to write, are nobody's.
`IInv` has these parts. `ProcessesFollowed`: a process
that runs is the one the job waits for, or the job is over, or the worker takes its
container for failed, after which only failure follows; so no step is left for the
next while its process runs. `FilesAreOwn`: a directory has files of its own job, built or
committed, so what is taken from it is one or the other (`ArtifactIsOwn`).
`LinesAccounted`: the lines logged, warned of, in the channel and in the pipe are the
lines written, except garbled ones, which is why with an empty channel and without
readers a missing line has had its warning. `ReadersStopGarbled`: while the client
runs, a reader is missing only after a garbled line, and so a client dies beside its
container only then. The number of lines of a stream in the channel is a cardinality
(`CountAppend`, `CountTail`), because a recursive count could not be proved about.

`OrderByProofs.tla` proves of any finite set and any strict total order what the two
readers rely on: the sequence has as many places as the set has rows (`SortedType`),
every row is at the place after those that come before it (`SortedListsAll`), and it
is in order (`SortedInOrder`). `Sorted` is defined by the rank of a row, the number of
rows before it, because the community modules' sorting is not defined in a form the
provers can expand. That a row of every rank exists would take an induction; here it
follows from counting: ranks are different numbers below the size of the set
(`RankMonotone`, `RankInjective`), so none of them is missing (`RankOnto`).

`LogStreamProofs.tla` proves, for logs of any length, with failing statements, a
timeout at any moment and a client that comes and goes:

| Theorem | Property |
|---|---|
| `TypeCorrect` | `TypeOK` |
| `InOrder` | `ShownInOrder` |
| `PassedOver` | `OnlyUnconfirmedIsSkipped` |
| `Replayed` | `ReplayIsComplete` |

The only assumption is that `MaxLines` is a number. The danger is a line that comes
into the table below what a stream has read. `AppendIsNew` says that the line the
writer waits for is above all that are there, so the line can only be one whose insert was given up
(`NothingPassed`), and `PhaseTells` that the task leaves `execute`, where inserts are
dropped, once. A stream opened after the end is the exception to the exception:
`atFinish` no longer changes, and its first reading takes all of it, lines that
were given up too if they are there (`EndReplayed`).

`ExplorerProofs.tla` proves, for every finite set of contracts, any filters, page
sizes and number of publishers:

| Theorem | Property |
|---|---|
| `TypeCorrect` | `TypeOK` |
| `NothingMissed` | `WalkMissesNothing` |
| `QuietExact` | `QuietWalkIsExact` |
| `Bounded` | `WalkIsBounded` |
| `TotalCovers` | `TotalCoversPage` |

The assumptions are `ExplorerAssumption`; that the contracts are finite is that the
table is. The argument is about ranks again. While no listed row recedes, the listing
only gains rows and a row only gains rows above it, so a row that was not shown yet
has a rank at or beyond the walk's next offset (`NoneMissed`), and the count is not
smaller than the page (`CountCovers`). Without publications the listing is the one the
walk began with (`QuietSoFar`). `StampsDiffer` makes the order strict: dates differ,
those of upserts under way included. The walk is bounded because a full page needs as
many rows in the table (`PageFits`).

`MigrationsProofs.tla` proves, for any processes and any list of files, with crashes
in every state, what start-up promises and where its comment goes wrong:

| Theorem | Statement |
|---|---|
| `CompleteWhenServed` | a process that serves has every file applied |
| `SameVersionNeverServes` | if two different files have one version, no process ever serves |
| `DistinctVersionsSucceed` | if no two files have one version, no start is ever refused (`MigrateSucceeds`) |

The second is the finding of run `migrations` without its bounds: the repository has
two files `0002_*.sql`. The third shows that nothing else stands in the way. The
invariant: one process has the lock (`LockExclusive`), of a version one file at most is
applied (`AppliedAreFiles`), and the process that migrates knows the table, being what
it read and what it went through since (`MigratorKnows`).

**Only model-checked.** Liveness: `SubmittedEnds`, `PermitsComeBack`, `QueuedIsClaimed`,
`StreamEnds`, `StreamIsDrained` and `WriterResumes`, since the provers treat neither
fairness nor ENABLED. The sentences that fail, of the table in section 3, are
counterexamples of TLC. Every invariant and action property of a passing run, and both
refinements, are proved. The models' own bounds (`MaxUpserts`, `MaxLines`) are
constants of the theorems like any other.

## 5. Not modelled, and the plan

* Validation (`validate.rs`), configuration (`config.rs`), error mapping
  (`error.rs`) and router set-up hold no state and are pure functions of strings.
  Their results are constants of the models: the requests that pass, the permits,
  the allowlists, a refusal.
* `get_one`, `job_status`, `get_job` and `verification_for_contract` return one row
  as one statement reads it. What may be in that row is the subject of `Worker` and
  `Provenance`.
* Of attestation, the key derivation and the bytes of the envelope; the envelope is a
  stub in the code. Of the sandbox, the docker arguments. Of provenance, XDR and
  Wasm sections byte by byte: `Metadata` is what a section parses to.

Next, in this order:

1. The composition of `Worker` with `Provenance`: what a record may rest on when its
   statements fail.
2. What `JobQueue` and `Worker` owe each other beyond the empty answer: the step of
   `Worker` that each commit of a claim is, as a refinement.
3. The safety halves of the remaining liveness properties, as `NobodyIsStuck` is for
   the sandbox: in which states a queued job can be claimed and a permit comes back.
