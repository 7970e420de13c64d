------------------------------- MODULE Worker -------------------------------
(***************************************************************************)
(* The verification workers: the claim loop of worker/src/main.rs and the  *)
(* pipeline task of worker/src/pipeline.rs, over the tables they share.    *)
(*                                                                         *)
(* A worker process takes a build permit, claims a queued job and spawns a *)
(* task for it; the task executes the build, publishes the verdict, has it *)
(* attested, finishes the job and gives the permit back. Every statement   *)
(* sent to Postgres is one action, so tasks interleave between statements. *)
(* A statement may also fail (DbFaults): either it had no effect, or it    *)
(* took effect and its reply was lost. A worker process may crash and be   *)
(* started again (Crashes); it keeps nothing.                              *)
(*                                                                         *)
(* The claim is one atomic step here; JobQueue.tla opens it up. What the   *)
(* build does between claim and verdict is one choice of outcome.          *)
(*                                                                         *)
(* A definition introduced by "Mistake:" is the next definition with one   *)
(* plausible error; no specification uses it. It shows that a property     *)
(* notices that error.                                                     *)
(***************************************************************************)
EXTENDS Integers, FiniteSets

CONSTANTS
  Jobs,        \* verification_jobs.id
  Workers,     \* worker processes
  Targets,     \* (contract_id, network) pairs
  TargetOf,    \* the pair each job is about
  Attestable,  \* targets whose network has an RPC url, with the registry and
               \* the attester key configured
  MaxBuilds,   \* MAX_CONCURRENT_BUILDS, per worker process
  DbFaults,    \* whether database statements may fail
  Crashes,     \* whether worker processes may crash
  NONE         \* no row

Verdicts == {"verified", "mismatch"}
Terminal == Verdicts \cup {"failed"}
Statuses == {"absent", "queued", "running"} \cup Terminal

\* A row of `verifications`: the job that wrote it, its verdict, and the
\* attestation transaction (named by the job that submitted it) or NONE.
Rows == [job : Jobs, verdict : Verdicts, tx : Jobs \cup {NONE}]

ASSUME JobsAssumption == IsFiniteSet(Jobs)
ASSUME TargetsAssumption == TargetOf \in [Jobs -> Targets] /\ Attestable \subseteq Targets
ASSUME MaxBuildsAssumption == MaxBuilds \in Nat
ASSUME FaultsAssumption == DbFaults \in BOOLEAN /\ Crashes \in BOOLEAN
ASSUME NoneAssumption == NONE \notin Jobs /\ NONE \notin Rows

VARIABLES
  status,    \* verification_jobs.status ("absent": no row)
  row,       \* target -> its row of `verifications`, or NONE
  registry,  \* jobs whose attest transaction the network accepted
  published, \* history: the verdict each job's upsert wrote, or "none"
  lost,      \* history: jobs a statement failed for, or whose process crashed
  loop,      \* worker -> where its main loop is
  free,      \* worker -> permits left in its semaphore
  pc,        \* worker -> job -> the next step of the task it runs for the job
  verdict    \* worker -> job -> the outcome the task carries

dbVars == <<status, row, registry, published, lost>>
taskVars == <<pc, verdict>>
vars == <<dbVars, loop, free, taskVars>>

LoopStates == {"acquire", "claim", "poll", "down"}
Steps == {"none", "execute", "publish", "attest", "record", "finish", "fail", "return"}

\* The jobs worker w has a task for.
Tasks(w) == {j \in Jobs : pc[w][j] # "none"}

Init ==
  /\ status = [j \in Jobs |-> "absent"]
  /\ row = [t \in Targets |-> NONE]
  /\ registry = {}
  /\ published = [j \in Jobs |-> "none"]
  /\ lost = {}
  /\ loop = [w \in Workers |-> "acquire"]
  /\ free = [w \in Workers |-> MaxBuilds]
  /\ pc = [w \in Workers |-> [j \in Jobs |-> "none"]]
  /\ verdict = [w \in Workers |-> [j \in Jobs |-> "none"]]

-----------------------------------------------------------------------------
(* The API: POST /v1/verify inserts the job as queued. *)

Submit(j) ==
  /\ status[j] = "absent"
  /\ status' = [status EXCEPT ![j] = "queued"]
  /\ UNCHANGED <<row, registry, published, lost, loop, free, taskVars>>

-----------------------------------------------------------------------------
(* The main loop of a worker process. *)

LoopGoto(w, from, to) ==
  /\ loop[w] = from
  /\ loop' = [loop EXCEPT ![w] = to]

TakePermit(w) == free[w] > 0 /\ free' = [free EXCEPT ![w] = @ - 1]

\* Mistake: the permit is dropped and also added back to the semaphore.
DropPermitTwice(w) == free' = [free EXCEPT ![w] = @ + 2]

\* Mistake: a path forgets to drop its permit.
KeepPermit(w) == UNCHANGED free

DropPermit(w) == free' = [free EXCEPT ![w] = @ + 1]

AcquirePermit(w) ==
  /\ LoopGoto(w, "acquire", "claim")
  /\ TakePermit(w)
  /\ UNCHANGED <<dbVars, taskVars>>

\* Mistake: the claim also takes jobs that are running (to retry stale ones).
MarkRunningStale(j) ==
  /\ status[j] \in {"queued", "running"}
  /\ status' = [status EXCEPT ![j] = "running"]

\* Mistake: the claim also takes failed jobs, for another attempt.
MarkRunningFailed(j) ==
  /\ status[j] \in {"queued", "failed"}
  /\ status' = [status EXCEPT ![j] = "running"]

\* claim_next_job's UPDATE: the job was queued and is running.
MarkRunning(j) ==
  /\ status[j] = "queued"
  /\ status' = [status EXCEPT ![j] = "running"]

\* The claim returns a job: a task is spawned for it and owns the permit.
Claim(w, j) ==
  /\ MarkRunning(j)
  /\ LoopGoto(w, "claim", "acquire")
  /\ pc' = [pc EXCEPT ![w][j] = "execute"]
  /\ UNCHANGED <<row, registry, published, lost, free, verdict>>

\* The queue is empty, or what is queued is locked by another claimant.
ClaimNone(w) ==
  /\ \/ \A j \in Jobs : status[j] # "queued"
     \/ \E v \in Workers \ {w} : loop[v] = "claim"
  /\ LoopGoto(w, "claim", "poll")
  /\ DropPermit(w)
  /\ UNCHANGED <<dbVars, taskVars>>

\* The claim fails; when only its reply was lost, a job is running by then.
ClaimFails(w) ==
  /\ DbFaults
  /\ \/ \E j \in Jobs : MarkRunning(j) /\ lost' = lost \cup {j}
     \/ UNCHANGED <<status, lost>>
  /\ LoopGoto(w, "claim", "poll")
  /\ DropPermit(w)
  /\ UNCHANGED <<row, registry, published, taskVars>>

Wake(w) ==
  /\ LoopGoto(w, "poll", "acquire")
  /\ UNCHANGED <<dbVars, free, taskVars>>

-----------------------------------------------------------------------------
(* pipeline::run, one task per claimed job. *)

Goto(w, j, from, to) ==
  /\ pc[w][j] = from
  /\ pc' = [pc EXCEPT ![w][j] = to]

\* execute returned an outcome in time.
Built(w, j, v) ==
  /\ Goto(w, j, "execute", "publish")
  /\ verdict' = [verdict EXCEPT ![w][j] = v]
  /\ UNCHANGED <<dbVars, loop, free>>

\* execute returned an error, or BUILD_TIMEOUT_SECS passed.
BuildFails(w, j) ==
  /\ Goto(w, j, "execute", "fail")
  /\ UNCHANGED <<dbVars, loop, free, verdict>>

\* upsert_verification replaces the whole row, its attestation included.
WriteRow(j, v) ==
  /\ row' = [row EXCEPT ![TargetOf[j]] = [job |-> j, verdict |-> v, tx |-> NONE]]
  /\ published' = [published EXCEPT ![j] = v]

\* Mistake: an error of the upsert fails the job.
FailAfterUpsertError == "fail"

\* Mistake: an error of the upsert is only logged.
IgnoreUpsertError == "attest"

\* `?` on the upsert leaves publish, and so run, at once.
AfterUpsertError == "return"

Upsert(w, j) ==
  /\ \/ Goto(w, j, "publish", "attest") /\ WriteRow(j, verdict[w][j]) /\ UNCHANGED lost
     \/ /\ DbFaults
        /\ Goto(w, j, "publish", AfterUpsertError)
        /\ WriteRow(j, verdict[w][j]) \/ UNCHANGED <<row, published>>
        /\ lost' = lost \cup {j}
  /\ UNCHANGED <<status, registry, loop, free, verdict>>

\* submit_onchain_attestation without configuration or RPC url.
AttestSkipped(w, j) ==
  /\ TargetOf[j] \notin Attestable
  /\ Goto(w, j, "attest", "finish")
  /\ UNCHANGED <<dbVars, loop, free, verdict>>

\* sendTransaction answered, and not with ERROR: PENDING and DUPLICATE say the
\* network has the transaction, TRY_AGAIN_LATER that it does not.
AttestSubmitted(w, j) ==
  /\ TargetOf[j] \in Attestable
  /\ Goto(w, j, "attest", "record")
  /\ registry' \in {registry, registry \cup {j}}
  /\ UNCHANGED <<status, row, published, lost, loop, free, verdict>>

\* sendTransaction answered ERROR, or the call failed; if only its answer was
\* lost, the network has the transaction.
AttestFailed(w, j) ==
  /\ TargetOf[j] \in Attestable
  /\ Goto(w, j, "attest", "finish")
  /\ registry' \in {registry, registry \cup {j}}
  /\ UNCHANGED <<status, row, published, lost, loop, free, verdict>>

\* Mistake: the row the upsert returned is written back as a whole.
WriteTxWholeRow(j) ==
  row' = [row EXCEPT ![TargetOf[j]] = [job |-> j, verdict |-> published[j], tx |-> j]]

\* update_attestation: the row of the target, whichever job wrote it.
WriteTx(j) ==
  row' = [row EXCEPT ![TargetOf[j]] = IF @ = NONE THEN NONE ELSE [@ EXCEPT !.tx = j]]

\* Its error is only logged.
UpdateAttestation(w, j) ==
  /\ Goto(w, j, "record", "finish")
  /\ WriteTx(j) \/ (DbFaults /\ UNCHANGED row)
  /\ UNCHANGED <<status, registry, published, lost, loop, free, verdict>>

\* Mistake: only verdicts are written.
FinishJobUnlessFailed(j, s) ==
  /\ status' = IF s \in Verdicts THEN [status EXCEPT ![j] = s] ELSE status
  /\ UNCHANGED lost

\* finish_job: by id, whatever the status was; its error is only logged, so an
\* update without effect leaves the job as it was.
FinishJob(j, s) ==
  \/ status' = [status EXCEPT ![j] = s] /\ UNCHANGED lost
  \/ DbFaults /\ UNCHANGED status /\ lost' = lost \cup {j}

Finish(w, j) ==
  /\ Goto(w, j, "finish", "return")
  /\ FinishJob(j, verdict[w][j])
  /\ UNCHANGED <<row, registry, published, loop, free, verdict>>

Fail(w, j) ==
  /\ Goto(w, j, "fail", "return")
  /\ FinishJob(j, "failed")
  /\ UNCHANGED <<row, registry, published, loop, free, verdict>>

\* run returned: the spawned task drops its permit.
Return(w, j) ==
  /\ Goto(w, j, "return", "none")
  /\ verdict' = [verdict EXCEPT ![w][j] = "none"]
  /\ DropPermit(w)
  /\ UNCHANGED <<dbVars, loop>>

-----------------------------------------------------------------------------
(* A crash takes the loop, the semaphore and every task of the process. *)

Crash(w) ==
  /\ Crashes
  /\ loop[w] # "down"
  /\ loop' = [loop EXCEPT ![w] = "down"]
  /\ pc' = [pc EXCEPT ![w] = [j \in Jobs |-> "none"]]
  /\ verdict' = [verdict EXCEPT ![w] = [j \in Jobs |-> "none"]]
  /\ lost' = lost \cup Tasks(w)
  /\ UNCHANGED <<status, row, registry, published, free>>

Restart(w) ==
  /\ LoopGoto(w, "down", "acquire")
  /\ free' = [free EXCEPT ![w] = MaxBuilds]
  /\ UNCHANGED <<dbVars, taskVars>>

-----------------------------------------------------------------------------
Loop(w) ==
  \/ AcquirePermit(w)
  \/ \E j \in Jobs : Claim(w, j)
  \/ ClaimNone(w)
  \/ ClaimFails(w)
  \/ Wake(w)

Attest(w, j) == AttestSkipped(w, j) \/ AttestSubmitted(w, j) \/ AttestFailed(w, j)

Task(w, j) ==
  \/ \E v \in Verdicts : Built(w, j, v)
  \/ BuildFails(w, j)
  \/ Upsert(w, j)
  \/ Attest(w, j)
  \/ UpdateAttestation(w, j)
  \/ Finish(w, j)
  \/ Fail(w, j)
  \/ Return(w, j)

Next ==
  \/ \E j \in Jobs : Submit(j)
  \/ \E w \in Workers :
       Loop(w) \/ (\E j \in Jobs : Task(w, j)) \/ Crash(w) \/ Restart(w)

Spec == Init /\ [][Next]_vars

(* Fairness. A loop that runs keeps running and a statement sent to the    *)
(* database is answered, one way or the other. The build ends because      *)
(* tokio's timeout ends it. A claimant that keeps finding queued jobs      *)
(* wins one of them (strong fairness): a row it skips is locked by another *)
(* claimant, which takes it. No client is obliged to submit, no process to *)
(* crash or to come back.                                                  *)

BuildEnds(w, j) == (\E v \in Verdicts : Built(w, j, v)) \/ BuildFails(w, j)

LoopFairness(w) ==
  /\ WF_vars(AcquirePermit(w) \/ Wake(w))
  /\ WF_vars(ClaimNone(w))
  /\ SF_vars(\E j \in Jobs : Claim(w, j))

TaskFairness(w, j) ==
  WF_vars(\/ BuildEnds(w, j) \/ Upsert(w, j) \/ AttestSkipped(w, j)
          \/ UpdateAttestation(w, j) \/ Finish(w, j) \/ Fail(w, j) \/ Return(w, j))

WorkerFairness ==
  \A w \in Workers : LoopFairness(w) /\ \A j \in Jobs : TaskFairness(w, j)

\* The attestation call has no timeout of its own: that the RPC server answers
\* is an assumption on it, kept apart.
RpcAnswers == \A w \in Workers, j \in Jobs : WF_vars(Attest(w, j))

FairSpec == Spec /\ WorkerFairness
LiveSpec == FairSpec /\ RpcAnswers

-----------------------------------------------------------------------------
(* Properties *)

TypeOK ==
  /\ status \in [Jobs -> Statuses]
  /\ row \in [Targets -> Rows \cup {NONE}]
  /\ registry \subseteq Jobs
  /\ published \in [Jobs -> Verdicts \cup {"none"}]
  /\ lost \subseteq Jobs
  /\ loop \in [Workers -> LoopStates]
  /\ free \in [Workers -> 0..MaxBuilds]
  /\ pc \in [Workers -> [Jobs -> Steps]]
  /\ verdict \in [Workers -> [Jobs -> Verdicts \cup {"none"}]]

\* A job has at most one task over all workers, and until the task has made its
\* last update the job is running: nobody finishes a job under its task.
TaskOwnsJob ==
  \A w \in Workers : \A j \in Tasks(w) :
    /\ \A v \in Workers \ {w} : j \notin Tasks(v)
    /\ pc[w][j] # "return" => status[j] = "running"

\* The public record and the job behind it agree: the job is of the record's
\* target, and it is still running or ended in the recorded verdict. In
\* particular no failed job is on record, whichever statement failed.
RecordAgreesWithJob ==
  \A t \in Targets : row[t] # NONE =>
    LET j == row[t].job IN
      /\ TargetOf[j] = t
      /\ published[j] = row[t].verdict
      /\ status[j] \in {"running", row[t].verdict}

\* A job reported verified or mismatch has published that verdict, a job
\* reported failed has published nothing, and neither has one still waiting.
StatusAgreesWithPublished ==
  \A j \in Jobs :
    /\ status[j] \in Verdicts => published[j] = status[j]
    /\ status[j] \in {"absent", "queued", "failed"} => published[j] = "none"

\* Only what was published is attested, and a recorded transaction was
\* submitted for a published verdict about the same target.
AttestedWasPublished ==
  /\ \A j \in registry : published[j] # "none"
  /\ \A t \in Targets : row[t] # NONE /\ row[t].tx # NONE =>
       published[row[t].tx] # "none" /\ TargetOf[row[t].tx] = t

\* No permit is lost or made up on any path through the loop and the task, so
\* a process never runs more than MAX_CONCURRENT_BUILDS tasks.
PermitsBalance ==
  \A w \in Workers : loop[w] # "down" =>
    free[w] + Cardinality(Tasks(w)) + (IF loop[w] = "claim" THEN 1 ELSE 0) = MaxBuilds

\* A claimed job never sits idle: a task works on it, unless a statement of its
\* own failed or the process of its task crashed.
NoOrphan ==
  \A j \in Jobs : status[j] = "running" =>
    j \in lost \/ \E w \in Workers : j \in Tasks(w)

\* A terminal status is never changed, and neither is a published verdict.
TerminalIsFinal ==
  [][\A j \in Jobs :
       /\ status[j] \in Terminal => status'[j] = status[j]
       /\ published[j] # "none" => published'[j] = published[j]]_vars

\* The record of a target never disappears, and changes hands only to a job
\* that publishes in that very step.
RecordPassesToPublisher ==
  [][\A t \in Targets : row[t] # NONE =>
       /\ row'[t] # NONE
       /\ row'[t].job # row[t].job => published[row'[t].job] = "none"]_vars

\* The workers implement what the service promises.
Abs == INSTANCE VerificationSpec
         WITH canonical <- [t \in Targets |-> IF row[t] = NONE THEN NONE ELSE row[t].job]

ImplementsVerificationSpec == Abs!Spec

\* Every submitted job is claimed, built within the timeout and finished, whatever
\* statements fail for other jobs.
SubmittedEnds ==
  \A j \in Jobs : status[j] = "queued" ~> status[j] \in Terminal \/ j \in lost

\* Whatever statements fail, a worker that waits for a permit gets one: every task
\* ends, and no error path keeps its permit.
PermitsComeBack == \A w \in Workers : loop[w] = "acquire" ~> loop[w] = "claim"

-----------------------------------------------------------------------------
(* What a comment of the code claims and the code does not do. *)

\* repo.rs, of update_attestation: "the canonical verification row is updated in
\* place so the audit trail reflects the tx hash and attester": the transaction
\* on a row is the one that attests what the row says.
AttestationNamesItsRow ==
  \A t \in Targets : row[t] # NONE => row[t].tx \in {NONE, row[t].job}
=============================================================================
