------------------------------ MODULE JobQueue ------------------------------
(***************************************************************************)
(* The queue inside Postgres: insert_job and the claim statement of        *)
(* claim_next_job (common/src/repo.rs), which Worker.tla takes as one step. *)
(*                                                                         *)
(*   UPDATE ... SET status = 'running', attempts = attempts + 1             *)
(*   WHERE id = (SELECT id ... WHERE status = 'queued'                      *)
(*               ORDER BY created_at LIMIT 1 FOR UPDATE SKIP LOCKED)        *)
(*                                                                         *)
(* The statement sees the rows committed when it starts (its snapshot),    *)
(* walks the queued ones from the oldest, passes over a row that another   *)
(* claim has locked or that is no longer queued, and updates the first row *)
(* it can lock when it commits. It may be rolled back instead, and the     *)
(* reply of a committed claim may be lost. An insert is stamped when it    *)
(* starts and seen when it commits, so a job can become visible after a    *)
(* younger one. A job that runs stays as it is: finish_job only takes rows  *)
(* further away from what a claim looks at.                                *)
(*                                                                         *)
(* A definition introduced by "Mistake:" is the next definition with one   *)
(* plausible error; no specification uses it.                              *)
(***************************************************************************)
EXTENDS Integers, FiniteSets

CONSTANTS
  Jobs,     \* verification_jobs.id
  Workers,  \* worker processes, each with at most one claim in flight
  NONE      \* no job

ASSUME QueueAssumption == IsFiniteSet(Jobs) /\ IsFiniteSet(Workers) /\ NONE \notin Jobs

VARIABLES
  status,   \* job -> "absent", "inserting", "queued" or "running"
  created,  \* job -> its created_at, 0 before it has one
  attempts, \* job -> verification_jobs.attempts
  snapshot, \* worker -> queued rows its claim has still to look at
  claim,    \* worker -> "idle", "scan" or "locked"
  locked,   \* worker -> the row its claim has locked, or NONE
  holders,  \* job -> workers a claim returned it to
  passed    \* history: job -> worker -> younger rows it locked since the job
            \* became available

vars == <<status, created, attempts, snapshot, claim, locked, holders, passed>>
rowVars == <<status, created, attempts>>

Statuses == {"absent", "inserting", "queued", "running"}

Init ==
  /\ status = [j \in Jobs |-> "absent"]
  /\ created = [j \in Jobs |-> 0]
  /\ attempts = [j \in Jobs |-> 0]
  /\ snapshot = [w \in Workers |-> {}]
  /\ claim = [w \in Workers |-> "idle"]
  /\ locked = [w \in Workers |-> NONE]
  /\ holders = [j \in Jobs |-> {}]
  /\ passed = [j \in Jobs |-> [w \in Workers |-> 0]]

\* now(): the inserts that have started, counted.
Now == 1 + Cardinality({j \in Jobs : created[j] # 0})

BeginInsert(j) ==
  /\ status[j] = "absent" /\ created[j] = 0
  /\ status' = [status EXCEPT ![j] = "inserting"]
  /\ created' = [created EXCEPT ![j] = Now]
  /\ UNCHANGED <<attempts, snapshot, claim, locked, holders, passed>>

\* The insert commits, or fails and leaves no row.
EndInsert(j) ==
  /\ status[j] = "inserting"
  /\ \E s \in {"queued", "absent"} : status' = [status EXCEPT ![j] = s]
  /\ UNCHANGED <<created, attempts, snapshot, claim, locked, holders, passed>>

-----------------------------------------------------------------------------
(* One claim statement. *)

StartClaim(w) ==
  /\ claim[w] = "idle"
  /\ claim' = [claim EXCEPT ![w] = "scan"]
  /\ snapshot' = [snapshot EXCEPT ![w] = {j \in Jobs : status[j] = "queued"}]
  /\ UNCHANGED <<rowVars, locked, holders, passed>>

\* Mistake: no ORDER BY, so any row may come first.
Unordered(j, S) == j \in S

\* ORDER BY created_at.
Oldest(j, S) == j \in S /\ \A k \in S : created[j] <= created[k]

\* Mistake: no FOR UPDATE SKIP LOCKED. Concurrent claims select the same row, and
\* the update that waited for it checks again only that the row has that id.
Selectable(j) == TRUE

\* SKIP LOCKED passes over a locked row; a row changed since the snapshot is
\* looked at again and left out when it is not queued any more.
Lockable(j) == status[j] = "queued" /\ \A v \in Workers : locked[v] # j

\* The row j is locked: the available rows older than it have been passed.
Examine(w) ==
  /\ claim[w] = "scan"
  /\ \E j \in snapshot[w] :
       /\ Oldest(j, snapshot[w])
       /\ IF Lockable(j)
          THEN /\ claim' = [claim EXCEPT ![w] = "locked"]
               /\ locked' = [locked EXCEPT ![w] = j]
               /\ snapshot' = [snapshot EXCEPT ![w] = {}]
               /\ passed' = [k \in Jobs |->
                    IF Lockable(k) /\ created[k] < created[j]
                    THEN [passed[k] EXCEPT ![w] = @ + 1] ELSE passed[k]]
          ELSE /\ snapshot' = [snapshot EXCEPT ![w] = @ \ {j}]
               /\ UNCHANGED <<claim, locked, passed>>
  /\ UNCHANGED <<rowVars, holders>>

FindNone(w) ==
  /\ claim[w] = "scan"
  /\ snapshot[w] = {}
  /\ claim' = [claim EXCEPT ![w] = "idle"]
  /\ UNCHANGED <<rowVars, snapshot, locked, holders, passed>>

\* Mistake: what a claim took stays taken when the claim ends.
KeepLock(w) == UNCHANGED locked

ReleaseLock(w) == locked' = [locked EXCEPT ![w] = NONE]

\* The claim commits; the reply arrives, or the job runs without a holder.
CommitClaim(w) ==
  /\ claim[w] = "locked"
  /\ status' = [status EXCEPT ![locked[w]] = "running"]
  /\ attempts' = [attempts EXCEPT ![locked[w]] = @ + 1]
  /\ \E delivered \in BOOLEAN :
       holders' = [holders EXCEPT ![locked[w]] = IF delivered THEN @ \cup {w} ELSE @]
  /\ claim' = [claim EXCEPT ![w] = "idle"]
  /\ ReleaseLock(w)
  /\ UNCHANGED <<created, snapshot, passed>>

\* The connection or the worker is lost before the commit: rolled back.
AbortClaim(w) ==
  /\ claim[w] # "idle"
  /\ claim' = [claim EXCEPT ![w] = "idle"]
  /\ snapshot' = [snapshot EXCEPT ![w] = {}]
  /\ ReleaseLock(w)
  /\ passed' = [j \in Jobs |-> 
                 IF j = locked[w] THEN [v \in Workers |-> 0] ELSE passed[j]]
  /\ UNCHANGED <<rowVars, holders>>

Next ==
  \/ \E j \in Jobs : BeginInsert(j) \/ EndInsert(j)
  \/ \E w \in Workers :
       \/ StartClaim(w)
       \/ Examine(w)
       \/ FindNone(w)
       \/ CommitClaim(w)
       \/ AbortClaim(w)

Spec == Init /\ [][Next]_vars

(* Workers poll for ever. A claim may be rolled back at any step, but not   *)
(* every claim of a worker at the same step for ever.                       *)
ClaimFairness ==
  \A w \in Workers :
    /\ WF_vars(StartClaim(w)) /\ WF_vars(FindNone(w))
    /\ SF_vars(Examine(w)) /\ SF_vars(CommitClaim(w))

FairSpec == Spec /\ ClaimFairness

-----------------------------------------------------------------------------
(* Properties *)

TypeOK ==
  /\ status \in [Jobs -> Statuses]
  /\ created \in [Jobs -> 0..Cardinality(Jobs)]
  /\ attempts \in [Jobs -> Nat]
  /\ snapshot \in [Workers -> SUBSET Jobs]
  /\ claim \in [Workers -> {"idle", "scan", "locked"}]
  /\ locked \in [Workers -> Jobs \cup {NONE}]
  /\ \A w \in Workers : claim[w] = "locked" <=> locked[w] # NONE
  /\ holders \in [Jobs -> SUBSET Workers]
  /\ passed \in [Jobs -> [Workers -> Nat]]

\* A job is claimed at most once, however claims overlap, and handed to at most
\* one worker, which is then the only one to run it.
ClaimedOnce ==
  \A j \in Jobs :
    /\ attempts[j] = IF status[j] = "running" THEN 1 ELSE 0
    /\ Cardinality(holders[j]) <= attempts[j]

\* First in, first out up to the claims in flight: once a job is visible and
\* unlocked, each worker gets at most one younger job ahead of it.
BoundedOvertaking == \A j \in Jobs, w \in Workers : passed[j][w] <= 1

\* A queued job is claimed.
QueuedIsClaimed ==
  \A j \in Jobs : status[j] = "queued" ~> status[j] = "running"
=============================================================================
