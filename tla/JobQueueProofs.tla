--------------------------- MODULE JobQueueProofs ---------------------------
(***************************************************************************)
(* Proofs about JobQueue.tla, and about AtomicClaim.tla, which watches it  *)
(* from Worker's side, for every finite set of jobs and workers.           *)
(*                                                                         *)
(* Two inductive invariants. ClaimInv is about who claims what: it gives   *)
(* ClaimedOnce, because a lock is exclusive and its row still queued       *)
(* (LocksProtectQueued). OrderInv builds on it and bounds overtaking: a    *)
(* worker that has locked a younger job before an available one sees the   *)
(* available one in its next snapshot, and reaches it first.               *)
(***************************************************************************)
EXTENDS AtomicClaim, FiniteSetTheorems, TLAPS

\* Before a job runs it was never handed out; afterwards once, to one worker or,
\* when the reply was lost, to none.
HandedOutOnce ==
  \A j \in Jobs :
    /\ status[j] # "running" => attempts[j] = 0 /\ holders[j] = {}
    /\ status[j] = "running" =>
         attempts[j] = 1 /\ (holders[j] = {} \/ \E w \in Workers : holders[j] = {w})

\* The lock of a claim is exclusive and protects a row that is still queued.
LocksProtectQueued ==
  \A w \in Workers : claim[w] = "locked" =>
    /\ status[locked[w]] = "queued"
    /\ \A v \in Workers \ {w} : locked[v] # locked[w]

ClaimInv == TypeOK /\ HandedOutOnce /\ LocksProtectQueued

\* A job nobody could have locked has not been passed.
NotPassedBefore ==
  \A j \in Jobs, w \in Workers :
    status[j] \in {"absent", "inserting"} => passed[j][w] = 0

\* A worker that has passed a job which is still to be had will look at it.
LooksAtPassed ==
  \A j \in Jobs, w \in Workers :
    passed[j][w] # 0 /\ Lockable(j) /\ claim[w] = "scan" => j \in snapshot[w]

OrderInv == NotPassedBefore /\ LooksAtPassed /\ BoundedOvertaking

IInv == ClaimInv /\ OrderInv

-----------------------------------------------------------------------------
(* Who claims what. *)

\* now() is a new time, and there are no more times than jobs.
LEMMA NowIsBounded ==
  ASSUME NEW j \in Jobs, created[j] = 0
  PROVE  Now \in 1..Cardinality(Jobs)
<1> DEFINE stamped == {k \in Jobs : created[k] # 0}
<1>1. IsFiniteSet(Jobs) /\ stamped \subseteq Jobs /\ j \notin stamped
  BY QueueAssumption
<1>2. /\ IsFiniteSet(stamped)
      /\ Cardinality(stamped) <= Cardinality(Jobs)
      /\ Cardinality(stamped) # Cardinality(Jobs)
  <2>1. stamped \in SUBSET Jobs /\ stamped # Jobs
    BY <1>1
  <2> HIDE DEF stamped
  <2> QED BY <1>1, <2>1, FS_Subset
<1>3. Cardinality(stamped) \in Nat /\ Cardinality(Jobs) \in Nat
  BY <1>1, <1>2, FS_CardinalityType
<1> QED BY <1>2, <1>3 DEF Now

LEMMA ClaimInit == Init => ClaimInv
<1> SUFFICES ASSUME Init PROVE ClaimInv
  OBVIOUS
<1>1. Cardinality(Jobs) \in Nat
  BY QueueAssumption, FS_CardinalityType
<1>2. TypeOK
  BY <1>1 DEF Init, TypeOK, Statuses
<1>3. HandedOutOnce /\ LocksProtectQueued
  BY DEF Init, HandedOutOnce, LocksProtectQueued
<1> QED BY <1>2, <1>3 DEF ClaimInv

LEMMA InsertKeepsClaim ==
  ASSUME ClaimInv, NEW j \in Jobs, BeginInsert(j) \/ EndInsert(j)
  PROVE  ClaimInv'
<1> USE QueueAssumption DEF ClaimInv
<1>1. CASE BeginInsert(j)
  <2>1. Now \in 0..Cardinality(Jobs)
    <3>1. Now \in 1..Cardinality(Jobs)
      BY <1>1, NowIsBounded DEF BeginInsert
    <3>2. Cardinality(Jobs) \in Nat
      BY FS_CardinalityType
    <3> QED BY <3>1, <3>2
  <2>2. TypeOK'
    BY <1>1, <2>1 DEF BeginInsert, TypeOK, Statuses
  <2>3. HandedOutOnce' /\ LocksProtectQueued'
    BY <1>1 DEF BeginInsert, TypeOK, HandedOutOnce, LocksProtectQueued
  <2> QED BY <2>2, <2>3
<1>2. CASE EndInsert(j)
  <2>1. TypeOK'
    BY <1>2 DEF EndInsert, TypeOK, Statuses
  <2>2. HandedOutOnce' /\ LocksProtectQueued'
    BY <1>2 DEF EndInsert, TypeOK, HandedOutOnce, LocksProtectQueued
  <2> QED BY <2>1, <2>2
<1> QED BY <1>1, <1>2

LEMMA StartClaimKeepsClaim ==
  ASSUME ClaimInv, NEW w \in Workers, StartClaim(w)
  PROVE  ClaimInv'
<1> USE QueueAssumption DEF ClaimInv, StartClaim, rowVars
<1>1. TypeOK'
  BY DEF TypeOK
<1>2. HandedOutOnce' /\ LocksProtectQueued'
  BY DEF TypeOK, HandedOutOnce, LocksProtectQueued
<1> QED BY <1>1, <1>2

LEMMA FindNoneKeepsClaim ==
  ASSUME ClaimInv, NEW w \in Workers, FindNone(w)
  PROVE  ClaimInv'
<1> USE QueueAssumption DEF ClaimInv, FindNone, rowVars
<1>1. TypeOK'
  BY DEF TypeOK
<1>2. HandedOutOnce' /\ LocksProtectQueued'
  BY DEF TypeOK, HandedOutOnce, LocksProtectQueued
<1> QED BY <1>1, <1>2

\* The two outcomes of Examine.
Locks(w, j) ==
  /\ Lockable(j)
  /\ claim' = [claim EXCEPT ![w] = "locked"]
  /\ locked' = [locked EXCEPT ![w] = j]
  /\ snapshot' = [snapshot EXCEPT ![w] = {}]
  /\ passed' = [k \in Jobs |->
       IF Lockable(k) /\ created[k] < created[j]
       THEN [passed[k] EXCEPT ![w] = @ + 1] ELSE passed[k]]

PassesOver(w, j) ==
  /\ ~Lockable(j)
  /\ snapshot' = [snapshot EXCEPT ![w] = @ \ {j}]
  /\ UNCHANGED <<claim, locked, passed>>

LEMMA ExamineKeepsClaim ==
  ASSUME ClaimInv, NEW w \in Workers, Examine(w)
  PROVE  ClaimInv'
<1> USE QueueAssumption DEF ClaimInv, rowVars
<1>1. PICK j \in snapshot[w] : Locks(w, j) \/ PassesOver(w, j)
  BY DEF Examine, Locks, PassesOver
<1>2. j \in Jobs /\ UNCHANGED <<status, created, attempts, holders>>
  BY DEF TypeOK, Examine
<1>3. CASE Locks(w, j)
  <2>1. passed' \in [Jobs -> [Workers -> Nat]]
    <3>1. \A k \in Jobs : passed[k] \in [Workers -> Nat]
      BY DEF TypeOK
    <3>2. \A k \in Jobs : [passed[k] EXCEPT ![w] = @ + 1] \in [Workers -> Nat]
      BY <3>1
    <3> QED BY <1>3, <3>1, <3>2 DEF Locks
  <2>2. TypeOK'
    BY <1>2, <1>3, <2>1 DEF TypeOK, Locks
  <2>3. HandedOutOnce'
    BY <1>2 DEF HandedOutOnce
  <2>4. LocksProtectQueued'
    BY <1>2, <1>3 DEF TypeOK, LocksProtectQueued, Locks, Lockable
  <2> QED BY <2>2, <2>3, <2>4
<1>4. CASE PassesOver(w, j)
  <2>1. TypeOK'
    BY <1>2, <1>4 DEF TypeOK, PassesOver
  <2>2. HandedOutOnce' /\ LocksProtectQueued'
    BY <1>2, <1>4 DEF HandedOutOnce, LocksProtectQueued, PassesOver
  <2> QED BY <2>1, <2>2
<1> QED BY <1>1, <1>3, <1>4

LEMMA CommitClaimKeepsClaim ==
  ASSUME ClaimInv, NEW w \in Workers, CommitClaim(w)
  PROVE  ClaimInv'
<1> USE QueueAssumption DEF ClaimInv, CommitClaim, ReleaseLock
<1>1. locked[w] \in Jobs /\ status[locked[w]] = "queued"
  BY DEF TypeOK, LocksProtectQueued
<1>2. TypeOK'
  BY <1>1 DEF TypeOK, Statuses
<1>3. HandedOutOnce'
  <2>1. holders'[locked[w]] \in {{}, {w}}
    BY <1>1 DEF TypeOK, HandedOutOnce
  <2>2. \A j \in Jobs \ {locked[w]} :
          status'[j] = status[j] /\ attempts'[j] = attempts[j] /\ holders'[j] = holders[j]
    BY <1>1 DEF TypeOK
  <2>3. status'[locked[w]] = "running" /\ attempts'[locked[w]] = 1
    BY <1>1 DEF TypeOK, HandedOutOnce
  <2> QED BY <2>1, <2>2, <2>3 DEF HandedOutOnce
<1>4. LocksProtectQueued'
  BY <1>1 DEF TypeOK, LocksProtectQueued
<1> QED BY <1>2, <1>3, <1>4

LEMMA AbortClaimKeepsClaim ==
  ASSUME ClaimInv, NEW w \in Workers, AbortClaim(w)
  PROVE  ClaimInv'
<1> USE QueueAssumption DEF ClaimInv, AbortClaim, ReleaseLock, rowVars
<1>1. TypeOK'
  BY DEF TypeOK
<1>2. HandedOutOnce' /\ LocksProtectQueued'
  BY DEF TypeOK, HandedOutOnce, LocksProtectQueued
<1> QED BY <1>1, <1>2

-----------------------------------------------------------------------------
(* Overtaking. *)

LEMMA InsertKeepsOrder ==
  ASSUME IInv, NEW j \in Jobs, BeginInsert(j) \/ EndInsert(j)
  PROVE  OrderInv'
<1> USE DEF IInv, ClaimInv, OrderInv
<1>1. UNCHANGED <<snapshot, claim, locked, passed>>
  BY DEF BeginInsert, EndInsert
<1>2. \A k \in Jobs \ {j} : status'[k] = status[k]
  BY DEF BeginInsert, EndInsert, TypeOK
<1>3. \A w \in Workers : passed[j][w] = 0
  BY DEF BeginInsert, EndInsert, NotPassedBefore
<1>4. NotPassedBefore' /\ BoundedOvertaking'
  BY <1>1, <1>2, <1>3 DEF NotPassedBefore, BoundedOvertaking
<1>5. LooksAtPassed'
  BY <1>1, <1>2, <1>3 DEF LooksAtPassed, Lockable
<1> QED BY <1>4, <1>5

LEMMA StartClaimKeepsOrder ==
  ASSUME IInv, NEW w \in Workers, StartClaim(w)
  PROVE  OrderInv'
<1> USE DEF IInv, ClaimInv, OrderInv, StartClaim, rowVars
<1>1. NotPassedBefore' /\ BoundedOvertaking'
  BY DEF NotPassedBefore, BoundedOvertaking
<1>2. LooksAtPassed'
  BY DEF TypeOK, LooksAtPassed, Lockable
<1> QED BY <1>1, <1>2

LEMMA FindNoneKeepsOrder ==
  ASSUME IInv, NEW w \in Workers, FindNone(w)
  PROVE  OrderInv'
<1> USE DEF IInv, ClaimInv, OrderInv, FindNone, rowVars
<1>1. NotPassedBefore' /\ BoundedOvertaking'
  BY DEF NotPassedBefore, BoundedOvertaking
<1>2. LooksAtPassed'
  BY DEF TypeOK, LooksAtPassed, Lockable
<1> QED BY <1>1, <1>2

\* Locking the oldest row of its snapshot, a worker passes no job for the second
\* time: that one would be in the snapshot, and older.
LEMMA ExamineKeepsOrder ==
  ASSUME IInv, NEW w \in Workers, Examine(w)
  PROVE  OrderInv'
<1> USE DEF IInv, ClaimInv, OrderInv
<1>1. PICK j \in snapshot[w] : Oldest(j, snapshot[w]) /\ (Locks(w, j) \/ PassesOver(w, j))
  BY DEF Examine, Locks, PassesOver
<1>2. j \in Jobs /\ claim[w] = "scan" /\ UNCHANGED <<status, created>>
  BY DEF TypeOK, Examine, rowVars
<1>3. CASE Locks(w, j)
  <2>1. ASSUME NEW k \in Jobs, Lockable(k), created[k] < created[j]
        PROVE  passed[k][w] = 0 /\ status[k] = "queued"
    <3>1. k \notin snapshot[w]
      <4>1. k \in snapshot[w] => created[j] <= created[k]
        BY <1>1 DEF Oldest
      <4>2. created[j] \in Int /\ created[k] \in Int
        BY <1>2 DEF TypeOK
      <4> QED BY <2>1, <4>1, <4>2
    <3> QED BY <1>2, <2>1, <3>1 DEF LooksAtPassed, Lockable
  <2>2. ASSUME NEW k \in Jobs
        PROVE  IF Lockable(k) /\ created[k] < created[j]
               THEN passed'[k] = [passed[k] EXCEPT ![w] = 1]
               ELSE passed'[k] = passed[k]
    BY <1>3, <2>1 DEF Locks
  <2>3. NotPassedBefore'
    BY <1>2, <2>2 DEF NotPassedBefore, Lockable
  <2>4. BoundedOvertaking'
    <3> SUFFICES ASSUME NEW k \in Jobs, NEW v \in Workers PROVE passed'[k][v] <= 1
      BY DEF BoundedOvertaking
    <3>1. passed[k] \in [Workers -> Nat] /\ passed[k][v] <= 1
      BY DEF TypeOK, BoundedOvertaking
    <3>2. passed'[k] = passed[k] \/ passed'[k] = [passed[k] EXCEPT ![w] = 1]
      BY <2>2
    <3>3. [passed[k] EXCEPT ![w] = 1][v] <= 1
      BY <3>1
    <3> QED BY <3>1, <3>2, <3>3
  <2>5. LooksAtPassed'
    <3> SUFFICES ASSUME NEW k \in Jobs, NEW v \in Workers,
                        passed'[k][v] # 0, Lockable(k)', claim'[v] = "scan"
                 PROVE  k \in snapshot'[v]
      BY DEF LooksAtPassed
    <3>1. v # w /\ claim[v] = "scan" /\ snapshot'[v] = snapshot[v]
      BY <1>3 DEF Locks, TypeOK
    <3>2. Lockable(k)
      <4>1. k # j /\ status[k] = "queued"
        BY <1>2, <1>3 DEF Locks, Lockable, TypeOK
      <4>2. \A u \in Workers : locked[u] # k
        <5> SUFFICES ASSUME NEW u \in Workers, locked[u] = k PROVE FALSE
          OBVIOUS
        <5>1. u # w
          BY <1>2, QueueAssumption DEF TypeOK
        <5> QED BY <1>3, <5>1 DEF Locks, Lockable, TypeOK
      <4> QED BY <4>1, <4>2 DEF Lockable
    <3>3. passed[k][v] # 0
      <4>1. passed[k] \in [Workers -> Nat]
        BY DEF TypeOK
      <4> QED BY <2>2, <3>1, <4>1
    <3> QED BY <3>1, <3>2, <3>3 DEF LooksAtPassed
  <2> QED BY <2>3, <2>4, <2>5
<1>4. CASE PassesOver(w, j)
  <2>1. NotPassedBefore' /\ BoundedOvertaking'
    BY <1>2, <1>4 DEF NotPassedBefore, BoundedOvertaking, PassesOver
  <2>2. \A k \in Jobs : Lockable(k)' = Lockable(k)
    BY <1>2, <1>4 DEF PassesOver, Lockable
  <2>3. LooksAtPassed'
    <3> SUFFICES ASSUME NEW k \in Jobs, NEW v \in Workers,
                        passed[k][v] # 0, Lockable(k), claim[v] = "scan"
                 PROVE  k \in snapshot'[v]
      BY <1>4, <2>2 DEF LooksAtPassed, PassesOver
    <3>1. k \in snapshot[v] /\ k # j
      BY <1>4 DEF LooksAtPassed, PassesOver
    <3> QED BY <1>4, <3>1 DEF PassesOver, TypeOK
  <2> QED BY <2>1, <2>3
<1> QED BY <1>1, <1>3, <1>4

LEMMA CommitClaimKeepsOrder ==
  ASSUME IInv, NEW w \in Workers, CommitClaim(w)
  PROVE  OrderInv'
<1> USE QueueAssumption DEF IInv, ClaimInv, OrderInv, CommitClaim, ReleaseLock
<1>1. locked[w] \in Jobs
  BY DEF TypeOK
<1>2. NotPassedBefore' /\ BoundedOvertaking'
  BY <1>1 DEF TypeOK, NotPassedBefore, BoundedOvertaking
<1>3. \A k \in Jobs : Lockable(k)' => Lockable(k)
  BY <1>1 DEF TypeOK, Lockable
<1>4. LooksAtPassed'
  BY <1>3 DEF TypeOK, LooksAtPassed
<1> QED BY <1>2, <1>4

\* A job given back to the queue starts again: nobody has passed it.
LEMMA AbortClaimKeepsOrder ==
  ASSUME IInv, NEW w \in Workers, AbortClaim(w)
  PROVE  OrderInv'
<1> USE QueueAssumption DEF IInv, ClaimInv, OrderInv, AbortClaim, ReleaseLock, rowVars
<1>1. \A k \in Jobs, v \in Workers :
        passed'[k][v] = IF k = locked[w] THEN 0 ELSE passed[k][v]
  OBVIOUS
<1>2. NotPassedBefore' /\ BoundedOvertaking'
  BY <1>1 DEF TypeOK, NotPassedBefore, BoundedOvertaking
<1>3. \A k \in Jobs : Lockable(k)' /\ k # locked[w] => Lockable(k)
  BY DEF TypeOK, Lockable
<1>4. LooksAtPassed'
  BY <1>1, <1>3 DEF TypeOK, LooksAtPassed
<1> QED BY <1>2, <1>4

-----------------------------------------------------------------------------
(* The invariants. *)

\* Both inductive invariants hold in every reachable state.
THEOREM Invariance == Spec => []IInv
<1>1. Init => IInv
  <2>1. Init => OrderInv
    BY DEF Init, OrderInv, NotPassedBefore, LooksAtPassed, BoundedOvertaking
  <2> QED BY <2>1, ClaimInit DEF IInv
<1>2. IInv /\ [Next]_vars => IInv'
  <2> SUFFICES ASSUME IInv, [Next]_vars PROVE IInv'
    OBVIOUS
  <2> USE DEF IInv
  <2>1. CASE UNCHANGED vars
    BY <2>1 DEF vars, ClaimInv, OrderInv, TypeOK, HandedOutOnce, LocksProtectQueued,
       NotPassedBefore, LooksAtPassed, BoundedOvertaking, Lockable
  <2>2. ASSUME NEW j \in Jobs, BeginInsert(j) \/ EndInsert(j) PROVE IInv'
    BY <2>2, InsertKeepsClaim, InsertKeepsOrder
  <2>3. ASSUME NEW w \in Workers,
               StartClaim(w) \/ Examine(w) \/ FindNone(w) \/ CommitClaim(w) \/ AbortClaim(w)
        PROVE  IInv'
    BY <2>3, StartClaimKeepsClaim, StartClaimKeepsOrder, ExamineKeepsClaim,
       ExamineKeepsOrder, FindNoneKeepsClaim, FindNoneKeepsOrder,
       CommitClaimKeepsClaim, CommitClaimKeepsOrder, AbortClaimKeepsClaim,
       AbortClaimKeepsOrder
  <2> QED BY <2>1, <2>2, <2>3 DEF Next
<1> QED BY <1>1, <1>2, PTL DEF Spec

\* Every variable has its type; in particular a claim is locked exactly when it
\* holds a row.
THEOREM TypeCorrect == Spec => []TypeOK
<1>1. IInv => TypeOK
  BY DEF IInv, ClaimInv
<1> QED BY <1>1, Invariance, PTL

\* However claims of any number of workers overlap, are rolled back or lose their
\* reply, a job is claimed once and handed to one worker at most.
THEOREM SingleClaim == Spec => []ClaimedOnce
<1>1. IInv => ClaimedOnce
  <2> SUFFICES ASSUME IInv, NEW j \in Jobs
               PROVE  /\ attempts[j] = IF status[j] = "running" THEN 1 ELSE 0
                      /\ Cardinality(holders[j]) <= attempts[j]
    BY DEF ClaimedOnce
  <2>1. CASE status[j] # "running"
    BY <2>1, FS_EmptySet DEF IInv, ClaimInv, HandedOutOnce
  <2>2. CASE status[j] = "running" /\ holders[j] = {}
    BY <2>2, FS_EmptySet DEF IInv, ClaimInv, HandedOutOnce
  <2>3. CASE status[j] = "running" /\ \E w \in Workers : holders[j] = {w}
    <3>1. Cardinality(holders[j]) = 1
      BY <2>3, FS_Singleton
    <3>2. attempts[j] = 1
      BY <2>3 DEF IInv, ClaimInv, HandedOutOnce
    <3> QED BY <2>3, <3>1, <3>2
  <2> QED BY <2>1, <2>2, <2>3 DEF IInv, ClaimInv, HandedOutOnce
<1> QED BY <1>1, Invariance, PTL

\* First in, first out up to the claims in flight: of any number of workers, each
\* gets at most one younger job ahead of a visible, unlocked one.
THEOREM FairOrder == Spec => []BoundedOvertaking
<1>1. IInv => BoundedOvertaking
  BY DEF IInv, OrderInv
<1> QED BY <1>1, Invariance, PTL

-----------------------------------------------------------------------------
(* AtomicClaim: the history variable only watches, so the invariants above *)
(* hold there too, and a claim without excuse has been alone since it      *)
(* started, with rows in its snapshot that are still queued and that it    *)
(* can lock. So Worker.tla may take the claim as one step.                 *)

\* A claim that had no excuse so far is alone, and what it has still to look at is
\* queued and not nothing.
AloneWithQueued ==
  \A w \in Workers : claim[w] = "scan" /\ w \notin excused =>
    /\ snapshot[w] # {}
    /\ \A j \in snapshot[w] : status[j] = "queued"
    /\ \A v \in Workers \ {w} : claim[v] = "idle"

\* Watching does not change what the queue does.
LEMMA Watches == NotingSpec => Spec
<1>1. NotingInit => Init
  BY DEF NotingInit
<1>2. [NotingNext]_<<vars, excused>> => [Next]_vars
  BY DEF NotingNext
<1> QED BY <1>1, <1>2, PTL DEF NotingSpec, Spec

\* Whoever is without excuse after a step is alone then, and if it was at work
\* before, was without excuse then, too.
LEMMA WithoutExcuse ==
  ASSUME NotingNext, NEW w \in Workers, claim'[w] = "scan", w \notin excused'
  PROVE  /\ w \notin excused
         /\ \E j \in Jobs : status'[j] = "queued"
         /\ \A v \in Workers \ {w} : claim'[v] = "idle"
<1> QED BY DEF NotingNext, Note, NothingToClaim

LEMMA ClaimKeepsAlone ==
  ASSUME TypeOK, AloneWithQueued, NotingNext,
         NEW w \in Workers, claim'[w] = "scan", w \notin excused',
         NEW u \in Workers,
         \/ StartClaim(u) \/ Examine(u) \/ FindNone(u) \/ CommitClaim(u) \/ AbortClaim(u)
  PROVE  /\ snapshot'[w] # {}
         /\ \A j \in snapshot'[w] : status'[j] = "queued"
<1>1. /\ w \notin excused /\ \E j \in Jobs : status'[j] = "queued"
      /\ \A v \in Workers \ {w} : claim'[v] = "idle"
  BY WithoutExcuse
<1>2. ASSUME StartClaim(u) PROVE u = w
  BY <1>1, <1>2 DEF StartClaim, TypeOK
<1>3. CASE StartClaim(u)
  BY <1>1, <1>2, <1>3 DEF StartClaim, TypeOK, rowVars
<1>4. CASE ~StartClaim(u)
  <2>1. claim[w] = "scan"
    BY <1>4 DEF TypeOK, Examine, FindNone, CommitClaim, AbortClaim
  <2>2. /\ snapshot[w] # {} /\ \A j \in snapshot[w] : status[j] = "queued"
        /\ \A v \in Workers \ {w} : claim[v] = "idle"
    BY <1>1, <2>1 DEF AloneWithQueued
  <2>3. u = w
    BY <1>4, <2>2 DEF Examine, FindNone, CommitClaim, AbortClaim
  <2>4. Examine(w)
    BY <1>4, <2>1, <2>2, <2>3 DEF TypeOK, FindNone, CommitClaim, AbortClaim
  <2>5. \A j \in snapshot[w] : Lockable(j)
    <3>1. \A v \in Workers : locked[v] = NONE
      BY <2>1, <2>2 DEF TypeOK
    <3> QED BY <2>2, <3>1, QueueAssumption DEF TypeOK, Lockable
  <2>6. claim'[w] = "locked"
    BY <2>4, <2>5 DEF Examine, TypeOK
  <2> QED BY <2>6
<1> QED BY <1>3, <1>4

\* A claim that finds no row had a moment at which nothing was queued or another
\* claim was under way: what Worker.tla says of its atomic claim.
THEOREM ClaimIsAtomic == NotingSpec => []EmptyIsExplained
<1>1. NotingInit => AloneWithQueued
  BY DEF NotingInit, Init, AloneWithQueued
<1>2. TypeOK /\ AloneWithQueued /\ [NotingNext]_<<vars, excused>> => AloneWithQueued'
  <2> SUFFICES ASSUME TypeOK, AloneWithQueued, [NotingNext]_<<vars, excused>>
               PROVE  AloneWithQueued'
    OBVIOUS
  <2>1. CASE UNCHANGED <<vars, excused>>
    BY <2>1 DEF vars, AloneWithQueued
  <2>2. CASE NotingNext
    <3> SUFFICES ASSUME NEW w \in Workers, claim'[w] = "scan", w \notin excused'
                 PROVE  /\ snapshot'[w] # {}
                        /\ \A j \in snapshot'[w] : status'[j] = "queued"
                        /\ \A v \in Workers \ {w} : claim'[v] = "idle"
      BY DEF AloneWithQueued
    <3>1. w \notin excused /\ \A v \in Workers \ {w} : claim'[v] = "idle"
      BY <2>2, WithoutExcuse
    <3>2. ASSUME NEW j \in Jobs, BeginInsert(j) \/ EndInsert(j)
          PROVE  /\ snapshot'[w] # {}
                 /\ \A k \in snapshot'[w] : status'[k] = "queued"
      <4>1. claim[w] = "scan" /\ snapshot'[w] = snapshot[w]
        BY <3>2 DEF BeginInsert, EndInsert
      <4>2. snapshot[w] # {} /\ \A k \in snapshot[w] : status[k] = "queued"
        BY <3>1, <4>1 DEF AloneWithQueued
      <4> QED BY <3>2, <4>1, <4>2 DEF TypeOK, BeginInsert, EndInsert
    <3>3. ASSUME NEW u \in Workers,
                 \/ StartClaim(u) \/ Examine(u) \/ FindNone(u) \/ CommitClaim(u)
                 \/ AbortClaim(u)
          PROVE  /\ snapshot'[w] # {}
                 /\ \A k \in snapshot'[w] : status'[k] = "queued"
      BY <2>2, <3>3, ClaimKeepsAlone
    <3> QED BY <2>2, <3>1, <3>2, <3>3 DEF NotingNext, Next
  <2> QED BY <2>1, <2>2
<1>3. IInv => TypeOK
  BY DEF IInv, ClaimInv
<1>4. AloneWithQueued => EmptyIsExplained
  BY DEF AloneWithQueued, EmptyIsExplained
<1> QED BY <1>1, <1>2, <1>3, <1>4, Watches, Invariance, PTL DEF NotingSpec
=============================================================================
