----------------------------- MODULE AtomicClaim -----------------------------
(***************************************************************************)
(* Where JobQueue.tla and Worker.tla meet: Worker takes a claim as one     *)
(* step, which returns a queued job, or nothing. A job it may return while *)
(* it is queued; JobQueue shows so. Nothing it may return only when no job *)
(* is queued or another claim is under way (ClaimNone). A claim statement  *)
(* has no one moment at which it looks at the queue, so this module notes  *)
(* for every claim whether there was such a moment.                        *)
(***************************************************************************)
EXTENDS JobQueue

VARIABLE excused  \* history: workers for whose claim there was such a moment

\* The guard of ClaimNone in Worker.tla.
NothingToClaim(w) ==
  \/ \A j \in Jobs : status[j] # "queued"
  \/ \E v \in Workers \ {w} : claim[v] # "idle"

Note ==
  excused' = {w \in Workers : claim'[w] = "scan" /\ (w \in excused \/ NothingToClaim(w)')}

NotingInit == Init /\ excused = {}

NotingNext == Next /\ Note

NotingSpec == NotingInit /\ [][NotingNext]_<<vars, excused>>

NotingFairSpec == NotingSpec /\ ClaimFairness

-----------------------------------------------------------------------------
(* Properties *)

\* A claim that ends with no row had a moment at which Worker's atomic claim could
\* have returned none: a worker does not go to sleep over a job that was queued and
\* wanted by nobody else all the time it looked.
EmptyIsExplained ==
  \A w \in Workers : claim[w] = "scan" /\ snapshot[w] = {} => w \in excused
=============================================================================
