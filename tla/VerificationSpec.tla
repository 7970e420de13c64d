-------------------------- MODULE VerificationSpec --------------------------
(***************************************************************************)
(* What the service promises the people who submit jobs and read records,  *)
(* with the worker, its tasks and its database calls left out.             *)
(*                                                                         *)
(* A job goes absent -> queued -> running and then, at most once, to one   *)
(* of three terminal statuses. Its verdict may be published, once, while   *)
(* it runs; a published job can only end in the verdict it published, and  *)
(* an unpublished one can only end as failed. A contract's canonical       *)
(* record always belongs to the last job that published for it.            *)
(*                                                                         *)
(* Worker.tla implements this specification (Worker!Abs).                  *)
(***************************************************************************)
CONSTANTS
  Jobs,      \* verification_jobs.id
  Targets,   \* (contract_id, network) pairs
  TargetOf,  \* the pair each job is about
  NONE       \* no verdict, no record

VARIABLES
  status,    \* job -> its lifecycle status
  published, \* job -> the verdict it published, if it has
  canonical  \* target -> the job whose verdict is on record, if there is one

vars == <<status, published, canonical>>

Verdicts == {"verified", "mismatch"}
Terminal == Verdicts \cup {"failed"}
Statuses == {"absent", "queued", "running"} \cup Terminal

Init ==
  /\ status = [j \in Jobs |-> "absent"]
  /\ published = [j \in Jobs |-> "none"]
  /\ canonical = [t \in Targets |-> NONE]

Move(j, from, to) ==
  /\ status[j] = from
  /\ status' = [status EXCEPT ![j] = to]

Submit(j) ==
  /\ Move(j, "absent", "queued")
  /\ UNCHANGED <<published, canonical>>

Start(j) ==
  /\ Move(j, "queued", "running")
  /\ UNCHANGED <<published, canonical>>

Publish(j, verdict) ==
  /\ status[j] = "running"
  /\ published[j] = "none"
  /\ published' = [published EXCEPT ![j] = verdict]
  /\ canonical' = [canonical EXCEPT ![TargetOf[j]] = j]
  /\ UNCHANGED status

Complete(j) ==
  /\ published[j] # "none"
  /\ Move(j, "running", published[j])
  /\ UNCHANGED <<published, canonical>>

Fail(j) ==
  /\ published[j] = "none"
  /\ Move(j, "running", "failed")
  /\ UNCHANGED <<published, canonical>>

Next ==
  \E j \in Jobs :
    \/ Submit(j)
    \/ Start(j)
    \/ \E verdict \in Verdicts : Publish(j, verdict)
    \/ Complete(j)
    \/ Fail(j)

Spec == Init /\ [][Next]_vars
=============================================================================
