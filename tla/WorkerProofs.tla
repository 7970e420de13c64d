---------------------------- MODULE WorkerProofs ----------------------------
(***************************************************************************)
(* Proofs about Worker.tla, for every set of jobs, workers and targets.    *)
(*                                                                         *)
(* IInv is the inductive invariant. Beside the invariants it proves it     *)
(* says what a task knows at each of its steps: before its upsert the job  *)
(* is unpublished, after it the job's published verdict is the task's own. *)
(* That is what lets the last update of the job agree with the record.     *)
(***************************************************************************)
EXTENDS Worker, FiniteSetTheorems, TLAPS

\* Types of everything but the permits, whose bound needs PermitsBalance.
DataTypeOK ==
  /\ status \in [Jobs -> Statuses]
  /\ row \in [Targets -> Rows \cup {NONE}]
  /\ registry \subseteq Jobs
  /\ published \in [Jobs -> Verdicts \cup {"none"}]
  /\ lost \subseteq Jobs
  /\ pc \in [Workers -> [Jobs -> Steps]]
  /\ verdict \in [Workers -> [Jobs -> Verdicts \cup {"none"}]]

\* What the steps of a task know.
TaskKnows ==
  \A w \in Workers, j \in Jobs :
    /\ pc[w][j] # "none" => status[j] \notin {"absent", "queued"}
    /\ pc[w][j] \notin {"none", "return"} => status[j] = "running"
    /\ pc[w][j] \in {"publish", "attest", "record", "finish"} => verdict[w][j] \in Verdicts
    /\ pc[w][j] \in {"execute", "publish", "fail"} => published[j] = "none"
    /\ pc[w][j] \in {"attest", "record", "finish"} => published[j] = verdict[w][j]

OneTask ==
  \A v, w \in Workers, j \in Jobs : pc[v][j] # "none" /\ pc[w][j] # "none" => v = w

DataInv ==
  /\ DataTypeOK
  /\ TaskKnows
  /\ OneTask
  /\ RecordAgreesWithJob
  /\ StatusAgreesWithPublished
  /\ AttestedWasPublished

PermitInv ==
  /\ loop \in [Workers -> LoopStates]
  /\ free \in [Workers -> Nat]
  /\ \A w \in Workers : free[w] <= MaxBuilds
  /\ PermitsBalance
  /\ \A w \in Workers : loop[w] = "down" => Tasks(w) = {}

IInv == DataInv /\ PermitInv

-----------------------------------------------------------------------------
(* The data, action by action. *)

LEMMA DataInit == Init => DataInv
  BY TargetsAssumption, NoneAssumption
  DEF Init, DataInv, DataTypeOK, TaskKnows, OneTask, RecordAgreesWithJob,
      StatusAgreesWithPublished, AttestedWasPublished, Statuses, Terminal,
      Verdicts, Steps

\* A task's move changes its own program counter and no other.
LEMMA GotoMoves ==
  ASSUME DataTypeOK, NEW w \in Workers, NEW j \in Jobs,
         NEW from \in Steps, NEW to \in Steps, Goto(w, j, from, to)
  PROVE  /\ pc' \in [Workers -> [Jobs -> Steps]]
         /\ pc[w][j] = from
         /\ \A v \in Workers, k \in Jobs :
              pc'[v][k] = IF v = w /\ k = j THEN to ELSE pc[v][k]
BY DEF DataTypeOK, Goto

LEMMA SubmitKeepsData ==
  ASSUME DataInv, NEW j \in Jobs, Submit(j)
  PROVE  DataInv'
<1> USE TargetsAssumption, NoneAssumption
<1> USE DEF DataInv, Submit, taskVars, Verdicts, Terminal
<1>1. DataTypeOK'
  BY DEF DataTypeOK, Statuses, Steps
<1>2. TaskKnows' /\ OneTask'
  BY DEF DataTypeOK, TaskKnows, OneTask
<1>3. RecordAgreesWithJob'
  BY DEF DataTypeOK, RecordAgreesWithJob, StatusAgreesWithPublished, Rows
<1>4. StatusAgreesWithPublished'
  BY DEF DataTypeOK, StatusAgreesWithPublished
<1>5. AttestedWasPublished'
  BY DEF AttestedWasPublished
<1> QED BY <1>1, <1>2, <1>3, <1>4, <1>5

LEMMA ClaimKeepsData ==
  ASSUME DataInv, NEW w \in Workers, NEW j \in Jobs, Claim(w, j)
  PROVE  DataInv'
<1> USE TargetsAssumption, NoneAssumption
<1> USE DEF DataInv, Claim, MarkRunning, Verdicts, Terminal
<1>1. DataTypeOK'
  BY DEF DataTypeOK, Statuses, Steps
<1>2. TaskKnows' /\ OneTask'
  BY DEF DataTypeOK, TaskKnows, OneTask, StatusAgreesWithPublished
<1>3. RecordAgreesWithJob'
  BY DEF DataTypeOK, RecordAgreesWithJob, Rows
<1>4. StatusAgreesWithPublished'
  BY DEF DataTypeOK, StatusAgreesWithPublished
<1>5. AttestedWasPublished'
  BY DEF AttestedWasPublished
<1> QED BY <1>1, <1>2, <1>3, <1>4, <1>5

LEMMA ClaimFailsKeepsData ==
  ASSUME DataInv, NEW w \in Workers, ClaimFails(w)
  PROVE  DataInv'
<1> USE TargetsAssumption, NoneAssumption
<1> USE DEF DataInv, ClaimFails, MarkRunning, taskVars, Verdicts, Terminal
<1>1. DataTypeOK'
  BY DEF DataTypeOK, Statuses, Steps
<1>2. TaskKnows' /\ OneTask'
  BY DEF DataTypeOK, TaskKnows, OneTask, StatusAgreesWithPublished
<1>3. RecordAgreesWithJob'
  BY DEF DataTypeOK, RecordAgreesWithJob, Rows
<1>4. StatusAgreesWithPublished'
  BY DEF DataTypeOK, StatusAgreesWithPublished
<1>5. AttestedWasPublished'
  BY DEF AttestedWasPublished
<1> QED BY <1>1, <1>2, <1>3, <1>4, <1>5

LEMMA BuiltKeepsData ==
  ASSUME DataInv, NEW w \in Workers, NEW j \in Jobs, NEW v \in Verdicts, Built(w, j, v)
  PROVE  DataInv'
<1> USE TargetsAssumption, NoneAssumption
<1> USE DEF DataInv, Built, Goto, dbVars, Verdicts, Terminal
<1>1. DataTypeOK'
  BY DEF DataTypeOK, Statuses, Steps
<1>2. TaskKnows' /\ OneTask'
  BY DEF DataTypeOK, TaskKnows, OneTask
<1>3. RecordAgreesWithJob'
  BY DEF DataTypeOK, RecordAgreesWithJob, Rows
<1>4. StatusAgreesWithPublished'
  BY DEF DataTypeOK, StatusAgreesWithPublished
<1>5. AttestedWasPublished'
  BY DEF AttestedWasPublished
<1> QED BY <1>1, <1>2, <1>3, <1>4, <1>5

\* A move that writes nothing else, between steps that know the same.
LEMMA MoveKeepsData ==
  ASSUME DataInv, NEW w \in Workers, NEW j \in Jobs,
         BuildFails(w, j) \/ AttestSkipped(w, j)
  PROVE  DataInv'
<1> USE DEF DataInv
<1>1. PICK from \in Steps, to \in Steps :
        /\ Goto(w, j, from, to)
        /\ <<from, to>> \in {<<"execute", "fail">>, <<"attest", "finish">>}
        /\ UNCHANGED <<dbVars, verdict>>
  BY DEF BuildFails, AttestSkipped, Steps
<1>2. /\ pc' \in [Workers -> [Jobs -> Steps]]
      /\ pc[w][j] = from
      /\ \A v \in Workers, k \in Jobs :
           pc'[v][k] = IF v = w /\ k = j THEN to ELSE pc[v][k]
  BY <1>1, GotoMoves
<1>3. DataTypeOK'
  BY <1>1, <1>2 DEF DataTypeOK, dbVars
<1>4. TaskKnows' /\ OneTask'
  BY <1>1, <1>2 DEF TaskKnows, OneTask, dbVars
<1>5. (RecordAgreesWithJob /\ StatusAgreesWithPublished /\ AttestedWasPublished)'
  BY <1>1 DEF RecordAgreesWithJob, StatusAgreesWithPublished, AttestedWasPublished, dbVars
<1> QED BY <1>3, <1>4, <1>5

\* The upsert: the job is running and unpublished, so it is on no record yet,
\* and its own record starts without a transaction.
LEMMA UpsertKeepsData ==
  ASSUME DataInv, NEW w \in Workers, NEW j \in Jobs, Upsert(w, j)
  PROVE  DataInv'
<1> USE TargetsAssumption, NoneAssumption DEF DataInv
<1> DEFINE v == verdict[w][j]
<1>1. PICK to \in {"attest", "return"} :
        /\ Goto(w, j, "publish", to)
        /\ WriteRow(j, v) \/ (to = "return" /\ UNCHANGED <<row, published>>)
  BY DEF Upsert, AfterUpsertError
<1>2. UNCHANGED <<status, registry, verdict>> /\ lost' \subseteq lost \cup {j}
  BY DEF Upsert
<1>3. /\ pc' \in [Workers -> [Jobs -> Steps]]
      /\ pc[w][j] = "publish"
      /\ \A u \in Workers, k \in Jobs :
           pc'[u][k] = IF u = w /\ k = j THEN to ELSE pc[u][k]
  <2>1. "publish" \in Steps /\ to \in Steps
    BY <1>1 DEF Steps
  <2> QED BY <1>1, <2>1, GotoMoves
<1>4. status[j] = "running" /\ published[j] = "none" /\ v \in Verdicts
  BY <1>3 DEF TaskKnows
<1>5. \A u \in Workers : pc[u][j] # "none" => u = w
  BY <1>3 DEF OneTask
<1>6. CASE WriteRow(j, v)
  <2> DEFINE new == [job |-> j, verdict |-> v, tx |-> NONE]
  <2>1. new \in Rows /\ new # NONE
    BY <1>4 DEF Rows
  <2>2. /\ row' \in [Targets -> Rows \cup {NONE}]
        /\ \A t \in Targets : row'[t] = IF t = TargetOf[j] THEN new ELSE row[t]
    BY <1>6, <2>1 DEF WriteRow, DataTypeOK
  <2>3. /\ published' \in [Jobs -> Verdicts \cup {"none"}]
        /\ \A k \in Jobs : published'[k] = IF k = j THEN v ELSE published[k]
    BY <1>4, <1>6 DEF WriteRow, DataTypeOK
  <2>4. DataTypeOK'
    BY <1>2, <1>3, <2>2, <2>3 DEF DataTypeOK
  <2>5. TaskKnows' /\ OneTask'
    <3>1. \A u \in Workers, k \in Jobs :
            IF k # j THEN pc'[u][k] = pc[u][k] /\ published'[k] = published[k]
            ELSE IF u # w THEN pc'[u][k] = "none"
            ELSE pc'[u][k] = to /\ published'[k] = v
      BY <1>3, <1>5, <2>3
    <3>2. \A u \in Workers, k \in Jobs : pc'[u][k] # "none" => pc[u][k] # "none"
      BY <1>3
    <3>3. OneTask'
      BY <3>2 DEF OneTask
    <3>4. TaskKnows'
      <4> SUFFICES ASSUME NEW u \in Workers, NEW k \in Jobs
                   PROVE  /\ pc'[u][k] # "none" => status'[k] \notin {"absent", "queued"}
                          /\ pc'[u][k] \notin {"none", "return"} => status'[k] = "running"
                          /\ pc'[u][k] \in {"publish", "attest", "record", "finish"}
                               => verdict'[u][k] \in Verdicts
                          /\ pc'[u][k] \in {"execute", "publish", "fail"}
                               => published'[k] = "none"
                          /\ pc'[u][k] \in {"attest", "record", "finish"}
                               => published'[k] = verdict'[u][k]
        BY DEF TaskKnows
      <4>1. CASE k # j
        BY <1>2, <3>1, <4>1 DEF TaskKnows
      <4>2. CASE k = j
        BY <1>1, <1>2, <1>4, <3>1, <4>2
      <4> QED BY <4>1, <4>2
    <3> QED BY <3>3, <3>4
  <2>6. RecordAgreesWithJob'
    <3> SUFFICES ASSUME NEW t \in Targets, row'[t] # NONE
                 PROVE  /\ TargetOf[row'[t].job] = t
                        /\ published'[row'[t].job] = row'[t].verdict
                        /\ status'[row'[t].job] \in {"running", row'[t].verdict}
      BY DEF RecordAgreesWithJob
    <3>1. CASE t = TargetOf[j]
      BY <1>2, <1>4, <2>2, <2>3, <3>1
    <3>2. CASE t # TargetOf[j]
      BY <1>2, <1>4, <2>2, <2>3, <3>2 DEF RecordAgreesWithJob, DataTypeOK, Rows
    <3> QED BY <3>1, <3>2
  <2>7. StatusAgreesWithPublished'
    BY <1>2, <1>4, <2>3 DEF StatusAgreesWithPublished, Verdicts
  <2>8. AttestedWasPublished'
    <3>1. \A k \in Jobs : published[k] # "none" => published'[k] # "none"
      BY <1>4, <2>3
    <3> QED BY <1>2, <2>1, <2>2, <3>1 DEF AttestedWasPublished, DataTypeOK, Rows
  <2> QED BY <2>4, <2>5, <2>6, <2>7, <2>8
<1>7. CASE to = "return" /\ UNCHANGED <<row, published>>
  <2>1. DataTypeOK'
    BY <1>2, <1>3, <1>7 DEF DataTypeOK
  <2>2. TaskKnows' /\ OneTask'
    <3>1. UNCHANGED <<status, published, verdict>>
      BY <1>2, <1>7
    <3>2. \A u \in Workers, k \in Jobs :
            pc'[u][k] = IF u = w /\ k = j THEN "return" ELSE pc[u][k]
      BY <1>3, <1>7
    <3>3. OneTask'
      BY <1>3, <3>2 DEF OneTask
    <3>4. TaskKnows'
      BY <1>4, <3>1, <3>2 DEF TaskKnows
    <3> QED BY <3>3, <3>4
  <2>3. (RecordAgreesWithJob /\ StatusAgreesWithPublished /\ AttestedWasPublished)'
    BY <1>2, <1>7
    DEF RecordAgreesWithJob, StatusAgreesWithPublished, AttestedWasPublished
  <2> QED BY <2>1, <2>2, <2>3
<1> QED BY <1>1, <1>6, <1>7

\* What the network accepts is an attestation of a job that is published.
LEMMA AttestKeepsData ==
  ASSUME DataInv, NEW w \in Workers, NEW j \in Jobs,
         AttestSubmitted(w, j) \/ AttestFailed(w, j)
  PROVE  DataInv'
<1> USE DEF DataInv
<1>1. PICK to \in {"record", "finish"} : Goto(w, j, "attest", to)
  BY DEF AttestSubmitted, AttestFailed
<1>2. /\ UNCHANGED <<status, row, published, lost, verdict>>
      /\ registry' \subseteq registry \cup {j}
  BY DEF AttestSubmitted, AttestFailed
<1>3. /\ pc' \in [Workers -> [Jobs -> Steps]]
      /\ pc[w][j] = "attest"
      /\ \A v \in Workers, k \in Jobs :
           pc'[v][k] = IF v = w /\ k = j THEN to ELSE pc[v][k]
  <2>1. "attest" \in Steps /\ to \in Steps
    BY <1>1 DEF Steps
  <2> QED BY <1>1, <2>1, GotoMoves
<1>4. published[j] # "none"
  BY <1>3 DEF TaskKnows, Verdicts
<1>5. DataTypeOK'
  BY <1>2, <1>3 DEF DataTypeOK
<1>6. TaskKnows' /\ OneTask'
  BY <1>2, <1>3 DEF TaskKnows, OneTask
<1>7. (RecordAgreesWithJob /\ StatusAgreesWithPublished)'
  BY <1>2 DEF RecordAgreesWithJob, StatusAgreesWithPublished
<1>8. AttestedWasPublished'
  BY <1>2, <1>4 DEF AttestedWasPublished
<1> QED BY <1>5, <1>6, <1>7, <1>8

\* The transaction goes to the row of the job's target, whoever wrote it: the
\* row keeps its job and verdict.
LEMMA UpdateAttestationKeepsData ==
  ASSUME DataInv, NEW w \in Workers, NEW j \in Jobs, UpdateAttestation(w, j)
  PROVE  DataInv'
<1> USE TargetsAssumption, NoneAssumption DEF DataInv
<1>1. /\ Goto(w, j, "record", "finish")
      /\ WriteTx(j) \/ UNCHANGED row
      /\ UNCHANGED <<status, registry, published, lost, verdict>>
  BY DEF UpdateAttestation
<1>2. /\ pc' \in [Workers -> [Jobs -> Steps]]
      /\ pc[w][j] = "record"
      /\ \A v \in Workers, k \in Jobs :
           pc'[v][k] = IF v = w /\ k = j THEN "finish" ELSE pc[v][k]
  BY <1>1, GotoMoves DEF Steps
<1>3. published[j] # "none"
  BY <1>2 DEF TaskKnows, Verdicts
<1>4. \A t \in Targets :
        \/ row'[t] = row[t]
        \/ /\ t = TargetOf[j] /\ row[t] # NONE
           /\ row'[t] = [row[t] EXCEPT !.tx = j]
  BY <1>1 DEF WriteTx, DataTypeOK
<1>5. \A t \in Targets : row[t] # NONE /\ row'[t] # row[t] =>
        /\ row'[t] \in Rows
        /\ row'[t].job = row[t].job
        /\ row'[t].verdict = row[t].verdict
        /\ row'[t].tx = j
  <2> SUFFICES ASSUME NEW t \in Targets, row[t] # NONE, row'[t] # row[t]
               PROVE  /\ row'[t] \in Rows
                      /\ row'[t].job = row[t].job
                      /\ row'[t].verdict = row[t].verdict
                      /\ row'[t].tx = j
    OBVIOUS
  <2>1. row[t] \in Rows
    BY DEF DataTypeOK
  <2>2. row'[t] = [row[t] EXCEPT !.tx = j]
    BY <1>4
  <2> QED BY <2>1, <2>2 DEF Rows
<1>6. row' \in [Targets -> Rows \cup {NONE}]
  <2>1. \A t \in Targets : row'[t] \in Rows \cup {NONE}
    BY <1>4, <1>5 DEF DataTypeOK
  <2>2. row' = [t \in Targets |-> row'[t]]
    BY <1>1 DEF WriteTx, DataTypeOK
  <2> QED BY <2>1, <2>2
<1>7. DataTypeOK'
  BY <1>1, <1>2, <1>6 DEF DataTypeOK
<1>8. TaskKnows' /\ OneTask'
  BY <1>1, <1>2 DEF TaskKnows, OneTask
<1>9. RecordAgreesWithJob'
  BY <1>1, <1>4, <1>5 DEF RecordAgreesWithJob
<1>10. StatusAgreesWithPublished'
  BY <1>1 DEF StatusAgreesWithPublished
<1>11. AttestedWasPublished'
  BY <1>1, <1>3, <1>4, <1>5 DEF AttestedWasPublished
<1> QED BY <1>7, <1>8, <1>9, <1>10, <1>11

LEMMA FinishKeepsData ==
  ASSUME DataInv, NEW w \in Workers, NEW j \in Jobs, Finish(w, j)
  PROVE  DataInv'
<1> USE TargetsAssumption, NoneAssumption
<1> USE DEF DataInv, Finish, FinishJob, Goto, Verdicts, Terminal
<1>1. DataTypeOK'
  BY DEF DataTypeOK, TaskKnows, Statuses, Steps
<1>2. TaskKnows' /\ OneTask'
  BY DEF DataTypeOK, TaskKnows, OneTask
<1>3. RecordAgreesWithJob'
  BY DEF DataTypeOK, TaskKnows, RecordAgreesWithJob, Rows
<1>4. StatusAgreesWithPublished'
  BY DEF DataTypeOK, TaskKnows, StatusAgreesWithPublished
<1>5. AttestedWasPublished'
  BY DEF AttestedWasPublished
<1> QED BY <1>1, <1>2, <1>3, <1>4, <1>5

LEMMA FailKeepsData ==
  ASSUME DataInv, NEW w \in Workers, NEW j \in Jobs, Fail(w, j)
  PROVE  DataInv'
<1> USE TargetsAssumption, NoneAssumption
<1> USE DEF DataInv, Fail, FinishJob, Goto, Verdicts, Terminal
<1>1. DataTypeOK'
  BY DEF DataTypeOK, Statuses, Steps
<1>2. TaskKnows' /\ OneTask'
  BY DEF DataTypeOK, TaskKnows, OneTask
<1>3. RecordAgreesWithJob'
  BY DEF DataTypeOK, TaskKnows, RecordAgreesWithJob, Rows
<1>4. StatusAgreesWithPublished'
  BY DEF DataTypeOK, TaskKnows, StatusAgreesWithPublished
<1>5. AttestedWasPublished'
  BY DEF AttestedWasPublished
<1> QED BY <1>1, <1>2, <1>3, <1>4, <1>5

LEMMA ReturnKeepsData ==
  ASSUME DataInv, NEW w \in Workers, NEW j \in Jobs, Return(w, j)
  PROVE  DataInv'
<1> USE TargetsAssumption, NoneAssumption
<1> USE DEF DataInv, Return, Goto, dbVars, Verdicts, Terminal
<1>1. DataTypeOK'
  BY DEF DataTypeOK, Statuses, Steps
<1>2. TaskKnows' /\ OneTask'
  BY DEF DataTypeOK, TaskKnows, OneTask
<1>3. RecordAgreesWithJob'
  BY DEF DataTypeOK, RecordAgreesWithJob, Rows
<1>4. StatusAgreesWithPublished'
  BY DEF DataTypeOK, StatusAgreesWithPublished
<1>5. AttestedWasPublished'
  BY DEF AttestedWasPublished
<1> QED BY <1>1, <1>2, <1>3, <1>4, <1>5

LEMMA CrashKeepsData ==
  ASSUME DataInv, NEW w \in Workers, Crash(w)
  PROVE  DataInv'
<1> USE TargetsAssumption, NoneAssumption
<1> USE DEF DataInv, Crash, dbVars, Verdicts, Terminal
<1>1. DataTypeOK'
  BY DEF DataTypeOK, Statuses, Steps, Tasks
<1>2. TaskKnows' /\ OneTask'
  BY DEF DataTypeOK, TaskKnows, OneTask
<1>3. RecordAgreesWithJob'
  BY DEF DataTypeOK, RecordAgreesWithJob, Rows
<1>4. StatusAgreesWithPublished'
  BY DEF DataTypeOK, StatusAgreesWithPublished
<1>5. AttestedWasPublished'
  BY DEF AttestedWasPublished
<1> QED BY <1>1, <1>2, <1>3, <1>4, <1>5

\* What only the loop, the semaphore or nothing at all changes.
LEMMA RestKeepsData ==
  ASSUME DataInv, UNCHANGED <<dbVars, taskVars>>
  PROVE  DataInv'
BY DEF DataInv, DataTypeOK, TaskKnows, OneTask, RecordAgreesWithJob,
       StatusAgreesWithPublished, AttestedWasPublished, dbVars, taskVars

LEMMA DataNext ==
  ASSUME DataInv, [Next]_vars
  PROVE  DataInv'
<1>1. ASSUME NEW j \in Jobs, Submit(j) PROVE DataInv'
  BY <1>1, SubmitKeepsData
<1>2. ASSUME NEW w \in Workers, Loop(w) PROVE DataInv'
  <2>1. ASSUME NEW j \in Jobs, Claim(w, j) PROVE DataInv'
    BY <2>1, ClaimKeepsData
  <2>2. CASE ClaimFails(w)
    BY <2>2, ClaimFailsKeepsData
  <2>3. CASE AcquirePermit(w) \/ ClaimNone(w) \/ Wake(w)
    BY <2>3, RestKeepsData DEF AcquirePermit, ClaimNone, Wake, dbVars, taskVars
  <2> QED BY <1>2, <2>1, <2>2, <2>3 DEF Loop
<1>3. ASSUME NEW w \in Workers, NEW j \in Jobs, Task(w, j) PROVE DataInv'
  <2>1. ASSUME NEW v \in Verdicts, Built(w, j, v) PROVE DataInv'
    BY <2>1, BuiltKeepsData
  <2>2. CASE BuildFails(w, j) \/ AttestSkipped(w, j)
    BY <2>2, MoveKeepsData
  <2>3. CASE Upsert(w, j)
    BY <2>3, UpsertKeepsData
  <2>4. CASE AttestSubmitted(w, j) \/ AttestFailed(w, j)
    BY <2>4, AttestKeepsData
  <2>5. CASE UpdateAttestation(w, j)
    BY <2>5, UpdateAttestationKeepsData
  <2>6. CASE Finish(w, j)
    BY <2>6, FinishKeepsData
  <2>7. CASE Fail(w, j)
    BY <2>7, FailKeepsData
  <2>8. CASE Return(w, j)
    BY <2>8, ReturnKeepsData
  <2> QED BY <1>3, <2>1, <2>2, <2>3, <2>4, <2>5, <2>6, <2>7, <2>8 DEF Task, Attest
<1>4. ASSUME NEW w \in Workers, Crash(w) PROVE DataInv'
  BY <1>4, CrashKeepsData
<1>5. ASSUME NEW w \in Workers, Restart(w) PROVE DataInv'
  BY <1>5, RestKeepsData DEF Restart
<1>6. CASE UNCHANGED vars
  BY <1>6, RestKeepsData DEF vars
<1> QED BY <1>1, <1>2, <1>3, <1>4, <1>5, <1>6 DEF Next

-----------------------------------------------------------------------------
(* The permits. *)

LEMMA TasksAreFinite ==
  \A w \in Workers : IsFiniteSet(Tasks(w)) /\ Cardinality(Tasks(w)) \in Nat
BY JobsAssumption, FS_Subset, FS_CardinalityType DEF Tasks

LEMMA PermitInit == Init => PermitInv
<1> SUFFICES ASSUME Init PROVE PermitInv
  OBVIOUS
<1>1. \A w \in Workers : Tasks(w) = {} /\ Cardinality(Tasks(w)) = 0
  BY FS_EmptySet DEF Init, Tasks
<1>2. \A w \in Workers : loop[w] = "acquire" /\ free[w] = MaxBuilds
  BY DEF Init
<1>3. loop \in [Workers -> LoopStates] /\ free \in [Workers -> Nat]
  BY MaxBuildsAssumption DEF Init, LoopStates
<1>4. PermitsBalance
  BY <1>1, <1>2, MaxBuildsAssumption DEF PermitsBalance
<1>5. \A w \in Workers : free[w] <= MaxBuilds
  BY <1>2, MaxBuildsAssumption
<1> QED BY <1>1, <1>3, <1>4, <1>5 DEF PermitInv

\* What a step of worker w may do to permits: the loop moves between states that
\* hold the same number, or exactly one permit changes hands with the semaphore
\* or with a task.
PermitStep(w) ==
  /\ \A v \in Workers \ {w} : Tasks(v)' = Tasks(v)
  /\ loop' \in [Workers -> LoopStates] /\ free' \in [Workers -> Nat]
  /\ \A v \in Workers \ {w} : loop'[v] = loop[v] /\ free'[v] = free[v]
  /\ loop'[w] # "down" =>
       free'[w] + Cardinality(Tasks(w)') + (IF loop'[w] = "claim" THEN 1 ELSE 0) = MaxBuilds
  /\ loop'[w] = "down" => Tasks(w)' = {} /\ free'[w] <= MaxBuilds

LEMMA PermitStepKeepsPermits ==
  ASSUME PermitInv, NEW w \in Workers, PermitStep(w)
  PROVE  PermitInv'
<1>1. \A v \in Workers : Cardinality(Tasks(v)') \in Nat
  BY TasksAreFinite, JobsAssumption, FS_Subset, FS_CardinalityType DEF Tasks
<1>2. PermitsBalance'
  BY DEF PermitInv, PermitStep, PermitsBalance
<1>3. \A v \in Workers : free'[v] <= MaxBuilds
  <2> SUFFICES ASSUME NEW v \in Workers PROVE free'[v] <= MaxBuilds
    OBVIOUS
  <2>1. CASE v # w
    BY <2>1 DEF PermitInv, PermitStep
  <2>2. CASE v = w
    BY <1>1, <2>2, MaxBuildsAssumption DEF PermitInv, PermitStep
  <2> QED BY <2>1, <2>2
<1> QED BY <1>2, <1>3 DEF PermitInv, PermitStep

\* Steps that leave the loop, the semaphore and the set of tasks alone.
LEMMA SameTasksKeepPermits ==
  ASSUME PermitInv, UNCHANGED <<loop, free>>, \A w \in Workers : Tasks(w)' = Tasks(w)
  PROVE  PermitInv'
<1>1. \A w \in Workers : Cardinality(Tasks(w)') = Cardinality(Tasks(w))
  OBVIOUS
<1> QED BY <1>1 DEF PermitInv, PermitsBalance

LEMMA LoopKeepsPermits ==
  ASSUME PermitInv, DataInv, NEW w \in Workers, Loop(w)
  PROVE  PermitInv'
<1> USE DEF PermitInv, DataInv
<1>1. Cardinality(Tasks(w)) \in Nat /\ IsFiniteSet(Tasks(w))
  BY TasksAreFinite
<1>2. ASSUME UNCHANGED pc PROVE \A v \in Workers : Tasks(v)' = Tasks(v)
  BY <1>2 DEF Tasks
<1>3. CASE AcquirePermit(w)
  <2>1. UNCHANGED pc
    BY <1>3 DEF AcquirePermit, taskVars
  <2>2. PermitStep(w)
    BY <1>1, <1>2, <1>3, <2>1, MaxBuildsAssumption
    DEF AcquirePermit, LoopGoto, TakePermit, PermitStep, PermitsBalance, LoopStates
  <2> QED BY <2>2, PermitStepKeepsPermits
<1>4. CASE ClaimNone(w) \/ ClaimFails(w)
  <2>1. UNCHANGED pc /\ LoopGoto(w, "claim", "poll") /\ DropPermit(w)
    BY <1>4 DEF ClaimNone, ClaimFails, taskVars
  <2>2. PermitStep(w)
    BY <1>1, <1>2, <2>1, MaxBuildsAssumption
    DEF LoopGoto, DropPermit, PermitStep, PermitsBalance, LoopStates
  <2> QED BY <2>2, PermitStepKeepsPermits
<1>5. CASE Wake(w)
  <2>1. UNCHANGED <<pc, free>> /\ LoopGoto(w, "poll", "acquire")
    BY <1>5 DEF Wake, taskVars
  <2>2. PermitStep(w)
    BY <1>1, <1>2, <2>1, MaxBuildsAssumption
    DEF LoopGoto, PermitStep, PermitsBalance, LoopStates
  <2> QED BY <2>2, PermitStepKeepsPermits
<1>6. ASSUME NEW j \in Jobs, Claim(w, j) PROVE PermitInv'
  <2>1. \A v \in Workers, k \in Jobs :
          pc'[v][k] = IF v = w /\ k = j THEN "execute" ELSE pc[v][k]
    BY <1>6 DEF Claim, DataTypeOK
  <2>2. \A v \in Workers \ {w} : Tasks(v)' = Tasks(v)
    BY <2>1 DEF Tasks
  <2>3. Tasks(w)' = Tasks(w) \cup {j} /\ j \notin Tasks(w)
    <3>1. pc[w][j] = "none"
      BY <1>6 DEF TaskKnows, Claim, MarkRunning
    <3> QED BY <2>1, <3>1 DEF Tasks
  <2>4. Cardinality(Tasks(w)') = Cardinality(Tasks(w)) + 1
    <3> HIDE DEF PermitInv, DataInv
    <3>1. \A x : x \notin Tasks(w) => Cardinality(Tasks(w) \cup {x}) = Cardinality(Tasks(w)) + 1
      BY <1>1, FS_AddElement
    <3> QED BY <2>3, <3>1
  <2>5. LoopGoto(w, "claim", "acquire") /\ UNCHANGED free
    BY <1>6 DEF Claim
  <2>6. PermitStep(w)
    BY <1>1, <2>2, <2>4, <2>5, MaxBuildsAssumption
    DEF LoopGoto, PermitStep, PermitsBalance, LoopStates
  <2> QED BY <2>6, PermitStepKeepsPermits
<1> QED BY <1>3, <1>4, <1>5, <1>6 DEF Loop

LEMMA ReturnKeepsPermits ==
  ASSUME PermitInv, DataInv, NEW w \in Workers, NEW j \in Jobs, Return(w, j)
  PROVE  PermitInv'
<1> USE DEF PermitInv, DataInv
<1>1. Cardinality(Tasks(w)) \in Nat /\ IsFiniteSet(Tasks(w))
  BY TasksAreFinite
<1>2. /\ pc[w][j] = "return"
      /\ \A v \in Workers, k \in Jobs :
           pc'[v][k] = IF v = w /\ k = j THEN "none" ELSE pc[v][k]
  BY GotoMoves DEF Return, Steps
<1>3. \A v \in Workers \ {w} : Tasks(v)' = Tasks(v)
  BY <1>2 DEF Tasks
<1>4. Tasks(w)' = Tasks(w) \ {j} /\ j \in Tasks(w)
  BY <1>2 DEF Tasks
<1>5. Cardinality(Tasks(w)') = Cardinality(Tasks(w)) - 1
  BY <1>1, <1>4, FS_RemoveElement
<1>6. loop[w] # "down"
  BY <1>4
<1>7. DropPermit(w) /\ UNCHANGED loop
  BY DEF Return
<1>8. PermitStep(w)
  BY <1>1, <1>3, <1>5, <1>6, <1>7, MaxBuildsAssumption
  DEF DropPermit, PermitStep, PermitsBalance, LoopStates
<1> QED BY <1>8, PermitStepKeepsPermits

\* Every other step of a task only moves it.
LEMMA TaskKeepsPermits ==
  ASSUME PermitInv, DataInv, NEW w \in Workers, NEW j \in Jobs, Task(w, j)
  PROVE  PermitInv'
<1>1. CASE Return(w, j)
  BY <1>1, ReturnKeepsPermits
<1>2. CASE ~Return(w, j)
  <2>1. /\ UNCHANGED <<loop, free>>
        /\ \E from, to \in Steps \ {"none"} : Goto(w, j, from, to)
    <3>1. ASSUME NEW v \in Verdicts, Built(w, j, v)
          PROVE  UNCHANGED <<loop, free>> /\ Goto(w, j, "execute", "publish")
      BY <3>1 DEF Built
    <3>2. CASE Upsert(w, j)
      BY <3>2 DEF Upsert, AfterUpsertError, Steps
    <3>3. CASE BuildFails(w, j) \/ Attest(w, j)
      BY <3>3 DEF BuildFails, Attest, AttestSkipped, AttestSubmitted, AttestFailed, Steps
    <3>4. CASE UpdateAttestation(w, j) \/ Finish(w, j) \/ Fail(w, j)
      BY <3>4 DEF UpdateAttestation, Finish, Fail, Steps
    <3> QED BY <1>2, <3>1, <3>2, <3>3, <3>4 DEF Task, Steps
  <2>2. PICK from, to \in Steps \ {"none"} : Goto(w, j, from, to)
    BY <2>1
  <2>3. /\ pc[w][j] = from
        /\ \A v \in Workers, k \in Jobs :
             pc'[v][k] = IF v = w /\ k = j THEN to ELSE pc[v][k]
    BY <2>2, GotoMoves DEF DataInv
  <2>4. \A v \in Workers : Tasks(v)' = Tasks(v)
    BY <2>2, <2>3 DEF Tasks
  <2> QED BY <2>1, <2>4, SameTasksKeepPermits
<1> QED BY <1>1, <1>2

LEMMA CrashKeepsPermits ==
  ASSUME PermitInv, DataInv, NEW w \in Workers, Crash(w)
  PROVE  PermitInv'
<1> USE DEF PermitInv, DataInv
<1>1. \A v \in Workers, k \in Jobs :
        pc'[v][k] = IF v = w THEN "none" ELSE pc[v][k]
  BY DEF Crash, DataTypeOK
<1>2. Tasks(w)' = {} /\ \A v \in Workers \ {w} : Tasks(v)' = Tasks(v)
  BY <1>1 DEF Tasks
<1>3. PermitStep(w)
  BY <1>2 DEF Crash, PermitStep, LoopStates
<1> QED BY <1>3, PermitStepKeepsPermits

LEMMA RestartKeepsPermits ==
  ASSUME PermitInv, DataInv, NEW w \in Workers, Restart(w)
  PROVE  PermitInv'
<1> USE DEF PermitInv, DataInv
<1>1. \A v \in Workers : Tasks(v)' = Tasks(v)
  BY DEF Restart, taskVars, Tasks
<1>2. Tasks(w)' = {} /\ Cardinality(Tasks(w)') = 0
  BY <1>1, FS_EmptySet DEF Restart, LoopGoto
<1>3. PermitStep(w)
  BY <1>1, <1>2, MaxBuildsAssumption DEF Restart, LoopGoto, PermitStep, LoopStates
<1> QED BY <1>3, PermitStepKeepsPermits

LEMMA PermitNext ==
  ASSUME IInv, [Next]_vars
  PROVE  PermitInv'
<1> USE DEF IInv
<1>1. ASSUME NEW w \in Workers, Loop(w) PROVE PermitInv'
  BY <1>1, LoopKeepsPermits
<1>2. ASSUME NEW w \in Workers, NEW j \in Jobs, Task(w, j) PROVE PermitInv'
  BY <1>2, TaskKeepsPermits
<1>3. ASSUME NEW w \in Workers, Crash(w) \/ Restart(w) PROVE PermitInv'
  BY <1>3, CrashKeepsPermits, RestartKeepsPermits
<1>4. CASE UNCHANGED vars \/ \E j \in Jobs : Submit(j)
  <2>1. UNCHANGED <<loop, free, pc>>
    BY <1>4 DEF vars, taskVars, Submit
  <2> QED BY <2>1, SameTasksKeepPermits DEF Tasks
<1> QED BY <1>1, <1>2, <1>3, <1>4 DEF Next

-----------------------------------------------------------------------------
(* The invariant and what follows from it. *)

THEOREM Invariance == Spec => []IInv
<1>1. Init => IInv
  BY DataInit, PermitInit DEF IInv
<1>2. IInv /\ [Next]_vars => IInv'
  BY DataNext, PermitNext DEF IInv
<1> QED BY <1>1, <1>2, PTL DEF Spec

\* Every variable keeps its type; in particular a semaphore never holds more
\* permits than MAX_CONCURRENT_BUILDS (main.rs, the permit of the claim loop).
THEOREM TypeCorrect == Spec => []TypeOK
<1>1. IInv => TypeOK
  <2> SUFFICES ASSUME IInv PROVE TypeOK
    OBVIOUS
  <2>1. free \in [Workers -> 0..MaxBuilds]
    BY MaxBuildsAssumption DEF IInv, PermitInv
  <2> QED BY <2>1 DEF IInv, DataInv, DataTypeOK, PermitInv, TypeOK
<1> QED BY <1>1, Invariance, PTL

\* No two workers hold the same job, and nobody finishes a job under its task:
\* claim_next_job hands out a queued job once, and finish_job, which has no guard
\* on the status, is reached only by the task that owns the job.
THEOREM TaskOwnership == Spec => []TaskOwnsJob
<1>1. IInv => TaskOwnsJob
  <2> SUFFICES ASSUME IInv, NEW w \in Workers, NEW j \in Tasks(w)
               PROVE  /\ \A v \in Workers \ {w} : j \notin Tasks(v)
                      /\ pc[w][j] # "return" => status[j] = "running"
    BY DEF TaskOwnsJob
  <2>1. j \in Jobs /\ pc[w][j] # "none"
    BY DEF Tasks
  <2>2. \A v \in Workers \ {w} : j \notin Tasks(v)
    BY <2>1 DEF IInv, DataInv, OneTask, Tasks
  <2>3. pc[w][j] # "return" => status[j] = "running"
    BY <2>1 DEF IInv, DataInv, TaskKnows
  <2> QED BY <2>2, <2>3
<1> QED BY <1>1, Invariance, PTL

\* The canonical record always agrees with the job behind it, whichever of the
\* statements of publish fail and wherever workers crash.
THEOREM RecordAgreement == Spec => []RecordAgreesWithJob
<1>1. IInv => RecordAgreesWithJob
  BY DEF IInv, DataInv
<1> QED BY <1>1, Invariance, PTL

\* A job's terminal status is the verdict it published, and a failed job has
\* published nothing.
THEOREM StatusAgreement == Spec => []StatusAgreesWithPublished
<1>1. IInv => StatusAgreesWithPublished
  BY DEF IInv, DataInv
<1> QED BY <1>1, Invariance, PTL

\* Whatever reaches the registry or is recorded as attested was published for
\* that target before.
THEOREM AttestationSafety == Spec => []AttestedWasPublished
<1>1. IInv => AttestedWasPublished
  BY DEF IInv, DataInv
<1> QED BY <1>1, Invariance, PTL

\* No path of the claim loop or of a task loses or duplicates a permit.
THEOREM PermitConservation == Spec => []PermitsBalance
<1>1. IInv => PermitsBalance
  BY DEF IInv, PermitInv
<1> QED BY <1>1, Invariance, PTL

-----------------------------------------------------------------------------
(* The workers implement VerificationSpec: every step is one of its steps on *)
(* the statuses, verdicts and records, or leaves them alone.                 *)

canonicalJob == [t \in Targets |-> IF row[t] = NONE THEN NONE ELSE row[t].job]

LEMMA InitImplements == Init => Abs!Init
BY DEF Init, Abs!Init

LEMMA UpsertImplements ==
  ASSUME DataInv, NEW w \in Workers, NEW j \in Jobs, Upsert(w, j)
  PROVE  [Abs!Next]_(Abs!vars)
<1> USE TargetsAssumption, NoneAssumption DEF DataInv
<1>1. /\ UNCHANGED status
      /\ WriteRow(j, verdict[w][j]) \/ UNCHANGED <<row, published>>
  BY DEF Upsert
<1>2. pc[w][j] = "publish"
  BY DEF Upsert, Goto
<1>3. status[j] = "running" /\ published[j] = "none" /\ verdict[w][j] \in Verdicts
  BY <1>2 DEF TaskKnows
<1>4. CASE WriteRow(j, verdict[w][j])
  <2> DEFINE new == [job |-> j, verdict |-> verdict[w][j], tx |-> NONE]
  <2>1. new \in Rows /\ new # NONE /\ new.job = j
    BY <1>3 DEF Rows
  <2>2. \A t \in Targets : row'[t] = IF t = TargetOf[j] THEN new ELSE row[t]
    BY <1>4, <2>1 DEF WriteRow, DataTypeOK
  <2>3. canonicalJob' = [canonicalJob EXCEPT ![TargetOf[j]] = j]
    BY <2>1, <2>2 DEF canonicalJob
  <2>4. PICK v \in Verdicts : v = verdict[w][j]
    BY <1>3
  <2>5. Abs!Publish(j, v)
    BY <1>1, <1>3, <1>4, <2>3, <2>4 DEF WriteRow, Abs!Publish, canonicalJob
  <2> QED BY <2>5 DEF Abs!Next, Abs!Verdicts, Verdicts
<1>5. CASE UNCHANGED <<row, published>>
  BY <1>1, <1>5 DEF Abs!vars
<1> QED BY <1>1, <1>4, <1>5

LEMMA UpdateAttestationImplements ==
  ASSUME DataInv, NEW w \in Workers, NEW j \in Jobs, UpdateAttestation(w, j)
  PROVE  UNCHANGED Abs!vars
<1> USE TargetsAssumption, NoneAssumption DEF DataInv, DataTypeOK
<1>1. UNCHANGED <<status, published>> /\ (WriteTx(j) \/ UNCHANGED row)
  BY DEF UpdateAttestation
<1>2. ASSUME NEW t \in Targets
      PROVE  (IF row'[t] = NONE THEN NONE ELSE row'[t].job)
               = IF row[t] = NONE THEN NONE ELSE row[t].job
  <2>1. CASE row'[t] = row[t]
    BY <2>1
  <2>2. CASE row[t] \in Rows /\ row'[t] = [row[t] EXCEPT !.tx = j]
    <3>1. row'[t] \in Rows /\ row'[t].job = row[t].job
      BY <2>2 DEF Rows
    <3> QED BY <2>2, <3>1
  <2>3. row'[t] = row[t] \/ (row[t] # NONE /\ row'[t] = [row[t] EXCEPT !.tx = j])
    BY <1>1 DEF WriteTx
  <2> QED BY <2>1, <2>2, <2>3
<1> QED BY <1>1, <1>2 DEF Abs!vars

LEMMA FinishImplements ==
  ASSUME DataInv, NEW w \in Workers, NEW j \in Jobs, Finish(w, j) \/ Fail(w, j)
  PROVE  [Abs!Next]_(Abs!vars)
<1> USE DEF DataInv
<1>1. UNCHANGED <<row, published>>
  BY DEF Finish, Fail
<1>2. CASE UNCHANGED status
  BY <1>1, <1>2 DEF Abs!vars
<1>3. CASE Finish(w, j) /\ ~UNCHANGED status
  <2>1. status[j] = "running" /\ published[j] = verdict[w][j] /\ published[j] # "none"
    BY <1>3 DEF Finish, Goto, TaskKnows, Verdicts
  <2>2. Abs!Complete(j)
    BY <1>1, <1>3, <2>1 DEF Finish, FinishJob, Abs!Complete, Abs!Move
  <2> QED BY <2>2 DEF Abs!Next
<1>4. CASE Fail(w, j) /\ ~UNCHANGED status
  <2>1. status[j] = "running" /\ published[j] = "none"
    BY <1>4 DEF Fail, Goto, TaskKnows
  <2>2. Abs!Fail(j)
    BY <1>1, <1>4, <2>1 DEF Fail, FinishJob, Abs!Fail, Abs!Move
  <2> QED BY <2>2 DEF Abs!Next
<1> QED BY <1>2, <1>3, <1>4

LEMMA StepImplements ==
  ASSUME DataInv, [Next]_vars
  PROVE  [Abs!Next]_(Abs!vars)
<1>1. CASE UNCHANGED <<status, row, published>>
  BY <1>1 DEF Abs!vars
<1>2. ASSUME NEW j \in Jobs, Submit(j) PROVE Abs!Next
  BY <1>2 DEF Submit, Abs!Next, Abs!Submit, Abs!Move
<1>3. ASSUME NEW j \in Jobs, MarkRunning(j), UNCHANGED <<row, published>> PROVE Abs!Next
  BY <1>3 DEF MarkRunning, Abs!Next, Abs!Start, Abs!Move
<1>4. ASSUME NEW w \in Workers, Loop(w) PROVE [Abs!Next]_(Abs!vars)
  BY <1>1, <1>3, <1>4
  DEF Loop, AcquirePermit, Claim, ClaimNone, ClaimFails, Wake, dbVars
<1>5. ASSUME NEW w \in Workers, NEW j \in Jobs, Task(w, j) PROVE [Abs!Next]_(Abs!vars)
  <2>1. CASE Upsert(w, j)
    BY <2>1, UpsertImplements
  <2>2. CASE UpdateAttestation(w, j)
    BY <2>2, UpdateAttestationImplements
  <2>3. CASE Finish(w, j) \/ Fail(w, j)
    BY <2>3, FinishImplements
  <2>4. CASE (\E v \in Verdicts : Built(w, j, v)) \/ BuildFails(w, j)
             \/ Attest(w, j) \/ Return(w, j)
    BY <1>1, <2>4
    DEF Built, BuildFails, Attest, AttestSkipped, AttestSubmitted, AttestFailed,
        Return, dbVars
  <2> QED BY <1>5, <2>1, <2>2, <2>3, <2>4 DEF Task
<1>6. ASSUME NEW w \in Workers, Crash(w) \/ Restart(w) PROVE UNCHANGED <<status, row, published>>
  BY <1>6 DEF Crash, Restart, dbVars
<1> QED BY <1>1, <1>2, <1>4, <1>5, <1>6 DEF Next, vars, dbVars

\* Every behaviour of the workers, failures and crashes included, is one the
\* abstract specification of the service allows.
THEOREM Implementation == Spec => ImplementsVerificationSpec
<1>1. Init => Abs!Init
  BY InitImplements
<1>2. IInv /\ [Next]_vars => [Abs!Next]_(Abs!vars)
  BY StepImplements DEF IInv
<1> QED BY <1>1, <1>2, Invariance, PTL DEF Spec, Abs!Spec, ImplementsVerificationSpec

\* What an abstract step may do to a status, a verdict and a record.
LEMMA AbstractStep ==
  ASSUME DataInv, [Abs!Next]_(Abs!vars)
  PROVE  /\ \A j \in Jobs : status[j] \in Terminal => status'[j] = status[j]
         /\ \A j \in Jobs : published[j] # "none" => published'[j] = published[j]
         /\ \A t \in Targets : canonicalJob'[t] # canonicalJob[t] =>
              canonicalJob'[t] \in Jobs /\ published[canonicalJob'[t]] = "none"
<1> USE TargetsAssumption DEF DataInv, DataTypeOK, Terminal, Verdicts
<1>1. CASE UNCHANGED Abs!vars
  BY <1>1 DEF Abs!vars, canonicalJob
<1>2. ASSUME NEW j \in Jobs, NEW v \in Verdicts, Abs!Publish(j, v)
      PROVE  /\ UNCHANGED status
             /\ published[j] = "none"
             /\ \A k \in Jobs \ {j} : published'[k] = published[k]
             /\ \A t \in Targets : canonicalJob'[t] \in {canonicalJob[t], j}
  BY <1>2 DEF Abs!Publish, canonicalJob
<1>3. ASSUME NEW j \in Jobs, Abs!Submit(j) \/ Abs!Start(j) \/ Abs!Complete(j) \/ Abs!Fail(j)
      PROVE  /\ UNCHANGED <<published, canonicalJob>>
             /\ status[j] \notin Terminal
             /\ \A k \in Jobs \ {j} : status'[k] = status[k]
  BY <1>3 DEF Abs!Submit, Abs!Start, Abs!Complete, Abs!Fail, Abs!Move, canonicalJob
<1>4. CASE \E j \in Jobs, v \in Verdicts : Abs!Publish(j, v)
  BY <1>2, <1>4
<1>5. CASE \E j \in Jobs : Abs!Submit(j) \/ Abs!Start(j) \/ Abs!Complete(j) \/ Abs!Fail(j)
  BY <1>3, <1>5
<1> QED BY <1>1, <1>4, <1>5 DEF Abs!Next, Abs!Verdicts

\* A job that reached a terminal status keeps it, and a published verdict stays:
\* finish_job and claim_next_job never reopen or reverse an outcome.
THEOREM TerminalStability == Spec => TerminalIsFinal
<1>1. IInv /\ [Next]_vars =>
        [\A j \in Jobs :
           /\ status[j] \in Terminal => status'[j] = status[j]
           /\ published[j] # "none" => published'[j] = published[j]]_vars
  BY StepImplements, AbstractStep DEF IInv
<1> QED BY <1>1, Invariance, PTL DEF Spec, TerminalIsFinal

\* The record of a target is never lost, and only an upsert of a job that had
\* not published before gives it to another job.
THEOREM RecordSuccession == Spec => RecordPassesToPublisher
<1>1. IInv /\ [Next]_vars =>
        [\A t \in Targets : row[t] # NONE =>
           /\ row'[t] # NONE
           /\ row'[t].job # row[t].job => published[row'[t].job] = "none"]_vars
  <2> SUFFICES ASSUME IInv, [Next]_vars, NEW t \in Targets, row[t] # NONE
               PROVE  /\ row'[t] # NONE
                      /\ row'[t].job # row[t].job => published[row'[t].job] = "none"
    OBVIOUS
  <2>1. canonicalJob'[t] # canonicalJob[t] =>
          canonicalJob'[t] \in Jobs /\ published[canonicalJob'[t]] = "none"
    BY StepImplements, AbstractStep DEF IInv
  <2>2. canonicalJob[t] = row[t].job /\ row[t].job \in Jobs
    BY DEF canonicalJob, IInv, DataInv, DataTypeOK, Rows
  <2>3. canonicalJob'[t] = IF row'[t] = NONE THEN NONE ELSE row'[t].job
    BY DEF canonicalJob
  <2> QED BY <2>1, <2>2, <2>3, NoneAssumption
<1> QED BY <1>1, Invariance, PTL DEF Spec, RecordPassesToPublisher

-----------------------------------------------------------------------------
(* Claimed jobs never sit idle. *)

\* A running job has a task that has not made its last update yet, or a statement
\* failed for it or its process crashed.
Served ==
  \A j \in Jobs : status[j] = "running" =>
    j \in lost \/ \E w \in Workers : pc[w][j] \notin {"none", "return"}

LEMMA ServedTask ==
  ASSUME DataInv, Served, NEW w \in Workers, NEW j \in Jobs, Task(w, j)
  PROVE  Served'
<1> SUFFICES ASSUME NEW k \in Jobs, status'[k] = "running", k \notin lost'
             PROVE  \E v \in Workers : pc'[v][k] \notin {"none", "return"}
  BY DEF Served
<1> USE DEF DataInv
<1>1. lost \subseteq lost'
  BY DEF Task, Built, BuildFails, Upsert, Attest, AttestSkipped, AttestSubmitted,
         AttestFailed, UpdateAttestation, Finish, Fail, FinishJob, Return, dbVars
<1>2. CASE Finish(w, j) \/ Fail(w, j)
  <2>1. CASE UNCHANGED status
    <3>1. k # j
      BY <1>2, <2>1 DEF Finish, Fail, FinishJob, DataTypeOK, TaskKnows, Goto, Verdicts
    <3>2. \A v \in Workers : pc'[v][k] = pc[v][k]
      BY <1>2, <3>1 DEF Finish, Fail, Goto, DataTypeOK
    <3> QED BY <1>1, <2>1, <3>2 DEF Served
  <2>2. CASE ~UNCHANGED status
    <3>1. status' = [status EXCEPT ![j] = verdict[w][j]]
            \/ status' = [status EXCEPT ![j] = "failed"]
      BY <1>2, <2>2 DEF Finish, Fail, FinishJob
    <3>2. Finish(w, j) => verdict[w][j] \in Verdicts
      BY DEF Finish, Goto, TaskKnows
    <3>3. k # j /\ status[k] = "running"
      BY <1>2, <2>2, <3>2 DEF Finish, Fail, FinishJob, DataTypeOK, Verdicts
    <3>4. \A v \in Workers : pc'[v][k] = pc[v][k]
      BY <1>2, <3>3 DEF Finish, Fail, Goto, DataTypeOK
    <3> QED BY <1>1, <3>3, <3>4 DEF Served
  <2> QED BY <2>1, <2>2
<1>3. CASE Return(w, j)
  <2>1. \A v \in Workers : pc[v][k] # "return" => pc'[v][k] = pc[v][k]
    BY <1>3 DEF Return, Goto, DataTypeOK
  <2> QED BY <1>1, <1>3, <2>1 DEF Served, Return, dbVars
<1>4. CASE Upsert(w, j) /\ j \in lost'
  <2>1. k # j
    BY <1>4
  <2>2. PICK to \in {"attest", "return"} : Goto(w, j, "publish", to)
    BY <1>4 DEF Upsert, AfterUpsertError
  <2>3. \A v \in Workers : pc'[v][k] = pc[v][k]
    BY <2>1, <2>2 DEF Goto, DataTypeOK
  <2> QED BY <1>1, <1>4, <2>3 DEF Served, Upsert
<1>5. CASE /\ ~(Finish(w, j) \/ Fail(w, j) \/ Return(w, j))
           /\ ~(Upsert(w, j) /\ j \in lost')
  <2>1. /\ UNCHANGED status
        /\ \E from \in Steps, to \in Steps \ {"none", "return"} : Goto(w, j, from, to)
    BY <1>5
    DEF Task, Built, BuildFails, Upsert, Attest, AttestSkipped, AttestSubmitted,
        AttestFailed, UpdateAttestation, dbVars, Steps
  <2>2. PICK to \in Steps \ {"none", "return"} : \A v \in Workers, i \in Jobs :
          pc'[v][i] = IF v = w /\ i = j THEN to ELSE pc[v][i]
    BY <2>1, GotoMoves
  <2> QED BY <1>1, <2>1, <2>2 DEF Served
<1> QED BY <1>2, <1>3, <1>4, <1>5

LEMMA ServedNext ==
  ASSUME DataInv, Served, [Next]_vars
  PROVE  Served'
<1> USE DEF DataInv
<1>1. ASSUME UNCHANGED <<status, lost, pc>> PROVE Served'
  BY <1>1 DEF Served
<1>2. ASSUME NEW j \in Jobs, Submit(j) PROVE Served'
  BY <1>2 DEF Served, Submit, taskVars, DataTypeOK
<1>3. ASSUME NEW w \in Workers, Loop(w) PROVE Served'
  <2>1. ASSUME NEW j \in Jobs, Claim(w, j) PROVE Served'
    <3>1. \A k \in Jobs : status'[k] = IF k = j THEN "running" ELSE status[k]
      BY <2>1 DEF Claim, MarkRunning, DataTypeOK
    <3>2. \A v \in Workers, k \in Jobs :
            pc'[v][k] = IF v = w /\ k = j THEN "execute" ELSE pc[v][k]
      BY <2>1 DEF Claim, DataTypeOK
    <3>3. UNCHANGED lost
      BY <2>1 DEF Claim
    <3> QED BY <3>1, <3>2, <3>3 DEF Served
  <2>2. CASE ClaimFails(w)
    <3>1. \A k \in Jobs : k \in lost' \/ (status'[k] = status[k] /\ k \notin lost)
      BY <2>2 DEF ClaimFails, MarkRunning, DataTypeOK
    <3>2. UNCHANGED pc
      BY <2>2 DEF ClaimFails, taskVars
    <3> QED BY <3>1, <3>2 DEF Served
  <2>3. CASE AcquirePermit(w) \/ ClaimNone(w) \/ Wake(w)
    BY <1>1, <2>3 DEF AcquirePermit, ClaimNone, Wake, dbVars, taskVars
  <2> QED BY <1>3, <2>1, <2>2, <2>3 DEF Loop
<1>4. ASSUME NEW w \in Workers, NEW j \in Jobs, Task(w, j) PROVE Served'
  BY <1>4, ServedTask
<1>5. ASSUME NEW w \in Workers, Crash(w) PROVE Served'
  <2>1. \A v \in Workers, k \in Jobs : pc'[v][k] = IF v = w THEN "none" ELSE pc[v][k]
    BY <1>5 DEF Crash, DataTypeOK
  <2>2. \A k \in Jobs : pc[w][k] # "none" => k \in lost'
    BY <1>5 DEF Crash, Tasks
  <2>3. UNCHANGED status /\ lost \subseteq lost'
    BY <1>5 DEF Crash
  <2> QED BY <2>1, <2>2, <2>3 DEF Served
<1>6. ASSUME NEW w \in Workers, Restart(w) PROVE Served'
  BY <1>1, <1>6 DEF Restart, dbVars, taskVars
<1>7. CASE UNCHANGED vars
  BY <1>1, <1>7 DEF vars, dbVars, taskVars
<1> QED BY <1>2, <1>3, <1>4, <1>5, <1>6, <1>7 DEF Next

\* A running job always has a worker's task, unless a statement of its own failed
\* or its process crashed: taking the permit before the claim (main.rs) leaves no
\* claimed job waiting, and run leaves no job running on any other path.
THEOREM NoIdleClaim == Spec => []NoOrphan
<1>1. Init => Served
  BY DEF Init, Served
<1>2. IInv /\ Served /\ [Next]_vars => Served'
  BY ServedNext DEF IInv
<1>3. Served => NoOrphan
  BY DEF Served, NoOrphan, Tasks
<1> QED BY <1>1, <1>2, <1>3, Invariance, PTL DEF Spec

\* Jobs are lost to faults only.
LostToFaults == lost # {} => DbFaults \/ Crashes

\* While the database answers and no process dies, no job is lost: then every
\* running job has a task, without exception.
THEOREM FaultFreeLosesNothing ==
  Spec => [](~DbFaults /\ ~Crashes =>
               \A j \in Jobs : status[j] = "running" => \E w \in Workers : j \in Tasks(w))
<1>1. Init => LostToFaults
  BY DEF Init, LostToFaults
<1>2. LostToFaults /\ [Next]_vars => LostToFaults'
  BY DEF LostToFaults, Next, vars, dbVars, Submit, Loop, AcquirePermit, Claim, ClaimNone,
         ClaimFails, Wake, Task, Built, BuildFails, Upsert, Attest, AttestSkipped,
         AttestSubmitted, AttestFailed, UpdateAttestation, Finish, Fail, FinishJob,
         Return, Crash, Restart
<1>3. LostToFaults /\ NoOrphan =>
        (~DbFaults /\ ~Crashes =>
           \A j \in Jobs : status[j] = "running" => \E w \in Workers : j \in Tasks(w))
  BY DEF LostToFaults, NoOrphan
<1> QED BY <1>1, <1>2, <1>3, NoIdleClaim, PTL DEF Spec
=============================================================================
