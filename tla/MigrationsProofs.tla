-------------------------- MODULE MigrationsProofs ---------------------------
(***************************************************************************)
(* Proofs about Migrations.tla, for any processes and any list of files,   *)
(* with crashes in every state: what start-up promises whatever the files  *)
(* are, and on what MigrateSucceeds depends.                               *)
(*                                                                         *)
(* The inductive invariant says that one process migrates at a time, and   *)
(* that it knows the table of applied files: what it read, and what it has *)
(* gone through since.                                                     *)
(***************************************************************************)
EXTENDS Migrations, FiniteSets, TLAPS

\* The files are a list.
FilesListed == Files \in Seq({Files[i] : i \in DOMAIN Files})

\* The files that come before index i.
Before(i) == {Files[k] : k \in {m \in DOMAIN Files : m < i}}

\* The advisory lock is with the one process that migrates.
LockExclusive == \A p \in Procs : pc[p] = "migrating" => lock = {p}

\* What is applied are files, of every version one at most.
AppliedAreFiles ==
  /\ applied \subseteq {Files[i] : i \in DOMAIN Files}
  /\ \A f, g \in applied : f.version = g.version => f = g

\* The process that migrates has what it went through applied, and nothing else is
\* applied but what it had read.
MigratorKnows ==
  \A p \in Procs : pc[p] = "migrating" =>
    /\ next[p] \in 1..(Len(Files) + 1)
    /\ Before(next[p]) \subseteq applied
    /\ seen[p] \subseteq applied /\ applied \subseteq seen[p] \cup Before(next[p])

\* A process that serves has seen every file applied.
ServesComplete ==
  \A p \in Procs : pc[p] = "serving" => \A i \in DOMAIN Files : Files[i] \in applied

TypeOK ==
  /\ pc \in [Procs -> {"down", "migrating", "refused", "serving"}]
  /\ next \in [Procs -> Nat] /\ DOMAIN seen = Procs /\ lock \subseteq Procs

IInv == TypeOK /\ LockExclusive /\ AppliedAreFiles /\ MigratorKnows /\ ServesComplete

-----------------------------------------------------------------------------
LEMMA FilesIndices ==
  ASSUME FilesListed
  PROVE  Len(Files) \in Nat /\ DOMAIN Files = 1..Len(Files)
  BY DEF FilesListed

\* The file at hand is the next to have been gone through.
LEMMA BeforeNext ==
  ASSUME FilesListed, NEW i \in DOMAIN Files
  PROVE  Before(i + 1) = Before(i) \cup {Files[i]}
<1>1. i \in Nat /\ \A m \in DOMAIN Files : m \in Nat /\ (m < i + 1 <=> m < i \/ m = i)
  BY FilesIndices
<1>q. QED BY <1>1 DEF Before

LEMMA BeforeAll ==
  ASSUME FilesListed
  PROVE  /\ Before(1) = {}
         /\ \A i \in DOMAIN Files : Files[i] \in Before(Len(Files) + 1)
  BY FilesIndices DEF Before

\* A process reads the table when it has the lock.
LEMMA StartKeeps ==
  ASSUME FilesListed, IInv, NEW p \in Procs, Start(p)
  PROVE  IInv'
<1> USE DEF IInv, TypeOK
<1>1. /\ lock = {} /\ lock' = {p} /\ applied' = applied
      /\ pc' = [pc EXCEPT ![p] = "migrating"] /\ seen' = [seen EXCEPT ![p] = applied]
      /\ next' = [next EXCEPT ![p] = 1]
  BY DEF Start
<1>2. /\ pc'[p] = "migrating" /\ seen'[p] = applied /\ next'[p] = 1
      /\ \A q \in Procs \ {p} : pc'[q] = pc[q] /\ pc[q] # "migrating"
  BY <1>1 DEF LockExclusive
<1>3. TypeOK'
  BY <1>1
<1>4. LockExclusive' /\ AppliedAreFiles'
  BY <1>1, <1>2 DEF LockExclusive, AppliedAreFiles
<1>5. MigratorKnows'
  BY <1>1, <1>2, BeforeAll, FilesIndices DEF MigratorKnows
<1>6. ServesComplete'
  BY <1>1, <1>2 DEF ServesComplete
<1>q. QED BY <1>3, <1>4, <1>5, <1>6

\* A file that was applied is gone over, another is applied; nobody else moves.
LEMMA FileKeeps ==
  ASSUME FilesListed, IInv, NEW p \in Procs, Skip(p) \/ Apply(p)
  PROVE  IInv'
<1> USE DEF IInv, TypeOK
<1>1. PICK i \in DOMAIN Files :
        /\ pc[p] = "migrating" /\ next[p] = i
        /\ next' = [next EXCEPT ![p] = @ + 1] /\ UNCHANGED <<pc, lock, seen>>
        /\ \/ Files[i] \in SameVersion(seen[p], Files[i]) /\ applied' = applied
           \/ SameVersion(applied, Files[i]) = {} /\ applied' = applied \cup {Files[i]}
  BY DEF Skip, Apply, At, Advance
<1>2. /\ next'[p] = i + 1 /\ \A q \in Procs \ {p} : next'[q] = next[q] /\ pc[q] # "migrating"
      /\ i + 1 \in 1..(Len(Files) + 1)
  <2>1. \A q \in Procs \ {p} : pc[q] # "migrating"
    BY <1>1 DEF LockExclusive
  <2>2. i + 1 \in 1..(Len(Files) + 1)
    BY FilesIndices
  <2>q. QED BY <1>1, <2>1, <2>2
<1>3. applied' = applied \cup {Files[i]}
  BY <1>1 DEF SameVersion, MigratorKnows
<1>4. TypeOK' /\ LockExclusive'
  BY <1>1, FilesIndices DEF LockExclusive
<1>5. AppliedAreFiles'
  BY <1>1 DEF AppliedAreFiles, SameVersion
<1>6. MigratorKnows'
  BY <1>1, <1>2, <1>3, BeforeNext DEF MigratorKnows
<1>7. ServesComplete'
  BY <1>1, <1>3 DEF ServesComplete
<1>q. QED BY <1>4, <1>5, <1>6, <1>7

\* A process that stops leaves what it applied; it serves after the last file only.
LEMMA StopKeeps ==
  ASSUME FilesListed, IInv, NEW p \in Procs, Refuse(p) \/ Serve(p) \/ Crash(p)
  PROVE  IInv'
<1> USE DEF IInv, TypeOK
<1>1. /\ pc[p] = "migrating" /\ lock' = {} /\ UNCHANGED <<applied, seen, next>>
      /\ \/ pc' = [pc EXCEPT ![p] = "refused"]
         \/ pc' = [pc EXCEPT ![p] = "down"]
         \/ pc' = [pc EXCEPT ![p] = "serving"] /\ next[p] = Len(Files) + 1
  BY DEF Refuse, Serve, Crash, Stop, At
<1>2. /\ \A q \in Procs \ {p} : pc'[q] = pc[q] /\ pc[q] # "migrating"
      /\ pc'[p] # "migrating" /\ (pc'[p] = "serving" => next[p] = Len(Files) + 1)
  BY <1>1 DEF LockExclusive
<1>3. TypeOK' /\ AppliedAreFiles'
  BY <1>1 DEF AppliedAreFiles
<1>4. LockExclusive' /\ MigratorKnows'
  BY <1>2 DEF LockExclusive, MigratorKnows
<1>5. ServesComplete'
  <2>1. next[p] = Len(Files) + 1 => \A i \in DOMAIN Files : Files[i] \in applied
    BY <1>1, BeforeAll DEF MigratorKnows
  <2>q. QED BY <1>1, <1>2, <2>1 DEF ServesComplete
<1>q. QED BY <1>3, <1>4, <1>5

\* The migrator knows the table while it holds the lock.
THEOREM Invariance == ASSUME FilesListed PROVE Spec => []IInv
<1>1. Init => IInv
  BY DEF Init, IInv, TypeOK, LockExclusive, AppliedAreFiles, MigratorKnows, ServesComplete
<1>2. ASSUME IInv, [Next]_vars PROVE IInv'
  <2>1. CASE UNCHANGED vars
    BY <1>2, <2>1 DEF vars, IInv, TypeOK, LockExclusive, AppliedAreFiles, MigratorKnows, ServesComplete
  <2>2. CASE Next
    BY <1>2, <2>2, StartKeeps, FileKeeps, StopKeeps DEF Next
  <2>q. QED BY <1>2, <2>1, <2>2
<1>q. QED BY <1>1, <1>2, PTL DEF Spec

\* No process serves on a schema of which a file is missing, whatever the files are and
\* however often processes crash and start again.
THEOREM CompleteWhenServed == ASSUME FilesListed PROVE Spec => []ServesComplete
<1>1. IInv => ServesComplete
  BY DEF IInv
<1>q. QED BY <1>1, Invariance, PTL

\* With two different files of one version no process ever serves: the first of them
\* bars the second.
THEOREM SameVersionNeverServes ==
  ASSUME FilesListed, NEW i \in DOMAIN Files, NEW k \in DOMAIN Files,
         Files[i].version = Files[k].version, Files[i] # Files[k]
  PROVE  Spec => [](\A p \in Procs : pc[p] # "serving")
<1>1. IInv => \A p \in Procs : pc[p] # "serving"
  BY DEF IInv, AppliedAreFiles, ServesComplete
<1>q. QED BY <1>1, Invariance, PTL

\* With versions of their own for all files, migrate is what its comment says: it may
\* be called from any process, at any time, and is never refused.
THEOREM DistinctVersionsSucceed ==
  ASSUME FilesListed,
         \A i, k \in DOMAIN Files : Files[i].version = Files[k].version => i = k
  PROVE  Spec => []MigrateSucceeds
<1>1. Init => MigrateSucceeds
  BY DEF Init, MigrateSucceeds
<1>2. ASSUME IInv, NEW p \in Procs PROVE ~Refuse(p)
  <2> SUFFICES ASSUME NEW i \in DOMAIN Files, At(p, i),
                      \/ SameVersion(seen[p], Files[i]) # {} /\ Files[i] \notin seen[p]
                      \/ SameVersion(seen[p], Files[i]) = {} /\ SameVersion(applied, Files[i]) # {}
               PROVE  FALSE
    BY DEF Refuse
  <2>1. /\ seen[p] \subseteq applied /\ applied \subseteq seen[p] \cup Before(i)
        /\ applied \subseteq {Files[k] : k \in DOMAIN Files}
    BY <1>2 DEF IInv, MigratorKnows, AppliedAreFiles, At
  <2>2. \A g \in applied : g.version = Files[i].version => g = Files[i]
    BY <2>1
  <2>3. Files[i] \notin Before(i)
    BY FilesIndices DEF Before
  <2>q. QED BY <2>1, <2>2, <2>3 DEF SameVersion
<1>3. ASSUME IInv, MigrateSucceeds, [Next]_vars PROVE MigrateSucceeds'
  BY <1>2, <1>3 DEF IInv, TypeOK, MigrateSucceeds, Next, vars, Start, Skip, Apply, Serve, Crash,
     Advance, Stop
<1>q. QED BY <1>1, <1>3, Invariance, PTL DEF Spec
=============================================================================
