---------------------------- MODULE Migrations -----------------------------
(***************************************************************************)
(* Start-up of the two binaries: db::migrate, called by api and worker      *)
(* before they serve. It embeds the files of migrations/ and runs them with *)
(* the sqlx migrator (0.8), which is outside this repository:               *)
(*   - it holds an advisory lock from reading the applied migrations to the *)
(*     end of the last file, so processes migrate one at a time;            *)
(*   - a file whose version was applied when it read them must have the     *)
(*     checksum recorded for that version, or it stops with an error;       *)
(*   - any other file runs in a transaction that also inserts its version   *)
(*     into _sqlx_migrations, whose primary key is the version.             *)
(* An error of migrate ends the process.                                    *)
(***************************************************************************)
EXTENDS Integers, Sequences

CONSTANTS
  Procs,  \* the processes that call migrate
  Files   \* the embedded files, [version, sum], in the order they are run

VARIABLES
  pc,      \* process -> "down", "migrating", "refused" or "serving"
  lock,    \* processes that hold the advisory lock (at most one)
  applied, \* _sqlx_migrations: the files applied
  seen,    \* process -> the applied files it read
  next     \* process -> index of the file it is at

vars == <<pc, lock, applied, seen, next>>

Init ==
  /\ pc = [p \in Procs |-> "down"]
  /\ lock = {}
  /\ applied = {}
  /\ seen = [p \in Procs |-> {}]
  /\ next = [p \in Procs |-> 1]

SameVersion(S, f) == {g \in S : g.version = f.version}

\* The process starts, gets the lock and reads what is applied.
Start(p) ==
  /\ pc[p] \in {"down", "refused"}
  /\ lock = {}
  /\ lock' = {p}
  /\ pc' = [pc EXCEPT ![p] = "migrating"]
  /\ seen' = [seen EXCEPT ![p] = applied]
  /\ next' = [next EXCEPT ![p] = 1]
  /\ UNCHANGED applied

At(p, i) == pc[p] = "migrating" /\ next[p] = i
Advance(p) == next' = [next EXCEPT ![p] = @ + 1] /\ UNCHANGED <<pc, lock, seen>>
Stop(p, how) ==
  /\ pc' = [pc EXCEPT ![p] = how]
  /\ lock' = {}
  /\ UNCHANGED <<applied, seen, next>>

Skip(p) ==
  \E i \in DOMAIN Files :
    /\ At(p, i)
    /\ Files[i] \in SameVersion(seen[p], Files[i])
    /\ Advance(p)
    /\ UNCHANGED applied

Apply(p) ==
  \E i \in DOMAIN Files :
    /\ At(p, i)
    /\ SameVersion(seen[p], Files[i]) = {}
    /\ SameVersion(applied, Files[i]) = {}
    /\ applied' = applied \cup {Files[i]}
    /\ Advance(p)

\* The checksum differs, or the transaction meets the version's row.
Refuse(p) ==
  \E i \in DOMAIN Files :
    /\ At(p, i)
    /\ \/ SameVersion(seen[p], Files[i]) # {} /\ Files[i] \notin seen[p]
       \/ SameVersion(seen[p], Files[i]) = {} /\ SameVersion(applied, Files[i]) # {}
    /\ Stop(p, "refused")

Serve(p) == At(p, Len(Files) + 1) /\ Stop(p, "serving")

\* The process ends; a transaction that has not committed leaves nothing.
Crash(p) == pc[p] = "migrating" /\ Stop(p, "down")

Next == \E p \in Procs : Start(p) \/ Skip(p) \/ Apply(p) \/ Refuse(p) \/ Serve(p) \/ Crash(p)

Spec == Init /\ [][Next]_vars

-----------------------------------------------------------------------------
\* db.rs, of migrate: "Runs embedded migrations (idempotent; safe to call from
\* both binaries)": whichever process calls it, and however often, it succeeds.
MigrateSucceeds == \A p \in Procs : pc[p] # "refused"
=============================================================================
