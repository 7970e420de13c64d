---------------------------- MODULE MCMigrations ----------------------------
(* Migrations.tla with the files of migrations/ and the two binaries.       *)
EXTENDS Migrations

RepoFiles ==
  << [version |-> 1, sum |-> "init"],
     [version |-> 2, sum |-> "attestation"],
     [version |-> 2, sum |-> "sep58"] >>
=============================================================================
