------------------------------ MODULE MCSandbox ------------------------------
(* A small instance of Sandbox.tla: a job that names its package, and one    *)
(* that does not and whose commit carries a Wasm file.                      *)
EXTENDS Sandbox

CONSTANTS j1, j2

File(dir, name) == [dir |-> dir, name |-> name, by |-> NONE]

MCMaxLines == [s \in Streams |-> 1]

MCCommitted == [j \in Jobs |-> IF j = j2 THEN {File(1, "lib")} ELSE {}]
MCProducts == {File(2, "lib")}
MCPackage == [j \in Jobs |-> IF j = j1 THEN "lib" ELSE NONE]
=============================================================================
