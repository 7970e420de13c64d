------------------------------ MODULE MCWorker ------------------------------
(* Small instances of Worker.tla: t1 has an attestation configured and two   *)
(* jobs that compete for its record.                                        *)
EXTENDS Worker, TLC

CONSTANTS j1, j2, j3, w1, w2, t1, t2

MCTargetOf == [j \in Jobs |-> IF j \in {j1, j2} THEN t1 ELSE t2]

\* Jobs of one target are interchangeable, and so are the workers.
MCSymmetry == Permutations(Workers) \cup Permutations({j1, j2})
=============================================================================
