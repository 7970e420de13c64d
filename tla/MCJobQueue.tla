----------------------------- MODULE MCJobQueue -----------------------------
(* A small instance of JobQueue.tla, watched by AtomicClaim.tla: three jobs *)
(* are the fewest of which one can be passed twice.                         *)
EXTENDS AtomicClaim

CONSTANTS j1, j2, j3, w1, w2
=============================================================================
