----------------------------- MODULE MCExplorer -----------------------------
(* A small instance of Explorer.tla, whose contracts are model values.       *)
EXTENDS Explorer, TLC

CONSTANTS c1, c2, c3

MCSymmetry == Permutations(Contracts)
=============================================================================
