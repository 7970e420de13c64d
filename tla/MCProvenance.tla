---------------------------- MODULE MCProvenance ----------------------------
(* A small instance of Provenance.tla: two versions of one contract, whose   *)
(* metadata name different builds, and three claims about it.               *)
EXTENDS Provenance, TLC

CONSTANTS j1, j2, w1, w2

Image(r, ref) == [registry |-> r, ref |-> ref]

\* w1 names its source and a build image; w2 names another commit, without one.
MCMetadata ==
  w1 :> [source_repo |-> "repo", commit_sha |-> "c1", image |-> Image("vendor", "other")]
  @@ w2 :> [source_repo |-> "repo", commit_sha |-> "c2", image |-> NONE]

\* A claim that leaves the image open; one that pins an allowlisted image; and
\* one that names a tag and an expected hash.
MCRequests ==
  {[repo_url |-> "repo", commit_sha |-> "c1", image |-> NONE, expected |-> NONE],
   [repo_url |-> "repo", commit_sha |-> "c2", image |-> Image("vendor", "sdf"), expected |-> NONE],
   [repo_url |-> "fork", commit_sha |-> "c3", image |-> Image("stellar", "latest"), expected |-> w2]}

MCDefaultImage == Image("stellar", "latest")

MCSymmetry == Permutations(Jobs)
=============================================================================
