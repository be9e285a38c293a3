---------------------------- MODULE MCScheduler ----------------------------
(***************************************************************************)
(* Scheduler with three runs: two due instants of one key, and one run of  *)
(* another key.                                                            *)
(***************************************************************************)
EXTENDS Scheduler, TLC

CONSTANTS r1, r2, r3, k1, k2

MCRuns == {r1, r2, r3}
MCKeys == {k1, k2}
MCKeyOf == (r1 :> k1) @@ (r2 :> k1) @@ (r3 :> k2)
MCDueAt == (r1 :> 0) @@ (r2 :> 1) @@ (r3 :> 1)
Symmetry == Permutations(Workers)
=============================================================================
