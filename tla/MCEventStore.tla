---------------------------- MODULE MCEventStore ----------------------------
(***************************************************************************)
(* EventStore with two writers, two aggregates and batches of up to two    *)
(* rows, small enough to explore and large enough for two fenced writers   *)
(* to race for the same head.                                              *)
(***************************************************************************)
EXTENDS EventStore, TLC

Symmetry == Permutations(EventIds) \cup Permutations(Aggregates)
              \cup Permutations(Writers)
=============================================================================
