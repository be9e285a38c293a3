---------------------------- MODULE MCLiveSafety ----------------------------
(***************************************************************************)
(* LiveSafety on small instances: the threads of each kind are symmetric,  *)
(* and so are the confirmations, intents and brokers.                      *)
(***************************************************************************)
EXTENDS LiveSafety, TLC

Symmetry == Permutations(Confirmations) \cup Permutations(Intents)
              \cup Permutations(Brokers) \cup Permutations(Submitters)
              \cup Permutations(Reconcilers) \cup Permutations(Operators)
=============================================================================
