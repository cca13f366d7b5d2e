---------------------------- MODULE MCStateStore ----------------------------
(* StateStore for TLC: two state files that share the journal.              *)
EXTENDS StateStore, TLC

Symmetry == Permutations(Files)
=============================================================================
