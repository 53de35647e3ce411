---------------------------- MODULE MCFairRWGate ----------------------------
(* Small instances of FairRWGate for TLC. *)
EXTENDS FairRWGate, TLC

ClientSymmetry == Permutations(Clients)
=============================================================================
