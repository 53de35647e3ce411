----------------------------- MODULE MCLimiter -----------------------------
(* Small instances of Limiter for TLC. *)
EXTENDS Limiter, TLC

ClientSymmetry == Permutations(Clients)
=============================================================================
