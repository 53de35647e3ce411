----------------------------- MODULE MCFlowerOutbox -----------------------------
(* Small instances of FlowerOutbox for TLC: request identities are model    *)
(* values, which Fresh hands out in one order because they are alike.       *)
EXTENDS FlowerOutbox
CONSTANTS m1, m2
=============================================================================
