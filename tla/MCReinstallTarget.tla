--------------------------- MODULE MCReinstallTarget ---------------------------
(* Small instances of ReinstallTarget for TLC. *)
EXTENDS ReinstallTarget
CONSTANTS o1, o2
=============================================================================
