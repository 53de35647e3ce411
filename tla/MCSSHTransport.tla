---------------------------- MODULE MCSSHTransport ----------------------------
(* Small instances of SSHTransport for TLC. *)
EXTENDS SSHTransport, TLC

CONSTANTS c1, c2, p1

\* a caller with a password and one that gives none
MCPasswordOfTwo == (c1 :> p1 @@ c2 :> Omitted)
=============================================================================
