-------------------------- MODULE MCPluginSessions --------------------------
(* Small instances of PluginSessions for TLC. *)
EXTENDS PluginSessions, TLC

CONSTANTS s1, s2, s3, c1, c2, x1

\* a remote session alone
MCChannelOfOnly == (s1 :> c1)

MCAccessOf == (s3 :> x1)
MCNoAccess == << >>

\* a remote and a local session, one after the other on one channel
MCOneChannel == (s1 :> c1 @@ s3 :> c1)
=============================================================================
