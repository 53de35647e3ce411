---------------------------- MODULE MCGitRuntime ----------------------------
EXTENDS GitRuntime, TLC

CONSTANTS h1, h2, h3, s1, s2, s3, w1, w2, w3

\* the handlers of one session
MCSessionOfOne == (h1 :> s1 @@ h2 :> s1)

\* two handlers, each in a session of its own
MCSessionOfTwo == (h1 :> s1 @@ h2 :> s2)

\* two worktrees of one repository and one of another; a single worktree
MCRepoOf == (w1 :> 1 @@ w2 :> 1 @@ w3 :> 2)
MCOneTree == (w1 :> 1)

\* two handlers with their sessions are alike
MCPairSymmetry == {h1 :> h2 @@ h2 :> h1 @@ s1 :> s2 @@ s2 :> s1}
=============================================================================
