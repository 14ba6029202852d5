------------------------------ MODULE MCRepoLock ------------------------------
(* Small instances of RepoLock.  Keys 1 and 2 are two repositories in the  *)
(* order of their names; c1 and c2 lock both (a fork or a transfer).      *)
EXTENDS RepoLock, TLC

CONSTANTS c1, c2

\* Two operations that need the same pair of repositories.
PairNeeds == (c1 :> {1, 2}) @@ (c2 :> {1, 2})
PairSkew == (c1 :> 0) @@ (c2 :> 1)
=============================================================================
