--------------------------- MODULE MCRepoLifecycle ---------------------------
(* A small instance of RepoLifecycle: one repository to begin with, two to *)
(* be created or forked, and three names.                                  *)
EXTENDS RepoLifecycle, TLC

CONSTANTS r1, r2, r3, a, b, c, s1, s2

MCInitRow == (r1 :> a) @@ (r2 :> New) @@ (r3 :> New)
PairInitRow == (r1 :> a) @@ (r2 :> b)
SpareName == {<<r1, c>>}
TakenName == {<<r1, b>>}
=============================================================================
