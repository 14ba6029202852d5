----------------------------- MODULE ObjectGraph -----------------------------
(***************************************************************************)
(* Git objects and what a walk over them finds: the pure part of           *)
(* packages/git-fs-s3/src/http/reachability.ts.  An object is a model      *)
(* value; Links[o] are the objects o names (a commit's tree and parents, a *)
(* tree's entries other than submodules, a tag's target).                  *)
(***************************************************************************)
CONSTANTS
    Objects,        \* object ids
    Links           \* Links[o]: the objects o names directly

ASSUME GraphAssumption == Links \in [Objects -> SUBSET Objects]

\* The walk from tips finds every object it reads in V.  It stops at the
\* objects in have, which it neither reads nor looks behind.
WalkComplete(tips, have, V) ==
    \E seen \in SUBSET (V \cup have) :
        /\ tips \subseteq seen
        /\ \A o \in seen \ have : Links[o] \subseteq seen

\* o and everything reachable from it is in V.
Complete(o, V) == WalkComplete({o}, {}, V)

===============================================================================
