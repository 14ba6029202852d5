------------------------------ MODULE MergeOnce ------------------------------
(***************************************************************************)
(* What merging a pull request promises, of whatever runs beside it: the   *)
(* target branch only grows, the pull request is recorded as merged once,  *)
(* by a commit of the target that has all of the head it names, and the    *)
(* issues its body closes stay open until then.  A reopening that a merge  *)
(* overtakes lets it be recorded again.                                    *)
(***************************************************************************)
EXTENDS Naturals, Sequences, Null

VARIABLES
    target,     \* what was added to the target branch, in order
    merged,     \* None, or the recorded commit of the target and head
    overtaken,  \* whether a merge overtook a reopening
    linked      \* whether the linked issues are "open" or "closed"

pieces == <<target, merged, overtaken, linked>>

\* The n-th commit of the target has the head's first h commits, or their changes.
Covers(t, n, h) ==
    \E i \in 1..n : i <= Len(t) /\ t[i].how # "own" /\ t[i].upto >= h

OnceInit == target = <<>> /\ merged = None /\ linked = "open"
            /\ overtaken = FALSE

Extend ==
    /\ Len(target') > Len(target) /\ \A i \in 1..Len(target) : target'[i] = target[i]
    /\ UNCHANGED <<merged, overtaken, linked>>

Record ==
    /\ merged = None \/ overtaken
    /\ merged' # None /\ Covers(target, merged'.commit, merged'.head)
    /\ UNCHANGED <<target, overtaken, linked>>

CloseIssues ==
    /\ merged # None
    /\ linked' = "closed"
    /\ UNCHANGED <<target, merged, overtaken>>

Overtake == overtaken' = TRUE /\ UNCHANGED <<target, merged, linked>>

OnceNext == Extend \/ Record \/ CloseIssues \/ Overtake

OnceSpec == OnceInit /\ [][OnceNext]_pieces
=============================================================================
