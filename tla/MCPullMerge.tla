----------------------------- MODULE MCPullMerge -----------------------------
(* Two requests to merge one pull request, neither naming the head, and     *)
(* nothing else at work on it.                                              *)
EXTENDS PullMerge, TLC

CONSTANTS m1, m2

NoneExpected == (m1 :> None) @@ (m2 :> None)
==============================================================================
