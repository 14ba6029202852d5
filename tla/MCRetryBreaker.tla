--------------------------- MODULE MCRetryBreaker ---------------------------
(* A small instance of RetryBreaker: three overlapping operations.         *)
EXTENDS RetryBreaker

=============================================================================
