------------------------------ MODULE RepoMutex ------------------------------
(***************************************************************************)
(* What the per-repository write lock promises: a locked operation runs    *)
(* only while no other operation that shares a repository with it runs.    *)
(* RepoLock implements this with lease rows in Postgres.                   *)
(***************************************************************************)
CONSTANTS
    Callers,        \* locked operations
    Needs           \* Needs[c]: the repositories c locks

VARIABLE running    \* the callers whose operation is running

Init == running = {}

\* c's operation starts: nobody it conflicts with is running.
Enter(c) ==
    /\ c \notin running
    /\ \A d \in running : Needs[c] \cap Needs[d] = {}
    /\ running' = running \cup {c}

\* c's operation returns, throws, or its instance is killed.
Leave(c) ==
    /\ c \in running
    /\ running' = running \ {c}

Next == \E c \in Callers : Enter(c) \/ Leave(c)

Spec == Init /\ [][Next]_running
=============================================================================
