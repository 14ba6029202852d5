------------------------------ MODULE AtomicRefs ------------------------------
(***************************************************************************)
(* What pushes promise a reader, abstractly: refs that move one at a time, *)
(* each from the value its client claimed, and that always name a complete *)
(* history.  Packs, indexes, the lock, repacks and failures are gone; what *)
(* is stored may change in any way that keeps every ref complete.          *)
(***************************************************************************)
EXTENDS ObjectGraph

CONSTANTS
    Names,          \* ref names
    None,           \* a ref that does not exist
    Claims          \* the moves clients ask for: [name |-> .., old |-> .., new |-> ..]

VARIABLES
    ref,            \* ref[n]: the object n names
    stored          \* the objects that can be read

vars == <<ref, stored>>

\* Every ref of r has its whole history in V.
AllComplete(r, V) == \A n \in Names : r[n] # None => Complete(r[n], V)

Init ==
    /\ ref \in [Names -> Objects \cup {None}]
    /\ stored \subseteq Objects
    /\ AllComplete(ref, stored)

(* One ref moves.                                                          *)
Swap(n, new) ==
    /\ [name |-> n, old |-> ref[n], new |-> new] \in Claims
    /\ ref' = [ref EXCEPT ![n] = new]
    /\ AllComplete(ref', stored)
    /\ UNCHANGED stored

(* Objects are stored, or dropped.                                         *)
Rearrange ==
    /\ stored' \subseteq Objects
    /\ AllComplete(ref, stored')
    /\ UNCHANGED ref

Next == (\E n \in Names, new \in Objects \cup {None} : Swap(n, new)) \/ Rearrange

Spec == Init /\ [][Next]_vars

===============================================================================
