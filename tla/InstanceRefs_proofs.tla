------------------------- MODULE InstanceRefs_proofs -------------------------
(***************************************************************************)
(* What the caches of several instances keep of compare-and-swap, for any  *)
(* instances, values and timing: an update is seen once it is old, and     *)
(* always if one instance serves the repository.                           *)
(***************************************************************************)
EXTENDS InstanceRefs, TLAPS

\* The instances' caches, the lock and the writer keep their types.
THEOREM Typing ==
  ASSUME Constants
  PROVE  Spec => []TypeOK
<1>1. Init => TypeOK
  BY DEF Constants, Init, TypeOK, Settled, Values
<1>2. TypeOK /\ [Next]_vars => TypeOK'
  <2> SUFFICES ASSUME TypeOK, [Next]_vars PROVE TypeOK'
    OBVIOUS
  <2> USE DEF Constants, TypeOK, Settled, Values
  <2>1. CASE Tick
    BY <2>1 DEF Tick
  <2>2. ASSUME NEW i \in Instances, StartRead(i) \/ EndRead(i) \/ Evict(i)
        PROVE  TypeOK'
    <3>1. reading' \in [Instances -> BOOLEAN]
      BY <2>2, ZenonT(30) DEF StartRead, EndRead, Evict
    <3>2. 0 \in 0..TTL /\ TTL \in 0..TTL /\ 0 \in 0..MaxRead
      OBVIOUS
    <3>3. cached' \in [Instances -> Values] /\ answer' \in [Instances -> Values]
      BY <2>2 DEF StartRead, EndRead, Evict
    <3>4. life' \in [Instances -> 0..TTL] /\ age' \in [Instances -> 0..MaxRead]
      BY <2>2, <3>2 DEF StartRead, EndRead, Evict
    <3> QED
      BY <2>2, <3>1, <3>3, <3>4 DEF StartRead, EndRead, Evict
  <2>3. ASSUME NEW i \in Instances,
               BeginCommit(i) \/ (\E v \in Values : BeginPush(i, v))
        PROVE  TypeOK'
    BY <2>3 DEF BeginCommit, BeginPush
  <2>4. ASSUME NEW i \in Instances, Preflight(i) \/ Check(i)
        PROVE  TypeOK'
    BY <2>4 DEF Preflight, Check, Reads, CasFails, Unlock
  <2>5. ASSUME NEW i \in Instances, NEW v \in Values, Write(i, v) \/ WriteFails(i, v)
        PROVE  TypeOK'
    <3>1. reading' \in [Instances -> BOOLEAN]
      BY <2>5, ZenonT(30) DEF Write, WriteFails, Changed
    <3>2. 0 \in 0..TTL /\ TTL \in 0..TTL /\ 0 \in 0..Settled
      OBVIOUS
    <3>3. /\ cached' \in [Instances -> Values] /\ life' \in [Instances -> 0..TTL]
          /\ ref' \in Values /\ quiet' \in 0..Settled
      BY <2>5, <3>2 DEF Write, WriteFails, Changed
    <3> QED
      BY <2>5, <3>1, <3>3 DEF Write, WriteFails, Unlock
  <2>6. CASE UNCHANGED vars
    BY <2>6 DEF vars
  <2> QED
    BY <2>1, <2>2, <2>3, <2>4, <2>5, <2>6 DEF Next
<1> QED
  BY <1>1, <1>2, PTL DEF Spec

-----------------------------------------------------------------------------
(* Staleness is bounded                                                    *)

\* A read that will return what the ref no longer is began before it changed,
\* and a cached value that is out of date goes before the change is old.
StaleInv ==
    /\ \A i \in Instances : reading[i] /\ answer[i] # ref => quiet <= age[i]
    /\ \A i \in Instances : life[i] > 0 /\ cached[i] # ref => life[i] + quiet <= Settled

\* What was checked against an old value is based on the value.
BaseInv == step = "write" /\ checked >= Settled => base = ref

OldInv == StaleInv /\ BaseInv

\* Cached and half-read values are out of date for a bounded time (StaleInv), and
\* a base checked after that time is the value of the ref (BaseInv).
LEMMA OldInvHolds ==
  ASSUME Constants
  PROVE  Spec => []OldInv
<1>1. Init => OldInv
  BY DEF Constants, Init, OldInv, StaleInv, BaseInv
<1>2. TypeOK /\ OldInv /\ [Next]_vars => OldInv'
  <2> SUFFICES ASSUME TypeOK, OldInv, [Next]_vars PROVE OldInv'
    OBVIOUS
  <2> USE DEF Constants, TypeOK, Settled, OldInv, StaleInv, BaseInv
  <2>1. CASE Tick
    BY <2>1 DEF Tick
  <2>2. ASSUME NEW i \in Instances, StartRead(i) \/ EndRead(i) \/ Evict(i)
        PROVE  OldInv'
    BY <2>2 DEF StartRead, EndRead, Evict
  <2>3. ASSUME NEW i \in Instances,
               BeginCommit(i) \/ (\E v \in Values : BeginPush(i, v))
        PROVE  OldInv'
    BY <2>3 DEF BeginCommit, BeginPush
  <2>4. ASSUME NEW i \in Instances, Preflight(i)
        PROVE  OldInv'
    BY <2>4 DEF Preflight, Unlock
  <2>5. ASSUME NEW i \in Instances, Check(i)
        PROVE  OldInv'
    <3>1. StaleInv'
      BY <2>5 DEF Check
    <3>2. BaseInv'
      BY <2>5 DEF Check, Reads, Unlock
    <3> QED
      BY <3>1, <3>2
  <2>6. ASSUME NEW i \in Instances, NEW v \in Values, Write(i, v) \/ WriteFails(i, v)
        PROVE  OldInv'
    BY <2>6 DEF Write, WriteFails, Changed, Unlock
  <2>7. CASE UNCHANGED vars
    BY <2>7 DEF vars
  <2> QED
    BY <2>1, <2>2, <2>3, <2>4, <2>5, <2>6, <2>7 DEF Next
<1> QED
  BY <1>1, <1>2, Typing, PTL DEF Spec

\* Only writers move a ref, and only when they have checked it.
LEMMA WritersMove ==
  ASSUME [Next]_vars, ref' # ref
  PROVE  step = "write" /\ (\E i \in Instances : holder = i)
BY DEF Next, vars, Tick, StartRead, EndRead, Evict, BeginCommit, BeginPush,
       Preflight, Check, Write, WriteFails

\* An update that was older than TTL and MaxRead when the ref was checked is
\* never lost, whichever instances read and write and whatever fails.
THEOREM OldUpdates ==
  ASSUME Constants
  PROVE  Spec => OldUpdatesAreSeen
<1>1. OldInv /\ [Next]_vars => [ref' # ref /\ checked >= Settled => base = ref]_vars
  BY WritersMove DEF OldInv, BaseInv
<1> QED
  BY <1>1, OldInvHolds, PTL DEF Spec, OldUpdatesAreSeen

-----------------------------------------------------------------------------
(* One instance                                                            *)

\* The only writer's cache is never out of date.
CurrentInv ==
    /\ \A i \in Instances : reading[i] => answer[i] = ref
    /\ \A i \in Instances : life[i] > 0 => cached[i] = ref
    /\ step = "write" => base = ref

\* If one instance serves the repository, a ref moves only from the value its
\* writer claimed or read.
THEOREM OneInstance ==
  ASSUME Constants, \A i, j \in Instances : i = j
  PROVE  Spec => MovesFromBase
<1>1. Init => CurrentInv
  BY DEF Constants, Init, CurrentInv
<1>2. TypeOK /\ CurrentInv /\ [Next]_vars => CurrentInv'
  <2> SUFFICES ASSUME TypeOK, CurrentInv, [Next]_vars PROVE CurrentInv'
    OBVIOUS
  <2> USE DEF Constants, TypeOK, CurrentInv
  <2>1. CASE Tick
    BY <2>1 DEF Tick
  <2>2. ASSUME NEW i \in Instances, StartRead(i) \/ EndRead(i) \/ Evict(i)
        PROVE  CurrentInv'
    BY <2>2 DEF StartRead, EndRead, Evict
  <2>3. ASSUME NEW i \in Instances,
               BeginCommit(i) \/ (\E v \in Values : BeginPush(i, v))
        PROVE  CurrentInv'
    BY <2>3 DEF BeginCommit, BeginPush
  <2>4. ASSUME NEW i \in Instances, Preflight(i) \/ Check(i)
        PROVE  CurrentInv'
    BY <2>4 DEF Preflight, Check, Reads, Unlock
  <2>5. ASSUME NEW i \in Instances, NEW v \in Values, Write(i, v) \/ WriteFails(i, v)
        PROVE  CurrentInv'
    BY <2>5 DEF Write, WriteFails, Changed, Unlock
  <2>6. CASE UNCHANGED vars
    BY <2>6 DEF vars
  <2> QED
    BY <2>1, <2>2, <2>3, <2>4, <2>5, <2>6 DEF Next
<1>3. CurrentInv /\ [Next]_vars => [ref' # ref => base = ref]_vars
  BY WritersMove DEF CurrentInv
<1> QED
  BY <1>1, <1>2, <1>3, Typing, PTL DEF Spec, MovesFromBase
=============================================================================
