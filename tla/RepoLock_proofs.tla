--------------------------- MODULE RepoLock_proofs ---------------------------
(***************************************************************************)
(* Proofs about RepoLock, for any callers, repositories, needs, skews and  *)
(* timing constants.                                                       *)
(*                                                                         *)
(* HolderKeepsRow is not inductive: that a held row is in the holder's     *)
(* name says nothing of how much of its lease is left, so a step of        *)
(* another caller could take it.  RowsInv adds that the age of a held      *)
(* row is at most MaxGap, which Tick preserves because it waits for        *)
(* overdue renewals, and with InTime a row that young is expired on no     *)
(* caller's clock.                                                         *)
(*                                                                         *)
(* NoWaitCycle rests on OrderInv: a waiting call holds only keys smaller   *)
(* than the one it waits for, so the keys along a chain of waits ascend.   *)
(*                                                                         *)
(* TimeoutMeansContention says nothing of a caller that still waits.       *)
(* WaitInv adds that, until its row is minted or renewed by another, the   *)
(* row's lease runs out ahead of the waiter's patience by as much as       *)
(* Timeout exceeds the longest lease: both only shrink, tick by tick.      *)
(***************************************************************************)
EXTENDS RepoLock, WellFoundedInduction, TLAPS

\* Rows, calls and clocks keep their types in every reachable state.
THEOREM Typing == Spec => []TypeOK
<1> USE LockAssumption
<1>1. Init => TypeOK
  BY DEF Init, TypeOK, Floor
<1>2. TypeOK /\ [Next]_vars => TypeOK'
  <2> SUFFICES ASSUME TypeOK, [Next]_vars PROVE TypeOK'
    OBVIOUS
  <2> USE DEF TypeOK, Floor
  <2>1. ASSUME NEW c \in Callers, Request(c) PROVE TypeOK'
    BY <2>1 DEF Request
  <2>2. ASSUME NEW c \in Callers, NEW k \in Needs[c], NEW lag \in 0..Latency,
               Take(c, k, lag)
        PROVE TypeOK'
    <3>1. k \in Keys /\ Skew[c] \in 0..MaxSkew
      OBVIOUS
    <3>2. Expiry(c, lag) \in Floor..(Lease + MaxSkew)
      BY <3>1 DEF Expiry
    <3>3. WaitingFor(k) \subseteq Callers
      BY DEF WaitingFor
    <3> QED
      BY <2>2, <3>1, <3>2, <3>3 DEF Take
  <2>3. ASSUME NEW c \in Callers, NEW k \in Needs[c], NEW lag \in 0..Latency,
               GiveUp(c, k, lag)
        PROVE TypeOK'
    BY <2>3 DEF GiveUp
  <2>4. ASSUME NEW c \in Callers, Finish(c) PROVE TypeOK'
    BY <2>4 DEF Finish
  <2>5. ASSUME NEW c \in Callers, Return(c) PROVE TypeOK'
    BY <2>5 DEF Return
  <2>6. ASSUME NEW c \in Callers, Crash(c) PROVE TypeOK'
    BY <2>6 DEF Crash
  <2>7. ASSUME NEW c \in Callers, NEW k \in Keys, Release(c, k) PROVE TypeOK'
    BY <2>7 DEF Release
  <2>8. ASSUME NEW c \in Callers, NEW k \in Keys, NEW lag \in 0..Latency,
               Heartbeat(c, k, lag)
        PROVE TypeOK'
    <3>1. Expiry(c, lag) \in Floor..(Lease + MaxSkew)
      BY DEF Expiry
    <3>2. WaitingFor(k) \subseteq Callers
      BY DEF WaitingFor
    <3> QED
      BY <2>8, <3>1, <3>2 DEF Heartbeat
  <2>9. CASE Tick
    BY <2>9 DEF Tick
  <2>10. CASE UNCHANGED vars
    BY <2>10 DEF vars
  <2> QED
    BY <2>1, <2>2, <2>3, <2>4, <2>5, <2>6, <2>7, <2>8, <2>9, <2>10
    DEF Next, Try
<1> QED
  BY <1>1, <1>2, PTL DEF Spec

-----------------------------------------------------------------------------
(* Mutual exclusion, when renewals land in time.                           *)

Young == \A c \in Callers : \A k \in held[c] : Age(c, k) <= MaxGap

RowsInv == HolderKeepsRow /\ Young

\* A row held by c and young enough is takeable by nobody.
LEMMA YoungRowsAreNotTaken ==
    ASSUME InTime, TypeOK, RowsInv,
           NEW c \in Callers, NEW k \in held[c],
           NEW d \in Callers, NEW lag \in 0..Latency
    PROVE  ~Takeable(d, k, lag)
<1> USE LockAssumption DEF TypeOK, RowsInv
<1>1. k \in Keys /\ owner[k] # None
  BY DEF HolderKeepsRow
<1>2. Skew[d] <= MaxSkew /\ Skew[c] >= 0
  OBVIOUS
<1>3. left[k] >= Lease - MaxGap
  BY <1>1, <1>2 DEF Young, Age, Floor
<1> QED
  BY <1>1, <1>2, <1>3 DEF Takeable, InTime, Floor

\* In time, every held lock is backed by a row in the holder's name.
LEMMA RowsInvariant == ASSUME InTime PROVE Spec => []RowsInv
<1> USE LockAssumption
<1>1. Init => RowsInv
  BY DEF Init, RowsInv, HolderKeepsRow, Young
<1>2. TypeOK /\ RowsInv /\ [Next]_vars => RowsInv'
  <2> SUFFICES ASSUME TypeOK, RowsInv, [Next]_vars PROVE RowsInv'
    OBVIOUS
  <2> USE DEF TypeOK, RowsInv, HolderKeepsRow, Young, Age, Floor
  <2>1. ASSUME NEW c \in Callers,
               Request(c) \/ Finish(c) \/ Return(c)
        PROVE RowsInv'
    BY <2>1 DEF Request, Finish, Return
  <2>2. ASSUME NEW c \in Callers, NEW k \in Needs[c], NEW lag \in 0..Latency,
               Take(c, k, lag)
        PROVE RowsInv'
    <3>1. k \in Keys /\ k \notin held[c] /\ Takeable(c, k, lag)
      BY <2>2 DEF Take, IsNext, Missing
    <3>2. \A d \in Callers : k \notin held[d]
      BY <3>1, YoungRowsAreNotTaken
    <3>3. /\ owner' = [owner EXCEPT ![k] = c]
          /\ left' = [left EXCEPT ![k] = Lease + Skew[c] - lag]
          /\ held' = [held EXCEPT ![c] = @ \cup {k}]
      BY <2>2 DEF Take, Expiry
    <3>4. lag <= MaxGap /\ Skew[c] \in Int
      BY DEF InTime
    <3> QED
      BY <3>1, <3>2, <3>3, <3>4
  <2>3. ASSUME NEW c \in Callers, NEW k \in Needs[c], NEW lag \in 0..Latency,
               GiveUp(c, k, lag)
        PROVE RowsInv'
    BY <2>3 DEF GiveUp
  <2>4. ASSUME NEW c \in Callers, Crash(c) PROVE RowsInv'
    BY <2>4 DEF Crash
  <2>5. ASSUME NEW c \in Callers, NEW k \in Keys, Release(c, k) PROVE RowsInv'
    <3>1. \A d \in Callers \ {c} : k \notin held[d]
      BY <2>5 DEF Release
    <3> QED
      BY <2>5, <3>1 DEF Release, IsHolder
  <2>6. ASSUME NEW c \in Callers, NEW k \in Keys, NEW lag \in 0..Latency,
               Heartbeat(c, k, lag)
        PROVE RowsInv'
    <3>1. \A d \in Callers \ {c} : k \notin held[d]
      BY <2>6 DEF Heartbeat
    <3>2. /\ owner' = owner /\ held' = held
          /\ left' = [left EXCEPT ![k] = Lease + Skew[c] - lag]
      BY <2>6 DEF Heartbeat, Expiry
    <3>3. lag <= MaxGap /\ Skew[c] \in Int
      BY DEF InTime
    <3> QED
      BY <3>1, <3>2, <3>3
  <2>7. CASE Tick
    <3>1. \A c \in Callers : \A k \in held[c] : Age(c, k) < MaxGap
      BY <2>7 DEF Tick, Overdue, InTime
    <3>2. owner' = owner /\ held' = held
      BY <2>7 DEF Tick
    <3>3. \A k \in Keys : left'[k] >= left[k] - 1
      BY <2>7 DEF Tick
    <3>4. \A k \in Keys : left'[k] \in Int
      BY <2>7 DEF Tick
    <3> QED
      BY <3>1, <3>2, <3>3, <3>4
  <2>8. CASE UNCHANGED vars
    BY <2>8 DEF vars
  <2> QED
    BY <2>1, <2>2, <2>3, <2>4, <2>5, <2>6, <2>7, <2>8 DEF Next, Try
<1> QED
  BY <1>1, <1>2, Typing, PTL DEF Spec

\* In time, a call that holds a lock has the row in its name: no lease of a
\* live holder is taken over.
THEOREM RowsAreKept == ASSUME InTime PROVE Spec => []HolderKeepsRow
  BY RowsInvariant, PTL DEF RowsInv

\* In time, no lock is held by two calls.
THEOREM LocksExclude == ASSUME InTime PROVE Spec => []MutualExclusion
<1>1. HolderKeepsRow => MutualExclusion
  BY DEF HolderKeepsRow, MutualExclusion
<1> QED
  BY <1>1, RowsAreKept, PTL

-----------------------------------------------------------------------------
(* Who waits out a lease.                                                  *)

\* The row c waits for was not minted or renewed while c waited.
Unrefreshed(c, k) == pc[c] = "waiting" /\ IsNext(c, k) /\ c \notin refreshed

\* What is left of the row's lease, unless it is expired on every clock, is
\* shorter than what is left of the waiter's patience.
LapsesFirst(c, k) ==
    left[k] > Floor => left[k] - patience[c] <= Lease + MaxSkew - Timeout

WaitInv ==
    /\ TimeoutMeansContention
    /\ \A c \in Callers, k \in Keys : Unrefreshed(c, k) => LapsesFirst(c, k)

\* A caller whose state no step of another touches keeps waiting as it did.
LEMMA WaitsUndisturbed ==
    ASSUME TypeOK, WaitInv,
           NEW c \in Callers, NEW k \in Keys,
           pc'[c] = pc[c], held'[c] = held[c], patience'[c] = patience[c],
           Unrefreshed(c, k)', c \notin refreshed,
           left'[k] = left[k] \/ left'[k] = Floor
    PROVE  LapsesFirst(c, k)'
<1>1. Unrefreshed(c, k)
  BY DEF Unrefreshed, IsNext, Missing
<1>2. LapsesFirst(c, k)
  BY <1>1 DEF WaitInv
<1> QED
  BY <1>2, LockAssumption DEF LapsesFirst, Floor

\* A waiter whose timeout outlasts any lease gives up only on a row that
\* somebody minted or renewed while it waited.
LEMMA WaitInvariant == ASSUME OutlastsLease PROVE Spec => []WaitInv
<1> USE LockAssumption
<1>1. Init => WaitInv
  BY DEF Init, WaitInv, TimeoutMeansContention, Unrefreshed
<1>2. TypeOK /\ WaitInv /\ [Next]_vars => WaitInv'
  <2> SUFFICES ASSUME TypeOK, WaitInv, [Next]_vars PROVE WaitInv'
    OBVIOUS
  <2>1. ASSUME NEW c \in Callers, Request(c) PROVE WaitInv'
    <3>1. TimeoutMeansContention'
      BY <2>1 DEF Request, WaitInv, TimeoutMeansContention, TypeOK
    <3>2. ASSUME NEW d \in Callers, NEW k \in Keys, Unrefreshed(d, k)'
          PROVE  LapsesFirst(d, k)'
      <4>1. CASE d = c
        BY <2>1, <4>1 DEF Request, LapsesFirst, TypeOK, Floor
      <4>2. CASE d # c
        BY <2>1, <3>2, <4>2, WaitsUndisturbed DEF Request, Unrefreshed, TypeOK
      <4> QED
        BY <4>1, <4>2
    <3> QED
      BY <3>1, <3>2 DEF WaitInv
  <2>2. ASSUME NEW c \in Callers, NEW k \in Needs[c], NEW lag \in 0..Latency,
               Take(c, k, lag)
        PROVE WaitInv'
    <3>1. TimeoutMeansContention'
      BY <2>2 DEF Take, WaitInv, TimeoutMeansContention, TypeOK
    <3>2. ASSUME NEW d \in Callers, NEW j \in Keys, Unrefreshed(d, j)'
          PROVE  LapsesFirst(d, j)'
      <4>1. CASE d = c
        <5>1. pc'[c] = "waiting"
          BY <3>2, <4>1 DEF Unrefreshed
        <5>2. patience'[c] = Timeout
          BY <2>2, <5>1 DEF Take, TypeOK
        <5>3. left'[j] <= Lease + MaxSkew
          BY <2>2 DEF Take, Expiry, TypeOK, Floor
        <5>4. left'[j] \in Int
          BY <2>2 DEF Take, Expiry, TypeOK, Floor
        <5> QED
          BY <4>1, <5>2, <5>3, <5>4 DEF LapsesFirst
      <4>2. CASE d # c
        <5>1. /\ pc'[d] = pc[d] /\ held'[d] = held[d]
              /\ patience'[d] = patience[d]
              /\ d \notin refreshed /\ d \notin WaitingFor(k)
          BY <2>2, <3>2, <4>2 DEF Take, Unrefreshed, TypeOK
        <5>2. Unrefreshed(d, j)
          BY <3>2, <5>1 DEF Unrefreshed, IsNext, Missing
        <5>3. j # k
          BY <5>1, <5>2 DEF Unrefreshed, WaitingFor
        <5>4. left'[j] = left[j]
          BY <2>2, <5>3 DEF Take, TypeOK
        <5> QED
          BY <3>2, <5>1, <5>4, WaitsUndisturbed
      <4> QED
        BY <4>1, <4>2
    <3> QED
      BY <3>1, <3>2 DEF WaitInv
  <2>3. ASSUME NEW c \in Callers, NEW k \in Needs[c], NEW lag \in 0..Latency,
               GiveUp(c, k, lag)
        PROVE WaitInv'
    <3>1. c \in refreshed
      <4> SUFFICES ASSUME c \notin refreshed PROVE FALSE
        OBVIOUS
      <4>1. Unrefreshed(c, k) /\ patience[c] = 0 /\ k \in Keys
        BY <2>3 DEF GiveUp, OutOfPatience, Unrefreshed
      <4>2. left[k] >= Skew[c] - lag /\ Skew[c] >= 0
        BY <2>3, <4>1 DEF GiveUp, Takeable, TypeOK, Floor
      <4>3. left[k] \in Int /\ left[k] > Floor
        BY <4>1, <4>2 DEF TypeOK, Floor
      <4>4. left[k] <= Lease + MaxSkew - Timeout
        BY <4>1, <4>3 DEF WaitInv, LapsesFirst
      <4> QED
        BY <4>2, <4>3, <4>4 DEF OutlastsLease
    <3>2. TimeoutMeansContention'
      BY <2>3, <3>1 DEF GiveUp, WaitInv, TimeoutMeansContention, TypeOK
    <3>3. ASSUME NEW d \in Callers, NEW j \in Keys, Unrefreshed(d, j)'
          PROVE  LapsesFirst(d, j)'
      <4>1. pc'[d] = pc[d]
        BY <2>3, <3>3 DEF GiveUp, Unrefreshed, TypeOK
      <4> QED
        BY <2>3, <3>3, <4>1, WaitsUndisturbed DEF GiveUp, Unrefreshed
    <3> QED
      BY <3>2, <3>3 DEF WaitInv
  <2>4. ASSUME NEW c \in Callers, Finish(c) \/ Return(c) \/ Crash(c)
        PROVE WaitInv'
    <3>1. TimeoutMeansContention'
      BY <2>4 DEF Finish, Return, Crash, WaitInv, TimeoutMeansContention, TypeOK
    <3>2. ASSUME NEW d \in Callers, NEW j \in Keys, Unrefreshed(d, j)'
          PROVE  LapsesFirst(d, j)'
      <4>1. d # c
        BY <2>4, <3>2 DEF Finish, Return, Crash, Unrefreshed, TypeOK
      <4>2. /\ pc'[d] = pc[d] /\ held'[d] = held[d]
            /\ patience'[d] = patience[d]
            /\ left' = left /\ refreshed' = refreshed
        BY <2>4, <4>1 DEF Finish, Return, Crash, TypeOK
      <4> QED
        BY <3>2, <4>2, WaitsUndisturbed DEF Unrefreshed
    <3> QED
      BY <3>1, <3>2 DEF WaitInv
  <2>5. ASSUME NEW c \in Callers, NEW k \in Keys, Release(c, k) PROVE WaitInv'
    <3>1. TimeoutMeansContention'
      BY <2>5 DEF Release, WaitInv, TimeoutMeansContention
    <3>2. ASSUME NEW d \in Callers, NEW j \in Keys, Unrefreshed(d, j)'
          PROVE  LapsesFirst(d, j)'
      <4>1. d # c
        BY <2>5, <3>2 DEF Release, Unrefreshed
      <4>2. /\ pc'[d] = pc[d] /\ held'[d] = held[d]
            /\ patience'[d] = patience[d] /\ refreshed' = refreshed
        BY <2>5, <4>1 DEF Release, TypeOK
      <4>3. left'[j] = left[j] \/ left'[j] = Floor
        BY <2>5 DEF Release, TypeOK
      <4> QED
        BY <3>2, <4>2, <4>3, WaitsUndisturbed DEF Unrefreshed
    <3> QED
      BY <3>1, <3>2 DEF WaitInv
  <2>6. ASSUME NEW c \in Callers, NEW k \in Keys, NEW lag \in 0..Latency,
               Heartbeat(c, k, lag)
        PROVE WaitInv'
    <3>1. TimeoutMeansContention'
      BY <2>6 DEF Heartbeat, WaitInv, TimeoutMeansContention
    <3>2. ASSUME NEW d \in Callers, NEW j \in Keys, Unrefreshed(d, j)'
          PROVE  LapsesFirst(d, j)'
      <4>1. /\ pc' = pc /\ held' = held /\ patience' = patience
            /\ d \notin refreshed /\ d \notin WaitingFor(k)
        BY <2>6, <3>2 DEF Heartbeat, Unrefreshed
      <4>2. j # k
        BY <3>2, <4>1 DEF Unrefreshed, WaitingFor, IsNext, Missing
      <4>3. left'[j] = left[j]
        BY <2>6, <4>2 DEF Heartbeat, TypeOK
      <4> QED
        BY <3>2, <4>1, <4>3, WaitsUndisturbed
    <3> QED
      BY <3>1, <3>2 DEF WaitInv
  <2>7. CASE Tick
    <3>1. TimeoutMeansContention'
      BY <2>7 DEF Tick, WaitInv, TimeoutMeansContention
    <3>2. ASSUME NEW c \in Callers, NEW k \in Keys, Unrefreshed(c, k)'
          PROVE  LapsesFirst(c, k)'
      <4>1. Unrefreshed(c, k)
        BY <2>7, <3>2 DEF Tick, Unrefreshed, IsNext, Missing
      <4>2. LapsesFirst(c, k)
        BY <4>1 DEF WaitInv
      <4>3. /\ left[k] \in Int /\ patience[c] \in Nat
            /\ left'[k] = IF left[k] > Floor THEN left[k] - 1 ELSE Floor
            /\ patience'[c] = IF patience[c] > 0 THEN patience[c] - 1 ELSE 0
        BY <2>7 DEF Tick, TypeOK, Floor
      <4> QED
        BY <4>2, <4>3 DEF LapsesFirst, Floor
    <3> QED
      BY <3>1, <3>2 DEF WaitInv
  <2>8. CASE UNCHANGED vars
    BY <2>8 DEF vars, WaitInv, TimeoutMeansContention, Unrefreshed, LapsesFirst,
                IsNext, Missing
  <2> QED
    BY <2>1, <2>2, <2>3, <2>4, <2>5, <2>6, <2>7, <2>8 DEF Next, Try
<1> QED
  BY <1>1, <1>2, Typing, PTL DEF Spec

\* A waiter outlasts the lease of a dead holder: if the acquire timeout covers
\* a lease, the clock skew and a late statement, a call times out only if
\* somebody else minted or renewed the row while it waited.
THEOREM TimeoutsAreContention ==
    ASSUME OutlastsLease PROVE Spec => []TimeoutMeansContention
  BY WaitInvariant, PTL DEF WaitInv

-----------------------------------------------------------------------------
(* The abstract lock.                                                      *)

RunInv ==
    \A c \in Callers :
        held[c] \subseteq Needs[c] /\ (pc[c] = "running" => held[c] = Needs[c])

LEMMA RunInvariant == Spec => []RunInv
<1>1. Init => RunInv
  BY DEF Init, RunInv
<1>2. TypeOK /\ RunInv /\ [Next]_vars => RunInv'
  <2> SUFFICES ASSUME TypeOK, RunInv, [Next]_vars PROVE RunInv'
    OBVIOUS
  <2> USE LockAssumption DEF TypeOK, RunInv
  <2>1. ASSUME NEW c \in Callers,
               Request(c) \/ Finish(c) \/ Return(c) \/ Crash(c)
        PROVE RunInv'
    BY <2>1 DEF Request, Finish, Return, Crash
  <2>2. ASSUME NEW c \in Callers, NEW k \in Needs[c], NEW lag \in 0..Latency,
               Take(c, k, lag)
        PROVE RunInv'
    BY <2>2 DEF Take, Missing
  <2>3. ASSUME NEW c \in Callers, NEW k \in Needs[c], NEW lag \in 0..Latency,
               GiveUp(c, k, lag)
        PROVE RunInv'
    BY <2>3 DEF GiveUp
  <2>4. ASSUME NEW c \in Callers, NEW k \in Keys, Release(c, k) PROVE RunInv'
    BY <2>4 DEF Release
  <2>5. ASSUME NEW c \in Callers, NEW k \in Keys, NEW lag \in 0..Latency,
               Heartbeat(c, k, lag)
        PROVE RunInv'
    BY <2>5 DEF Heartbeat
  <2>6. CASE Tick \/ UNCHANGED vars
    BY <2>6 DEF Tick, vars
  <2> QED
    BY <2>1, <2>2, <2>3, <2>4, <2>5, <2>6 DEF Next, Try
<1> QED
  BY <1>1, <1>2, Typing, PTL DEF Spec

\* In time, the lease lock implements the abstract lock: an operation starts
\* only while none that shares a repository with it runs.
THEOREM ImplementsMutex == ASSUME InTime PROVE Spec => MutexSpec
<1> USE LockAssumption
<1>1. Init => Mutex!Init
  BY DEF Init, Mutex!Init, Running
<1>2. /\ TypeOK /\ RunInv /\ RowsInv /\ RunInv' /\ RowsInv'
      /\ [Next]_vars
      => [Mutex!Next]_Running
  <2> SUFFICES ASSUME TypeOK, RunInv, RowsInv, RunInv', RowsInv', [Next]_vars
               PROVE [Mutex!Next]_Running
    OBVIOUS
  <2> USE DEF TypeOK, Running
  <2>1. ASSUME NEW c \in Callers, NEW k \in Needs[c], NEW lag \in 0..Latency,
               Take(c, k, lag)
        PROVE [Mutex!Next]_Running
    <3>1. CASE Missing(c) # {k}
      BY <2>1, <3>1 DEF Take
    <3>2. CASE Missing(c) = {k}
      <4>1. Running' = Running \cup {c} /\ c \notin Running
        BY <2>1, <3>2 DEF Take
      <4>2. ASSUME NEW d \in Running PROVE Needs[c] \cap Needs[d] = {}
        <5>1. c # d /\ d \in Callers
          BY <4>1, <4>2
        <5>2. held'[c] = Needs[c] /\ held'[d] = Needs[d]
          BY <4>1, <4>2, <5>1 DEF RunInv
        <5>3. held'[c] \cap held'[d] = {}
          BY <5>1 DEF RowsInv, HolderKeepsRow
        <5> QED
          BY <5>2, <5>3
      <4> QED
        BY <4>1, <4>2 DEF Mutex!Next, Mutex!Enter
    <3> QED
      BY <3>1, <3>2
  <2>2. ASSUME NEW c \in Callers, Request(c) \/ Return(c)
        PROVE [Mutex!Next]_Running
    BY <2>2 DEF Request, Return
  <2>3. ASSUME NEW c \in Callers, Finish(c) \/ Crash(c)
        PROVE [Mutex!Next]_Running
    <3>1. CASE c \in Running
      BY <2>3, <3>1 DEF Finish, Crash, Mutex!Next, Mutex!Leave
    <3>2. CASE c \notin Running
      BY <2>3, <3>2 DEF Finish, Crash
    <3> QED
      BY <3>1, <3>2
  <2>4. ASSUME NEW c \in Callers, NEW k \in Needs[c], NEW lag \in 0..Latency,
               GiveUp(c, k, lag)
        PROVE [Mutex!Next]_Running
    BY <2>4 DEF GiveUp
  <2>5. ASSUME NEW c \in Callers, NEW k \in Keys, Release(c, k)
        PROVE [Mutex!Next]_Running
    BY <2>5 DEF Release
  <2>6. ASSUME NEW c \in Callers, NEW k \in Keys, NEW lag \in 0..Latency,
               Heartbeat(c, k, lag)
        PROVE [Mutex!Next]_Running
    BY <2>6 DEF Heartbeat
  <2>7. CASE Tick \/ UNCHANGED vars
    BY <2>7 DEF Tick, vars
  <2> QED
    BY <2>1, <2>2, <2>3, <2>4, <2>5, <2>6, <2>7 DEF Next, Try
<1> QED
  BY <1>1, <1>2, Typing, RunInvariant, RowsInvariant, PTL
  DEF Spec, MutexSpec, Mutex!Spec

-----------------------------------------------------------------------------
(* What holds whatever stalls.                                             *)

\* Even with stalled holders, the row of a call that still holds its lock
\* changes hands only after it lapsed on some clock.
THEOREM TakenOnlyWhenLapsed == Spec => RowsTakenOnlyWhenLapsed
<1> DEFINE Lapsed == \A c \in Callers : \A k \in held[c] \cap held'[c] :
                owner[k] = c /\ owner'[k] # c => left[k] < MaxSkew
<1>1. TypeOK /\ [Next]_vars => [Lapsed]_vars
  <2> SUFFICES ASSUME TypeOK, Next,
                      NEW c \in Callers, NEW k \in held[c] \cap held'[c],
                      owner[k] = c, owner'[k] # c
               PROVE  left[k] < MaxSkew
    OBVIOUS
  <2> USE LockAssumption DEF TypeOK, Floor
  <2>0. k \in Keys /\ c # None
    OBVIOUS
  <2>1. ASSUME NEW d \in Callers, NEW j \in Needs[d], NEW lag \in 0..Latency,
               Take(d, j, lag)
        PROVE  left[k] < MaxSkew
    <3>1. j = k
      BY <2>0, <2>1 DEF Take
    <3>2. left[k] < Skew[d] - lag
      BY <2>0, <2>1, <3>1 DEF Take, Takeable
    <3> QED
      BY <2>0, <3>2
  <2>2. ASSUME NEW d \in Callers, NEW j \in Keys, Release(d, j)
        PROVE  left[k] < MaxSkew
    BY <2>0, <2>2 DEF Release, IsHolder
  <2>3. ASSUME NEW d \in Callers, Crash(d)
        PROVE  left[k] < MaxSkew
    BY <2>0, <2>3 DEF Crash
  <2>4. ASSUME owner' = owner
        PROVE  left[k] < MaxSkew
    BY <2>4
  <2> QED
    BY <2>1, <2>2, <2>3, <2>4
    DEF Next, Try, Request, GiveUp, Finish, Return, Heartbeat, Tick
<1> QED
  BY <1>1, Typing, PTL DEF Spec, RowsTakenOnlyWhenLapsed

OrderInv ==
    /\ \A k \in Keys : owner[k] \in Callers => k \in held[owner[k]]
    /\ \A c \in Callers : pc[c] = "idle" => held[c] = {}
    /\ \A c \in Callers : pc[c] = "waiting" =>
           \A j \in held[c], m \in Missing(c) : j < m

LEMMA OrderInvariant == Spec => []OrderInv
<1> USE LockAssumption
<1>1. Init => OrderInv
  BY DEF Init, OrderInv
<1>2. TypeOK /\ RunInv /\ OrderInv /\ [Next]_vars => OrderInv'
  <2> SUFFICES ASSUME TypeOK, RunInv, OrderInv, [Next]_vars PROVE OrderInv'
    OBVIOUS
  <2> USE DEF TypeOK, OrderInv, Missing
  <2>1. ASSUME NEW c \in Callers, Request(c) PROVE OrderInv'
    BY <2>1 DEF Request
  <2>7. ASSUME NEW c \in Callers, Finish(c) \/ Return(c) PROVE OrderInv'
    BY <2>7 DEF Finish, Return
  <2>8. ASSUME NEW c \in Callers, Crash(c) PROVE OrderInv'
    <3>1. /\ owner' = [k \in Keys |-> IF owner[k] = c THEN Orphan ELSE owner[k]]
          /\ held' = [held EXCEPT ![c] = {}]
          /\ pc' = [pc EXCEPT ![c] = "idle"]
      BY <2>8 DEF Crash
    <3>2. Orphan \notin Callers
      OBVIOUS
    <3>3. \A k \in Keys : owner'[k] \in Callers =>
            owner[k] = owner'[k] /\ owner[k] # c
      BY <3>1, <3>2
    <3> QED
      BY <3>1, <3>3
  <2>2. ASSUME NEW c \in Callers, NEW k \in Needs[c], NEW lag \in 0..Latency,
               Take(c, k, lag)
        PROVE OrderInv'
    <3>1. /\ pc[c] = "waiting" /\ k \in Keys
          /\ \A m \in Missing(c) : k <= m
          /\ owner' = [owner EXCEPT ![k] = c]
          /\ held' = [held EXCEPT ![c] = @ \cup {k}]
          /\ \A d \in Callers \ {c} : pc'[d] = pc[d]
          /\ pc'[c] \in {"waiting", "running"}
      BY <2>2 DEF Take, IsNext
    <3>2. \A j \in held'[c], m \in Missing(c)' : j < m
      BY <3>1
    <3> QED
      BY <3>1, <3>2
  <2>3. ASSUME NEW c \in Callers, NEW k \in Needs[c], NEW lag \in 0..Latency,
               GiveUp(c, k, lag)
        PROVE OrderInv'
    BY <2>3 DEF GiveUp
  <2>4. ASSUME NEW c \in Callers, NEW k \in Keys, Release(c, k) PROVE OrderInv'
    BY <2>4 DEF Release, IsHolder
  <2>5. ASSUME NEW c \in Callers, NEW k \in Keys, NEW lag \in 0..Latency,
               Heartbeat(c, k, lag)
        PROVE OrderInv'
    BY <2>5 DEF Heartbeat
  <2>6. CASE Tick \/ UNCHANGED vars
    BY <2>6 DEF Tick, vars
  <2> QED
    BY <2>1, <2>2, <2>3, <2>4, <2>5, <2>6, <2>7, <2>8 DEF Next, Try
<1> QED
  BY <1>1, <1>2, Typing, RunInvariant, PTL DEF Spec

\* No set of calls waits in a circle, whatever repositories they lock.
THEOREM NoDeadlock == Spec => []NoWaitCycle
<1> USE LockAssumption
<1>1. TypeOK /\ OrderInv => NoWaitCycle
  <2> SUFFICES ASSUME TypeOK, OrderInv,
                      NEW S \in (SUBSET Callers) \ {{}},
                      \A c \in S : \E d \in S : WaitsOn(c, d)
               PROVE  FALSE
    BY DEF NoWaitCycle
  <2>1. PICK b \in Keys : \A k \in Keys : k <= b
    OBVIOUS
  <2> DEFINE T == {n \in Nat : \E c \in S, k \in Keys :
                                  c \in WaitingFor(k) /\ n = b - k}
  <2>2. \A c \in S : \E k \in Keys : c \in WaitingFor(k) /\ b - k \in T
    BY <2>1 DEF WaitsOn
  <2>3. T # {}
    BY <2>2
  <2>4. PICK x \in T : \A y \in T : ~(<<y, x>> \in OpToRel(<, Nat))
    BY <2>3, WFMin, NatLessThanWellFounded
  <2>5. PICK c \in S, k \in Keys : c \in WaitingFor(k) /\ x = b - k
    BY <2>4
  <2>6. PICK d \in S : WaitsOn(c, d)
    OBVIOUS
  <2>7. owner[k] = d
    BY <2>5, <2>6 DEF WaitsOn, WaitingFor, IsNext
  <2>8. PICK m \in Keys : d \in WaitingFor(m) /\ b - m \in T
    BY <2>2
  <2>9. k < m
    BY <2>7, <2>8 DEF OrderInv, WaitingFor, IsNext
  <2>10. b - m < x
    BY <2>5, <2>9
  <2> QED
    BY <2>4, <2>8, <2>10 DEF OpToRel
<1> QED
  BY <1>1, Typing, OrderInvariant, PTL
=============================================================================
