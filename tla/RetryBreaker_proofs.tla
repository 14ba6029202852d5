------------------------ MODULE RetryBreaker_proofs -------------------------
(***************************************************************************)
(* Proofs about RetryBreaker: type correctness, the exclusiveness of the   *)
(* half-open probe and the bound on the failure count of a closed breaker, *)
(* for any number of concurrent operations and any settings.               *)
(*                                                                         *)
(* TypeOK needs to know that an operation in backoff has an attempt left.  *)
(* OneProbe and ClosedBelowThreshold are inductive given TypeOK: a probe   *)
(* is admitted only while probing is FALSE, hence while Probes is empty.   *)
(***************************************************************************)
EXTENDS RetryBreaker, TLAPS

BackoffHasAttemptLeft ==
    \A c \in Callers : pc[c] = "backoff" => attempt[c] < Retries

TypeInv == TypeOK /\ BackoffHasAttemptLeft

LEMMA TypeInvInductive == Spec => []TypeInv
<1>1. Init => TypeInv
  <2> SUFFICES ASSUME Init PROVE TypeInv
    OBVIOUS
  <2> USE RetryAssumption DEF Init
  <2>1. TypeOK
    <3>1. /\ failures \in 0..Threshold
          /\ cooling \in 0..ResetTicks
          /\ attempt \in [Callers -> 0..Retries]
      OBVIOUS
    <3>2. probing \in BOOLEAN /\ healthy \in BOOLEAN
      OBVIOUS
    <3>3. /\ state \in {"closed", "open", "half-open"}
          /\ pc \in [Callers -> Phases]
      BY DEF Phases
    <3>4. isProbe \in [Callers -> BOOLEAN]
      OBVIOUS
    <3> QED
      BY <3>1, <3>2, <3>3, <3>4 DEF TypeOK
  <2>2. BackoffHasAttemptLeft
    BY DEF BackoffHasAttemptLeft
  <2> QED
    BY <2>1, <2>2 DEF TypeInv
<1>2. TypeInv /\ [Next]_vars => TypeInv'
  <2> SUFFICES ASSUME TypeInv, [Next]_vars PROVE TypeInv'
    OBVIOUS
  <2> USE RetryAssumption
      DEF TypeInv, TypeOK, BackoffHasAttemptLeft, Phases
  <2>1. ASSUME NEW c \in Callers, NEW n \in 0..Retries, Enter(c, n)
        PROVE TypeInv'
    BY <2>1 DEF Enter
  <2>2. ASSUME NEW c \in Callers, Call(c) PROVE TypeInv'
    BY <2>1, <2>2 DEF Call
  <2>3. ASSUME NEW c \in Callers, Wake(c) PROVE TypeInv'
    BY <2>1, <2>3 DEF Wake, NextAttempt
  <2>4. ASSUME NEW c \in Callers, Succeed(c) PROVE TypeInv'
    BY <2>4 DEF Succeed, FreeProbe
  <2>5. ASSUME NEW c \in Callers, FailRetryable(c) PROVE TypeInv'
    BY <2>5 DEF FailRetryable, FreeProbe, LastAttempt
  <2>6. ASSUME NEW c \in Callers, FailFinal(c) PROVE TypeInv'
    BY <2>6 DEF FailFinal, FreeProbe
  <2>7. CASE Tick
    BY <2>7 DEF Tick
  <2>8. CASE Outage
    BY <2>8 DEF Outage
  <2>9. CASE UNCHANGED vars
    BY <2>9 DEF vars
  <2> QED
    BY <2>2, <2>3, <2>4, <2>5, <2>6, <2>7, <2>8, <2>9 DEF Next, Settle
<1> QED
  BY <1>1, <1>2, PTL DEF Spec

\* The breaker's variables have their types in every reachable state.
THEOREM TypeCorrect == Spec => []TypeOK
  BY TypeInvInductive, PTL DEF TypeInv

\* At most one request probes at a time, and the probing flag mirrors it,
\* for every number of overlapping operations.
THEOREM ProbeExclusive == Spec => []OneProbe
<1>1. Init => OneProbe
  BY DEF Init, OneProbe, Probes
<1>2. TypeInv /\ OneProbe /\ [Next]_vars => OneProbe'
  <2> SUFFICES ASSUME TypeInv, OneProbe, [Next]_vars PROVE OneProbe'
    OBVIOUS
  <2> USE DEF TypeInv, TypeOK, OneProbe, Probes
  <2>1. ASSUME NEW c \in Callers, NEW n, pc[c] # "inflight", Enter(c, n)
        PROVE OneProbe'
    <3>1. isProbe[c] = FALSE
      BY <2>1
    <3>2. CASE Rejects
      BY <2>1, <3>1, <3>2 DEF Enter
    <3>3. CASE ~Rejects /\ state # "closed"
      <4>1. \A d \in Callers : isProbe[d] = FALSE
        BY <3>3 DEF Rejects
      <4>2. \A d \in Callers : isProbe'[d] <=> d = c
        BY <2>1, <3>3, <4>1 DEF Enter
      <4> QED
        BY <2>1, <3>3, <4>2 DEF Enter
    <3>4. CASE ~Rejects /\ state = "closed"
      BY <2>1, <3>1, <3>4 DEF Enter
    <3> QED
      BY <3>2, <3>3, <3>4
  <2>2. ASSUME NEW c \in Callers, Call(c) PROVE OneProbe'
    BY <2>1, <2>2 DEF Call
  <2>3. ASSUME NEW c \in Callers, Wake(c) PROVE OneProbe'
    BY <2>1, <2>3 DEF Wake
  <2>4. ASSUME NEW c \in Callers, Settle(c) PROVE OneProbe'
    <3>1. pc[c] = "inflight" /\ \A d \in Callers \ {c} : pc'[d] = pc[d]
      BY <2>4 DEF Settle, Succeed, FailRetryable, FailFinal
    <3>2. FreeProbe(c)
      BY <2>4 DEF Settle, Succeed, FailRetryable, FailFinal
    <3>3. /\ isProbe'[c] = FALSE
          /\ \A d \in Callers \ {c} : isProbe'[d] = isProbe[d]
          /\ probing' <=> probing /\ ~isProbe[c]
      BY <3>2 DEF FreeProbe
    <3>4. state' = "half-open" => state = "half-open" /\ ~isProbe[c]
      BY <2>4 DEF Settle, Succeed, FailRetryable, FailFinal, Opens
    <3> QED
      BY <3>1, <3>3, <3>4
  <2>5. CASE Tick
    BY <2>5 DEF Tick
  <2>6. CASE Outage
    BY <2>6 DEF Outage
  <2>7. CASE UNCHANGED vars
    BY <2>7 DEF vars
  <2> QED
    BY <2>2, <2>3, <2>4, <2>5, <2>6, <2>7 DEF Next
<1> QED
  BY <1>1, <1>2, TypeInvInductive, PTL DEF Spec

\* A closed breaker has counted fewer failures than its threshold.
THEOREM ClosedIsBelowThreshold == Spec => []ClosedBelowThreshold
<1>1. Init => ClosedBelowThreshold
  BY RetryAssumption DEF Init, ClosedBelowThreshold
<1>2. TypeInv /\ ClosedBelowThreshold /\ [Next]_vars => ClosedBelowThreshold'
  <2> SUFFICES ASSUME TypeInv, ClosedBelowThreshold, [Next]_vars
               PROVE ClosedBelowThreshold'
    OBVIOUS
  <2> USE RetryAssumption
      DEF TypeInv, TypeOK, ClosedBelowThreshold
  <2>1. ASSUME NEW c \in Callers, Call(c) \/ Wake(c)
        PROVE ClosedBelowThreshold'
    BY <2>1 DEF Call, Wake, Enter
  <2>2. ASSUME NEW c \in Callers, Settle(c) PROVE ClosedBelowThreshold'
    BY <2>2 DEF Settle, Succeed, FailRetryable, FailFinal, Opens
  <2>3. CASE Tick \/ Outage \/ UNCHANGED vars
    BY <2>3 DEF Tick, Outage, vars
  <2> QED
    BY <2>1, <2>2, <2>3 DEF Next
<1> QED
  BY <1>1, <1>2, TypeInvInductive, PTL DEF Spec
=============================================================================
