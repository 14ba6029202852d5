---------------------------- MODULE RetryBreaker ----------------------------
(***************************************************************************)
(* The retry decorator and its circuit breaker (createRetryStore in        *)
(* packages/git-fs-s3/src/retry.ts).                                       *)
(*                                                                         *)
(* One instance of the decorator wraps the object store of a server        *)
(* process; its callers are the concurrent store operations of that        *)
(* process.  JavaScript runs the code between two awaits atomically, so    *)
(* the steps are: begin an attempt, the backend settles it, the backoff    *)
(* timer fires, time passes.  The clock is kept as the part of the reset   *)
(* window still to elapse since lastFailureAt.                             *)
(***************************************************************************)
EXTENDS Naturals, FiniteSets

CONSTANTS
    Callers,        \* store operations that may be in progress at once
    Retries,        \* options.retries: attempts after the first
    Threshold,      \* breaker.threshold
    ResetTicks      \* breaker.resetMs, in ticks of the model's clock

ASSUME RetryAssumption ==
    /\ Retries \in Nat
    /\ Threshold \in Nat \ {0}
    /\ ResetTicks \in Nat

VARIABLES
    state,          \* the breaker: "closed", "open" or "half-open"
    failures,       \* consecutive transient failures, counted up to Threshold
                    \* (the code compares them with it and nothing else)
    cooling,        \* ticks until Date.now() - lastFailureAt >= resetMs
    probing,        \* a half-open probe is in flight
    pc,             \* where each operation is in run()
    attempt,        \* the loop counter of run()
    isProbe,        \* guarded() let this attempt through as the probe
    healthy         \* external: the backend answers without transient faults

vars == <<state, failures, cooling, probing, pc, attempt, isProbe, healthy>>

Phases == {"idle", "inflight", "backoff", "ok", "failed", "circuit"}

TypeOK ==
    /\ state \in {"closed", "open", "half-open"}
    /\ failures \in 0..Threshold
    /\ cooling \in 0..ResetTicks
    /\ probing \in BOOLEAN
    /\ pc \in [Callers -> Phases]
    /\ attempt \in [Callers -> 0..Retries]
    /\ isProbe \in [Callers -> BOOLEAN]
    /\ healthy \in BOOLEAN

Init ==
    /\ state = "closed"
    /\ failures = 0
    /\ cooling = 0
    /\ probing = FALSE
    /\ pc = [c \in Callers |-> "idle"]
    /\ attempt = [c \in Callers |-> 0]
    /\ isProbe = [c \in Callers |-> FALSE]
    /\ healthy = TRUE

-----------------------------------------------------------------------------
(* guarded(): admission.                                                   *)

\* Mutant of Rejects: the probing flag is not consulted.
RejectsIgnoringProbe == state = "open" /\ cooling > 0

\* The breaker rejects without calling the backend.
Rejects ==
    /\ state # "closed"
    /\ probing \/ (state = "open" /\ cooling > 0)

\* Enter guarded() with loop counter n: reject, go through as an ordinary
\* request, or go through as the one half-open probe.
Enter(c, n) ==
    /\ attempt' = [attempt EXCEPT ![c] = n]
    /\ IF Rejects
       THEN /\ pc' = [pc EXCEPT ![c] = "circuit"]
            /\ UNCHANGED <<state, probing, isProbe>>
       ELSE /\ pc' = [pc EXCEPT ![c] = "inflight"]
            /\ isProbe' = [isProbe EXCEPT ![c] = state # "closed"]
            /\ IF state # "closed"
               THEN state' = "half-open" /\ probing' = TRUE
               ELSE UNCHANGED <<state, probing>>
    /\ UNCHANGED <<failures, cooling, healthy>>

\* A caller's operation starts (its previous one has settled).
Call(c) ==
    /\ pc[c] \in {"idle", "ok", "failed", "circuit"}
    /\ Enter(c, 0)

\* Mutant of NextAttempt: the loop counter stands still.
NextAttemptStuck(c) == attempt[c]

NextAttempt(c) == attempt[c] + 1

\* The backoff timer fires and the loop goes round.
Wake(c) ==
    /\ pc[c] = "backoff"
    /\ Enter(c, NextAttempt(c))

-----------------------------------------------------------------------------
(* guarded() and run(): how an attempt settles.                            *)

\* Mutant of FreeProbe: the slot is never freed.
FreeProbeNever(c) ==
    /\ probing' = probing
    /\ isProbe' = [isProbe EXCEPT ![c] = FALSE]

\* The finally block: the probe slot is freed whatever the outcome.
FreeProbe(c) ==
    /\ probing' = (probing /\ ~isProbe[c])
    /\ isProbe' = [isProbe EXCEPT ![c] = FALSE]

\* Any success closes the breaker and resets the count.
Succeed(c) ==
    /\ pc[c] = "inflight"
    /\ failures' = 0
    /\ state' = "closed"
    /\ FreeProbe(c)
    /\ pc' = [pc EXCEPT ![c] = "ok"]
    /\ UNCHANGED <<cooling, attempt, healthy>>

\* Mutant of Opens: the threshold is off by one.
OpensLate(c) == failures >= Threshold \/ isProbe[c]

\* Whether one more transient failure opens the breaker.
Opens(c) == failures + 1 >= Threshold \/ isProbe[c]

LastAttempt(c) == attempt[c] = Retries

\* A retryable error: count it, restart the reset window, perhaps open, and
\* back off unless this was the last attempt.
FailRetryable(c) ==
    /\ pc[c] = "inflight"
    /\ ~healthy
    /\ failures' = IF failures < Threshold THEN failures + 1 ELSE failures
    /\ cooling' = ResetTicks
    /\ state' = IF Opens(c) THEN "open" ELSE state
    /\ FreeProbe(c)
    /\ pc' = [pc EXCEPT ![c] =
                IF LastAttempt(c) THEN "failed" ELSE "backoff"]
    /\ UNCHANGED <<attempt, healthy>>

\* An error that says nothing about the backend's health (a 403): thrown at
\* once; it closes the breaker when the probe met it.
FailFinal(c) ==
    /\ pc[c] = "inflight"
    /\ IF isProbe[c]
       THEN failures' = 0 /\ state' = "closed"
       ELSE UNCHANGED <<failures, state>>
    /\ FreeProbe(c)
    /\ pc' = [pc EXCEPT ![c] = "failed"]
    /\ UNCHANGED <<cooling, attempt, healthy>>

-----------------------------------------------------------------------------
(* The environment.                                                        *)

Tick ==
    /\ cooling > 0
    /\ cooling' = cooling - 1
    /\ UNCHANGED <<state, failures, probing, pc, attempt, isProbe, healthy>>

\* An outage begins or ends.
Outage ==
    /\ healthy' = ~healthy
    /\ UNCHANGED <<state, failures, cooling, probing, pc, attempt, isProbe>>

Settle(c) == Succeed(c) \/ FailRetryable(c) \/ FailFinal(c)

Next ==
    \/ \E c \in Callers : Call(c) \/ Wake(c) \/ Settle(c)
    \/ Tick
    \/ Outage

Spec == Init /\ [][Next]_vars

\* Every backend call settles (the HTTP client times out), timers fire, and
\* time passes.  Nothing forces callers to call or outages to happen.
Fairness ==
    /\ \A c \in Callers : WF_vars(Settle(c)) /\ WF_vars(Wake(c))
    /\ WF_vars(Tick)

FairSpec == Spec /\ Fairness

\* As FairSpec, with every caller issuing requests for ever.
BusySpec == FairSpec /\ \A c \in Callers : WF_vars(Call(c))

-----------------------------------------------------------------------------
(* Properties.                                                             *)

Probes == {c \in Callers : isProbe[c]}

\* At most one request probes the backend at a time, the probing flag is set
\* exactly while it is in flight, and a half-open breaker has such a probe to
\* wait for: late answers of requests admitted before the circuit opened
\* change the state under the probe but can neither duplicate nor lose it.
OneProbe ==
    /\ \A c, d \in Probes : c = d
    /\ \A c \in Probes : pc[c] = "inflight"
    /\ probing <=> Probes # {}
    /\ state = "half-open" => probing

\* The circuit is never left closed with the failure threshold reached,
\* however failures of overlapping requests interleave with a probe.
ClosedBelowThreshold == state = "closed" => failures < Threshold

\* Every operation settles after finitely many attempts.
OperationsSettle ==
    \A c \in Callers : pc[c] \in {"inflight", "backoff"} ~>
                       pc[c] \in {"ok", "failed", "circuit"}

\* Once the backend stays healthy and requests keep coming, the breaker
\* closes for good: no interleaving leaves it rejecting for ever.
BreakerRecovers == <>[]healthy => <>[](state = "closed")

=============================================================================
