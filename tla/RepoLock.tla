------------------------------- MODULE RepoLock -------------------------------
(***************************************************************************)
(* The per-repository write lock of apps/web/src/server/git-repo-lock.ts:  *)
(* one lease row per repository in Postgres, taken and renewed by          *)
(* serverless instances that share no memory.                              *)
(*                                                                         *)
(* A caller is one slot running withRepositoryLocks(repos, fn); a slot is  *)
(* used again for a later call, with a fresh holder id.  Every SQL         *)
(* statement is one step.  Times are relative: left[k] is expires_at minus *)
(* the true time, so a waiting row needs no unbounded clock, and an        *)
(* instance whose clock runs Skew[c] ahead writes and compares accordingly.*)
(* A statement may carry a time read up to Latency ticks before it lands.  *)
(***************************************************************************)
EXTENDS Integers, FiniteSets

CONSTANTS
    Callers,        \* slots of withRepositoryLocks calls
    Keys,           \* repository keys; integers, compared as the code sorts
    Needs,          \* Needs[c]: the repositories c locks
    None,           \* no lease row
    Orphan,         \* a holder id that no running call owns any more
    Lease,          \* LOCK_LEASE_MS
    Renew,          \* LOCK_RENEW_MS
    Timeout,        \* LOCK_ACQUIRE_TIMEOUT_MS
    Latency,        \* the longest a statement lands after its time was read
    MaxGap,         \* the longest a live holder goes without a landed renewal
    Skew,           \* Skew[c]: c's clock minus true time
    MaxSkew,        \* the largest skew
    MayStall        \* holders may be frozen, or fail to renew, beyond MaxGap

ASSUME LockAssumption ==
    /\ Keys \subseteq Int /\ \E b \in Keys : \A k \in Keys : k <= b
    /\ Needs \in [Callers -> (SUBSET Keys) \ {{}}]
    /\ None # Orphan /\ {None, Orphan} \cap Callers = {}
    /\ Lease \in Nat /\ Renew \in Nat /\ Timeout \in Nat /\ Latency \in Nat
    /\ MaxSkew \in Nat /\ Skew \in [Callers -> 0..MaxSkew]
    /\ MaxGap \in Nat /\ MayStall \in BOOLEAN

VARIABLES
    owner,          \* owner[k]: the holder column of k's row
    left,           \* left[k]: expires_at of k's row minus the true time
    pc,             \* where each call is
    held,           \* held[c]: the locks c believes it holds
    patience,       \* deadline minus now of the acquire c is waiting in
    refreshed       \* history: callers whose awaited row was minted or
                    \* renewed by someone else since they began to wait

vars == <<owner, left, pc, held, patience, refreshed>>

\* A row this far past its expiry is expired on every clock.
Floor == -Latency - 1

TypeOK ==
    /\ owner \in [Keys -> Callers \cup {None, Orphan}]
    /\ left \in [Keys -> Floor..(Lease + MaxSkew)]
    /\ pc \in [Callers -> {"idle", "waiting", "running", "releasing",
                           "timedout"}]
    /\ held \in [Callers -> SUBSET Keys]
    /\ patience \in [Callers -> 0..Timeout]
    /\ refreshed \in SUBSET Callers

Init ==
    /\ owner = [k \in Keys |-> None]
    /\ left = [k \in Keys |-> Floor]
    /\ pc = [c \in Callers |-> "idle"]
    /\ held = [c \in Callers |-> {}]
    /\ patience = [c \in Callers |-> 0]
    /\ refreshed = {}

-----------------------------------------------------------------------------
(* Acquiring: acquireRepoLock inside the recursion of withRepositoryLocks. *)

Missing(c) == Needs[c] \ held[c]

\* Mutant of IsNext: the repositories are locked in whatever order they come.
IsNextUnsorted(c, k) == k \in Missing(c)

\* The next repository to lock: the smallest key not held yet.
IsNext(c, k) == k \in Missing(c) /\ \A j \in Missing(c) : k <= j

\* Those waiting for k's row, for the history variable.
WaitingFor(k) == {d \in Callers : pc[d] = "waiting" /\ IsNext(d, k)}

\* withRepositoryLocks is called: it waits for its first lock, with a new
\* holder id and a new deadline.
Request(c) ==
    /\ pc[c] = "idle"
    /\ pc' = [pc EXCEPT ![c] = "waiting"]
    /\ patience' = [patience EXCEPT ![c] = Timeout]
    /\ refreshed' = refreshed \ {c}
    /\ UNCHANGED <<owner, left, held>>

\* Mutant of Takeable: the ON CONFLICT clause has no WHERE.
TakeableAlways(c, k, lag) == TRUE

\* INSERT finds no row, or ON CONFLICT DO UPDATE WHERE expires_at < now,
\* where now was read on c's clock lag ticks ago.
Takeable(c, k, lag) == owner[k] = None \/ left[k] < Skew[c] - lag

\* new Date(now + LOCK_LEASE_MS) of c's clock, lag ticks after it was read,
\* minus the true time.
Expiry(c, lag) == Lease + Skew[c] - lag

\* The upsert returned our holder: go on to the next lock, or run fn.
Take(c, k, lag) ==
    /\ pc[c] = "waiting" /\ IsNext(c, k)
    /\ Takeable(c, k, lag)
    /\ owner' = [owner EXCEPT ![k] = c]
    /\ left' = [left EXCEPT ![k] = Expiry(c, lag)]
    /\ held' = [held EXCEPT ![c] = @ \cup {k}]
    /\ pc' = [pc EXCEPT ![c] = IF Missing(c) = {k} THEN "running" ELSE @]
    /\ patience' = [patience EXCEPT ![c] = IF Missing(c) = {k} THEN 0
                                           ELSE Timeout]
    /\ refreshed' = (refreshed \cup WaitingFor(k)) \ {c}

\* Mutant of OutOfPatience: the deadline is one lease, not lease and slack.
OutOfPatienceEarly(c) == patience[c] <= Timeout - Lease

\* Mutant of OutOfPatience: a caller polls for ever.
OutOfPatienceNever(c) == FALSE

\* Date.now() >= deadline.
OutOfPatience(c) == patience[c] = 0

\* The upsert returned no row and the deadline has passed: throw.  (Without
\* the second condition the caller sleeps and polls again, changing nothing.)
\* The locks taken so far are released on the way out.
GiveUp(c, k, lag) ==
    /\ pc[c] = "waiting" /\ IsNext(c, k)
    /\ ~Takeable(c, k, lag)
    /\ OutOfPatience(c)
    /\ pc' = [pc EXCEPT ![c] = "timedout"]
    /\ UNCHANGED <<owner, left, held, patience, refreshed>>

-----------------------------------------------------------------------------
(* Holding: the heartbeat, the end of fn, and the finally block.           *)

\* Ticks since the time carried by the last landed mint or renewal of k.
Age(c, k) == Lease + Skew[c] - left[k]

\* WHERE repo_key = k AND holder = ours.
IsHolder(c, k) == owner[k] = c

\* A heartbeat's UPDATE lands; its interval is Renew.  A lease that is gone
\* is only logged, and the operation goes on.
Heartbeat(c, k, lag) ==
    /\ k \in held[c]
    /\ IsHolder(c, k)
    /\ Age(c, k) >= Renew
    /\ left' = [left EXCEPT ![k] = Expiry(c, lag)]
    /\ refreshed' = refreshed \cup WaitingFor(k)
    /\ UNCHANGED <<owner, pc, held, patience>>

\* fn returned or threw.
Finish(c) ==
    /\ pc[c] = "running"
    /\ pc' = [pc EXCEPT ![c] = "releasing"]
    /\ UNCHANGED <<owner, left, held, patience, refreshed>>

\* The innermost finally block: stop the heartbeat and DELETE our row.  A
\* failed DELETE is logged and leaves a row that nobody renews.
Release(c, k) ==
    /\ pc[c] \in {"releasing", "timedout"}
    /\ k \in held[c] /\ \A j \in held[c] : j <= k
    /\ held' = [held EXCEPT ![c] = @ \ {k}]
    /\ IF IsHolder(c, k)
       THEN \/ /\ owner' = [owner EXCEPT ![k] = None]
               /\ left' = [left EXCEPT ![k] = Floor]
            \/ /\ owner' = [owner EXCEPT ![k] = Orphan]
               /\ UNCHANGED left
       ELSE UNCHANGED <<owner, left>>
    /\ UNCHANGED <<pc, patience, refreshed>>

\* The outermost promise settles.
Return(c) ==
    /\ pc[c] \in {"releasing", "timedout"} /\ held[c] = {}
    /\ pc' = [pc EXCEPT ![c] = "idle"]
    /\ patience' = [patience EXCEPT ![c] = 0]
    /\ UNCHANGED <<owner, left, held, refreshed>>

\* The function is killed (the platform's execution limit): rows stay.
Crash(c) ==
    /\ pc[c] # "idle"
    /\ pc' = [pc EXCEPT ![c] = "idle"]
    /\ owner' = [k \in Keys |-> IF owner[k] = c THEN Orphan ELSE owner[k]]
    /\ held' = [held EXCEPT ![c] = {}]
    /\ patience' = [patience EXCEPT ![c] = 0]
    /\ UNCHANGED <<left, refreshed>>

-----------------------------------------------------------------------------
(* Time.                                                                   *)

\* Timing under which no lease of a live holder lapses: renewals land within
\* MaxGap, and the lease covers that gap and the clock skew.
InTime ==
    /\ ~MayStall
    /\ Latency <= MaxGap
    /\ MaxGap + MaxSkew <= Lease

\* The acquire timeout is "just over one lease": it outlasts a lease minted on
\* the fastest clock, judged by a statement whose time is Latency old.
OutlastsLease == Timeout > Lease + MaxSkew + Latency

\* A live holder's renewal does not come later than MaxGap.
Overdue(c, k) == k \in held[c] /\ owner[k] = c /\ Age(c, k) >= MaxGap

Tick ==
    /\ MayStall \/ ~\E c \in Callers, k \in Keys : Overdue(c, k)
    /\ left' = [k \in Keys |-> IF left[k] > Floor THEN left[k] - 1 ELSE Floor]
    /\ patience' = [c \in Callers |-> IF patience[c] > 0 THEN patience[c] - 1
                                      ELSE 0]
    /\ left' # left \/ patience' # patience
    /\ UNCHANGED <<owner, pc, held, refreshed>>

Try(c) == \E k \in Needs[c], lag \in 0..Latency : Take(c, k, lag) \/ GiveUp(c, k, lag)

Next ==
    \/ \E c \in Callers :
        \/ Request(c) \/ Try(c) \/ Finish(c) \/ Return(c) \/ Crash(c)
        \/ \E k \in Keys : Release(c, k)
        \/ \E k \in Keys, lag \in 0..Latency : Heartbeat(c, k, lag)
    \/ Tick

Spec == Init /\ [][Next]_vars

\* Waiting callers poll, operations end, finally blocks run, heartbeats fire
\* and time passes.  Calls need not be made and nothing need crash.
Fairness ==
    /\ \A c \in Callers :
        /\ WF_vars(Try(c)) /\ WF_vars(Finish(c)) /\ WF_vars(Return(c))
        /\ WF_vars(\E k \in Keys : Release(c, k))
        /\ \A k \in Keys : WF_vars(\E lag \in 0..Latency : Heartbeat(c, k, lag))
    /\ WF_vars(Tick)

FairSpec == Spec /\ Fairness

-----------------------------------------------------------------------------
(* Properties.                                                             *)

\* The rows of a holder that renews in time are its own: no lock is held by
\* two calls, across instances with skewed clocks and delayed statements.
MutualExclusion ==
    \A c, d \in Callers : c # d => held[c] \cap held[d] = {}

\* A lock a call holds is backed by an unexpired row in its name: the doc's
\* "never has its lock taken over mid-write".
HolderKeepsRow ==
    \A c \in Callers : \A k \in held[c] : owner[k] = c

\* No set of calls waits in a circle, each for a row of another: locking
\* several repositories at once cannot deadlock two calls until their
\* acquire timeouts.
WaitsOn(c, d) == \E k \in Keys : d # c /\ c \in WaitingFor(k) /\ owner[k] = d
NoWaitCycle ==
    \A S \in (SUBSET Callers) \ {{}} : \E c \in S : \A d \in S : ~WaitsOn(c, d)

\* A waiter outlasts the lease of a dead holder: an acquire times out only if
\* somebody else took or renewed the row while it waited.
TimeoutMeansContention ==
    \A c \in Callers : pc[c] = "timedout" => c \in refreshed

\* Whatever stalls, the row of a call that still holds the lock changes
\* hands only after it lapsed on some clock: a stalled holder that comes back
\* after another took its row does not delete, when it releases, the row of that
\* successor (heldBy).
RowsTakenOnlyWhenLapsed ==
    [][\A c \in Callers : \A k \in held[c] \cap held'[c] :
        owner[k] = c /\ owner'[k] # c => left[k] < MaxSkew]_vars

\* Every acquire ends, by entering or by timing out.
AcquireEnds == \A c \in Callers : pc[c] = "waiting" ~> pc[c] # "waiting"

\* The abstract lock: the calls whose fn is running.
Running == {c \in Callers : pc[c] = "running"}
Mutex == INSTANCE RepoMutex WITH running <- Running
MutexSpec == Mutex!Spec

=============================================================================
