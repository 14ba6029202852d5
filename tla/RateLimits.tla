----------------------------- MODULE RateLimits -----------------------------
(***************************************************************************)
(* The counters of the rate limiter, rate-limit.ts of apps/web: a table    *)
(* that every instance of the server shares, advanced by one statement per *)
(* request, and what each instance keeps beside it: when it pruned last,   *)
(* the longest window it has seen, and the buckets it has seen exhausted.  *)
(*                                                                         *)
(* The table holds two families of keys: Better Auth's, each with a window *)
(* of its own, and those of the API and git, which share one window and    *)
(* count points.  The clock ticks more than once a second, since resets    *)
(* are whole seconds.  An instance's clock is the database's: their skew,  *)
(* and a database that fails, when requests are served uncounted, are left *)
(* out.                                                                    *)
(***************************************************************************)
EXTENDS Integers, Null

CONSTANTS
    Instances,      \* of the server
    AuthKeys,       \* Better Auth's keys
    RequestKeys,    \* keys of the API and git
    Second,         \* the ticks of the clock in a second
    Window,         \* Window[k]: the window of key k's rule, in ticks
    Limit,          \* Limit[k]: what it allows
    Amounts,        \* what one request may cost
    PruneInterval,  \* between prunes of an instance
    MaxNow,         \* bound: the time that passes
    MaxCount        \* bound: MaxCount[k]: what is counted on key k

RateKeys == AuthKeys \cup RequestKeys

ASSUME RateAssumption ==
    /\ AuthKeys \cap RequestKeys = {}
    /\ Window \in [RateKeys -> Nat \ {0}] /\ Limit \in [RateKeys -> Nat \ {0}]
    /\ \A k, l \in RequestKeys : Window[k] = Window[l]
    /\ Amounts \subseteq Nat \ {0} /\ 1 \in Amounts
    /\ Second \in Nat \ {0}
    /\ {PruneInterval, MaxNow} \subseteq Nat /\ MaxCount \in [RateKeys -> Nat]
    /\ None \notin Nat /\ None \notin [count : Nat, start : Nat]

VARIABLES
    now,            \* the database's clock
    counter,        \* counter[k]: the row of key k, or None
    longest,        \* longest[i]: longestWindowSeconds of instance i
    prunedAt,       \* prunedAt[i]: lastPrunedAt of i, or None when the interval is over
    pruning,        \* pruning[i]: the window that i's statement under way prunes
                    \* Better Auth's keys by, or None
    exhausted,      \* exhausted[i][k]: the second in which the bucket k that i
                    \* remembers resets, or None
    ledger,         \* history: what the counters would be if none were pruned
    spent,          \* history: when the last window of k to be exhausted ends, or None
    served,         \* history: Better Auth's keys with a window no longer than one
                    \* that i has served since it started
    sent,           \* history: those when it sent its prune
    cut             \* history: keys a prune took while they counted, of a longer
                    \* window than any its instance had served

rateVars ==
    <<now, counter, longest, prunedAt, pruning, exhausted, ledger, spent, served, sent, cut>>

Counters == [count : Nat, start : Nat] \cup {None}

RateTypeOK ==
    /\ now \in 0..MaxNow
    /\ counter \in [RateKeys -> Counters] /\ ledger \in [RateKeys -> Counters]
    /\ longest \in [Instances -> Nat]
    /\ prunedAt \in [Instances -> Nat \cup {None}]
    /\ pruning \in [Instances -> Nat \cup {None}]
    /\ exhausted \in [Instances -> [RequestKeys -> Nat \cup {None}]]
    /\ spent \in [RequestKeys -> Nat \cup {None}]
    /\ served \in [Instances -> SUBSET AuthKeys] /\ sent \in [Instances -> SUBSET AuthKeys]
    /\ cut \in SUBSET AuthKeys

RateInit ==
    /\ now = 0
    /\ counter = [k \in RateKeys |-> None] /\ ledger = [k \in RateKeys |-> None]
    /\ longest = [i \in Instances |-> 0]
    /\ prunedAt = [i \in Instances |-> None]
    /\ pruning = [i \in Instances |-> None]
    /\ exhausted = [i \in Instances |-> [k \in RequestKeys |-> None]]
    /\ spent = [k \in RequestKeys |-> None]
    /\ served = [i \in Instances |-> {}] /\ sent = [i \in Instances |-> {}]
    /\ cut = {}

-----------------------------------------------------------------------------

\* The interval since the last prune of i is over.
MayPruneAgain(i, time) == prunedAt[i] = None \/ prunedAt[i] + PruneInterval <= time

Elapses ==
    /\ now < MaxNow
    /\ now' = now + 1
    /\ prunedAt' = [i \in Instances |->
                       IF MayPruneAgain(i, now') THEN None ELSE prunedAt[i]]
    /\ UNCHANGED <<counter, longest, pruning, exhausted, ledger, spent, served, sent, cut>>

\* A row whose window is over starts a new one, another counts on.
WindowOver(row, window) == row = None \/ row.start + window <= now

\* The insert that updates on conflict.
Counted(row, window, amount) ==
    IF row = None THEN [count |-> amount, start |-> now]
    ELSE IF row.start + window <= now THEN [count |-> amount, start |-> now]
    ELSE [row EXCEPT !.count = @ + amount]

Count(k, amount) ==
    /\ Counted(counter[k], Window[k], amount).count <= MaxCount[k]
    /\ counter' = [counter EXCEPT ![k] = Counted(@, Window[k], amount)]
    /\ ledger' = [ledger EXCEPT ![k] = Counted(@, Window[k], amount)]
    /\ cut' = IF WindowOver(counter[k], Window[k]) /\ WindowOver(ledger[k], Window[k])
              THEN cut \ {k} ELSE cut

\* Each instance prunes once an interval, after a request was counted, by the
\* longest window any rule it served has needed.
MayPrune(i, window) ==
    IF ~MayPruneAgain(i, now)
    THEN UNCHANGED <<prunedAt, pruning, sent>>
    ELSE /\ prunedAt' = [prunedAt EXCEPT ![i] = now]
         /\ pruning' = [pruning EXCEPT ![i] = window]
         /\ sent' = [sent EXCEPT ![i] = served'[i]]

\* Mutant of HighWater: each rule prunes by its own window.
OwnWindow(i, k) == Window[k]

HighWater(i, k) == IF longest[i] < Window[k] THEN Window[k] ELSE longest[i]

\* A request of Better Auth.
ConsumeAuth(i, k) ==
    /\ k \in AuthKeys
    /\ Count(k, 1)
    /\ longest' = [longest EXCEPT ![i] = HighWater(i, k)]
    /\ served' = [served EXCEPT ![i] = @ \cup {l \in AuthKeys : Window[l] <= Window[k]}]
    /\ MayPrune(i, HighWater(i, k))
    /\ UNCHANGED <<now, exhausted, spent>>

\* A bucket that the instance has seen exhausted is denied from memory until the
\* second of its reset; then it is forgotten.
KnownExhausted(i, k) == exhausted[i][k] # None /\ exhausted[i][k] > now \div Second

EndOf(row, k) == row.start + Window[k]

\* A time as the nearest whole second: a cast to bigint rounds.
Rounded(time) == (time + Second \div 2) \div Second

\* Mutant of ResetOf: the window is measured from the request that spent it.
ResetOfRequest(k) == Rounded(now + Window[k])

\* The window's end, as the statement returns it.
ResetOf(k) == Rounded(EndOf(counter'[k], k))

HitRateLimit(i, k, amount) ==
    /\ k \in RequestKeys /\ ~KnownExhausted(i, k)
    /\ Count(k, amount)
    /\ exhausted' = [exhausted EXCEPT ![i][k] =
                        IF counter'[k].count > Limit[k] THEN ResetOf(k) ELSE None]
    /\ spent' = [spent EXCEPT ![k] =
                    IF ledger'[k].count > Limit[k] THEN EndOf(ledger'[k], k) ELSE @]
    /\ UNCHANGED <<now, longest, served>>
    /\ MayPrune(i, longest[i])

\* Mutant of Expired: Better Auth's window prunes every key.
ExpiredAny(k, window) ==
    counter[k] # None /\ window > 0 /\ counter[k].start < now - window

\* Each family by its own window.
Expired(k, window) ==
    /\ counter[k] # None
    /\ \/ k \in RequestKeys /\ counter[k].start < now - Window[k]
       \/ k \in AuthKeys /\ window > 0 /\ counter[k].start < now - window

\* A key whose window is longer than any instance i had served when it sent its
\* prune, though it had served some.
Unseen(i, k) == sent[i] # {} /\ \A l \in sent[i] : Window[l] < Window[k]

PruneLands(i) ==
    /\ pruning[i] # None
    /\ counter' = [k \in RateKeys |-> IF Expired(k, pruning[i]) THEN None ELSE counter[k]]
    /\ pruning' = [pruning EXCEPT ![i] = None]
    /\ cut' = cut \cup {k \in AuthKeys : /\ counter'[k] # counter[k] /\ Unseen(i, k)
                                        /\ ~WindowOver(counter[k], Window[k])}
    /\ sent' = [sent EXCEPT ![i] = {}]
    /\ UNCHANGED <<now, longest, prunedAt, exhausted, ledger, spent, served>>

\* A prune that fails is logged.
PruneFails(i) ==
    /\ pruning[i] # None
    /\ pruning' = [pruning EXCEPT ![i] = None]
    /\ sent' = [sent EXCEPT ![i] = {}]
    /\ UNCHANGED <<now, counter, longest, prunedAt, exhausted, ledger, spent, served, cut>>

\* A cold start: the instance begins with an empty memory.
Restart(i) ==
    /\ longest' = [longest EXCEPT ![i] = 0]
    /\ prunedAt' = [prunedAt EXCEPT ![i] = None]
    /\ exhausted' = [exhausted EXCEPT ![i] = [k \in RequestKeys |-> None]]
    /\ served' = [served EXCEPT ![i] = {}]
    /\ UNCHANGED <<now, counter, pruning, ledger, spent, sent, cut>>

RateNext ==
    \/ Elapses
    \/ \E i \in Instances :
          \/ \E k \in RateKeys : ConsumeAuth(i, k) \/ \E n \in Amounts : HitRateLimit(i, k, n)
          \/ PruneLands(i) \/ PruneFails(i) \/ Restart(i)

RateSpec == RateInit /\ [][RateNext]_rateVars

-----------------------------------------------------------------------------
(* Properties                                                              *)

\* Every key is counted as if none were pruned, except one of Better Auth that a
\* prune cut short because its instance, when it sent it, had since its cold start
\* served shorter windows only: so the API's buckets always ("one family's short
\* window never deletes the other's live buckets"), and a rule an instance has
\* served by all prunes it sends from then on, however late they land.
CountedUnlessCut ==
    \A k \in RateKeys \ cut : ~WindowOver(ledger[k], Window[k]) => counter[k] = ledger[k]

\* What an instance denies from memory is a bucket whose limit was exceeded in a
\* window that still runs, or that ended less than half a second ago, whatever
\* the table has begun to count since (knownExhausted).
MemoryEndsInTime ==
    \A i \in Instances, k \in RequestKeys :
       KnownExhausted(i, k) => spent[k] # None /\ 2 * now < 2 * spent[k] + Second
=============================================================================
