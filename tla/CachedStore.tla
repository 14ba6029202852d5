----------------------------- MODULE CachedStore -----------------------------
(***************************************************************************)
(* The read cache over the object store, createCachedStore of              *)
(* packages/git-fs-s3/src/cache.ts, in one instance and with the options   *)
(* apps/web/src/server/git-fs.ts gives it: misses and listings are cached, *)
(* and concurrent reads of one thing share a backend call.                 *)
(*                                                                         *)
(* Everything between two awaits is one step.  All keys lie under the one  *)
(* prefix that is listed and invalidated.  A slice is told apart from the  *)
(* whole object but has its value, and so has a head.  Entries that        *)
(* outlive their TTL, lose to the LRU, or are too large to admit are gone  *)
(* by Evict.                                                               *)
(*                                                                         *)
(* The generation counter is compared with its value at the start of a     *)
(* read only, so all that matters of it is whether it moved since: clean.  *)
(***************************************************************************)
EXTENDS FiniteSets, Null

CONSTANTS
    Keys,           \* object keys
    Values,         \* contents
    Unknown,        \* no cached entry
    Readers,        \* slots of get, head, list and getRange calls
    Writers,        \* slots of put and delete calls
    Asked           \* the reads a run makes, among Targets

ListOps == {"list", "probe"}
Targets == [op : {"get", "head", "range"}, key : Keys]
               \cup [op : ListOps, key : {None}]

ASSUME CacheAssumption ==
    /\ None # Unknown
    /\ {None, Unknown} \cap (Keys \cup Values \cup Readers) = {}
    /\ \A s \in SUBSET Keys : s # Unknown
    /\ \A t \in Targets : t # None
    /\ Asked \subseteq Targets

Contents == Values \cup {None}

VARIABLES
    stored,         \* what the backend holds
    whole,          \* cache: whole objects and misses
    slice,          \* rangeCache
    lists,          \* listCache: the full listing and the limit-1 probe
    pending,        \* pending[t]: the reader whose backend call may be joined
    pc,             \* where each read is
    ask,            \* what it reads
    lead,           \* the reader whose backend call answers it
    got,            \* the answer
    clean,          \* the generation has not moved since its call began
    since,          \* history: since[r][k], contents k had while r ran, or
                    \* may have had to r because a change was under way
    wpc,            \* where each write is
    wkey,           \* the key it writes
    wval,           \* what it puts; None for delete
    bypass,         \* a storage-level operation runs past the cache
    old             \* history: old[k], contents k had since the change that
                    \* is under way began

cached == <<whole, slice, lists>>
reads == <<pc, ask, lead, got>>
writes == <<wpc, wkey, wval>>
vars == <<stored, cached, pending, reads, clean, since, writes, bypass, old>>

\* Listings are sets of keys, other answers are contents.
ListsOK ==
    /\ DOMAIN lists = ListOps
    /\ \A o \in ListOps : lists[o] = Unknown \/ lists[o] \subseteq Keys
Lists(r) == ask[r] # None /\ ask[r].op \in ListOps /\ pc[r] \in {"read", "done"}
GotOK ==
    /\ DOMAIN got = Readers
    /\ \A r \in Readers : IF Lists(r) THEN got[r] \subseteq Keys ELSE got[r] \in Contents

TypeOK ==
    /\ stored \in [Keys -> Contents]
    /\ whole \in [Keys -> Contents \cup {Unknown}]
    /\ slice \in [Keys -> Values \cup {Unknown}]
    /\ ListsOK
    /\ pending \in [Targets -> Readers \cup {None}]
    /\ pc \in [Readers -> {"idle", "reading", "read", "joined", "done"}]
    /\ ask \in [Readers -> Targets \cup {None}]
    /\ lead \in [Readers -> Readers \cup {None}]
    /\ GotOK
    /\ clean \in [Readers -> BOOLEAN]
    /\ since \in [Readers -> [Keys -> SUBSET Contents]]
    /\ wpc \in [Writers -> {"idle", "sent", "landed"}]
    /\ wkey \in [Writers -> Keys \cup {None}]
    /\ wval \in [Writers -> Contents]
    /\ bypass \in BOOLEAN
    /\ old \in [Keys -> SUBSET Contents]

Nothing == [k \in Keys |-> {}]

Init ==
    /\ stored \in [Keys -> Contents]
    /\ whole = [k \in Keys |-> Unknown]
    /\ slice = [k \in Keys |-> Unknown]
    /\ lists = [o \in ListOps |-> Unknown]
    /\ pending = [t \in Targets |-> None]
    /\ pc = [r \in Readers |-> "idle"]
    /\ ask = [r \in Readers |-> None]
    /\ lead = [r \in Readers |-> None]
    /\ got = [r \in Readers |-> None]
    /\ clean = [r \in Readers |-> FALSE]
    /\ since = [r \in Readers |-> Nothing]
    /\ wpc = [w \in Writers |-> "idle"]
    /\ wkey = [w \in Writers |-> None]
    /\ wval = [w \in Writers |-> None]
    /\ bypass = FALSE
    /\ old = [k \in Keys |-> {stored[k]}]

------------------------------------------------------------------------------
(* Reads                                                                   *)

Present == {k \in Keys : stored[k] # None}

\* What the backend may answer.
Views(t) ==
    IF t.op = "list" THEN {Present}
    ELSE IF t.op = "probe"
         THEN IF Present = {} THEN {{}} ELSE {{k} : k \in Present}
         ELSE {stored[t.key]}

\* What the cache answers: Unknown when it has to ask.
Hit(t) ==
    IF t.op \in ListOps THEN lists[t.op]
    ELSE IF t.op = "range" /\ whole[t.key] \notin Values THEN slice[t.key]
         ELSE whole[t.key]

Running(r) == pc[r] \in {"reading", "read", "joined"}

(* A hit.                                                                  *)
Serve(r, t) ==
    /\ pc[r] = "idle" /\ Hit(t) # Unknown
    /\ pc' = [pc EXCEPT ![r] = "done"]
    /\ ask' = [ask EXCEPT ![r] = t]
    /\ got' = [got EXCEPT ![r] = Hit(t)]
    /\ since' = [since EXCEPT ![r] = old]
    /\ UNCHANGED <<stored, cached, pending, lead, clean, writes, bypass, old>>

(* A miss while another reader's call for the same thing is out.           *)
Join(r, t) ==
    /\ pc[r] = "idle" /\ Hit(t) = Unknown /\ pending[t] # None
    /\ pc' = [pc EXCEPT ![r] = "joined"]
    /\ ask' = [ask EXCEPT ![r] = t]
    /\ lead' = [lead EXCEPT ![r] = pending[t]]
    /\ since' = [since EXCEPT ![r] = old]
    /\ UNCHANGED <<stored, cached, pending, got, clean, writes, bypass, old>>

(* A miss: ask the backend.                                                *)
Start(r, t) ==
    /\ pc[r] = "idle" /\ Hit(t) = Unknown /\ pending[t] = None
    /\ pc' = [pc EXCEPT ![r] = "reading"]
    /\ ask' = [ask EXCEPT ![r] = t]
    /\ lead' = [lead EXCEPT ![r] = r]
    /\ clean' = [clean EXCEPT ![r] = TRUE]
    /\ pending' = [pending EXCEPT ![t] = r]
    /\ since' = [since EXCEPT ![r] = old]
    /\ UNCHANGED <<stored, cached, got, writes, bypass, old>>

(* The backend answers; the answer is on its way.                          *)
Fetch(r) ==
    /\ pc[r] = "reading"
    /\ \E a \in Views(ask[r]) : got' = [got EXCEPT ![r] = a]
    /\ pc' = [pc EXCEPT ![r] = "read"]
    /\ UNCHANGED <<stored, cached, pending, ask, lead, clean, since, writes,
                   bypass, old>>

\* Mutant of MayAdmit: the generation is not compared.
MayAdmitAlways(r) == TRUE

\* unchangedSince: no write was noted since r's call began.
MayAdmit(r) == clean[r]

\* What an answer to t leaves in the cache.
KeepsWhole(t, a) == t.op = "get" \/ (t.op = "head" /\ a = None)
KeepsSlice(t, a) == t.op = "range" /\ a # None
KeepsList(t) == t.op \in ListOps

\* The call of r is over: no later read joins it.
Unpend(r) == pending' = [t \in Targets |-> IF pending[t] = r THEN None ELSE pending[t]]

\* r and the readers that joined it.
Crowd(r) == {s \in Readers : lead[s] = r}

(* The answer arrives: cache it if it may be, and answer everyone.         *)
Settle(r) ==
    /\ pc[r] = "read"
    /\ LET t == ask[r]
       IN  /\ whole' = IF MayAdmit(r) /\ KeepsWhole(t, got[r])
                       THEN [whole EXCEPT ![t.key] = got[r]] ELSE whole
           /\ slice' = IF MayAdmit(r) /\ KeepsSlice(t, got[r])
                       THEN [slice EXCEPT ![t.key] = got[r]] ELSE slice
           /\ lists' = IF MayAdmit(r) /\ KeepsList(t)
                       THEN [lists EXCEPT ![t.op] = got[r]] ELSE lists
    /\ Unpend(r)
    /\ pc' = [s \in Readers |-> IF s \in Crowd(r) THEN "done" ELSE pc[s]]
    /\ got' = [s \in Readers |-> IF s \in Crowd(r) THEN got[r] ELSE got[s]]
    /\ lead' = [s \in Readers |-> IF s \in Crowd(r) THEN None ELSE lead[s]]
    /\ clean' = [clean EXCEPT ![r] = FALSE]
    /\ UNCHANGED <<stored, ask, since, writes, bypass, old>>

\* The slots in gone are free again.
Free(gone) ==
    /\ pc' = [s \in Readers |-> IF s \in gone THEN "idle" ELSE pc[s]]
    /\ ask' = [s \in Readers |-> IF s \in gone THEN None ELSE ask[s]]
    /\ lead' = [s \in Readers |-> IF s \in gone THEN None ELSE lead[s]]
    /\ got' = [s \in Readers |-> IF s \in gone THEN None ELSE got[s]]
    /\ clean' = [s \in Readers |-> s \notin gone /\ clean[s]]
    /\ since' = [s \in Readers |-> IF s \in gone THEN Nothing ELSE since[s]]

(* The backend call fails, for everyone who joined it.                     *)
FailRead(r) ==
    /\ pc[r] = "reading"
    /\ Unpend(r)
    /\ Free(Crowd(r))
    /\ UNCHANGED <<stored, cached, writes, bypass, old>>

Return(r) ==
    /\ pc[r] = "done"
    /\ Free({r})
    /\ UNCHANGED <<stored, cached, pending, writes, bypass, old>>

------------------------------------------------------------------------------
(* Writes                                                                  *)

Changing(k) == bypass \/ \E w \in Writers : wpc[w] # "idle" /\ wkey[w] = k
Quiet == ~bypass /\ \A w \in Writers : wpc[w] = "idle"

\* The generation moves.
Bump == clean' = [r \in Readers |-> FALSE]

\* Mutant of Forgets: a read that is under way may still be joined.
ForgetsNothing(t, k) == FALSE

\* Whether noteWrite(k) forgets the pending read t.
Forgets(t, k) == t.key = k
ForgetsList(t) == t.op \in ListOps

\* k gets contents c, while every running read looks on.
Change(k, c) ==
    /\ stored' = [stored EXCEPT ![k] = c]
    /\ old' = [old EXCEPT ![k] = @ \cup {c}]
    /\ since' = [r \in Readers |-> IF Running(r)
                    THEN [since[r] EXCEPT ![k] = @ \cup {c}] ELSE since[r]]

(* put or delete begins.  The caller holds the repository lock: no two     *)
(* changes of one key overlap.                                             *)
BeginWrite(w, k, c) ==
    /\ wpc[w] = "idle" /\ ~Changing(k)
    /\ wpc' = [wpc EXCEPT ![w] = "sent"]
    /\ wkey' = [wkey EXCEPT ![w] = k]
    /\ wval' = [wval EXCEPT ![w] = c]
    /\ Bump
    /\ pending' = [t \in Targets |-> IF Forgets(t, k) THEN None ELSE pending[t]]
    /\ slice' = [slice EXCEPT ![k] = Unknown]
    /\ UNCHANGED <<stored, whole, lists, reads, since, bypass, old>>

Land(w) ==
    /\ wpc[w] = "sent"
    /\ wpc' = [wpc EXCEPT ![w] = "landed"]
    /\ Change(wkey[w], wval[w])
    /\ UNCHANGED <<cached, pending, reads, clean, wkey, wval, bypass>>

\* Mutant of KeptList: no listing is dropped.
KeptListAll(o) == lists[o]

\* clearStaleListEntries: what stays of a cached listing.
KeptList(o) == IF o = "probe" /\ lists[o] # {} THEN lists[o] ELSE Unknown

\* The write is over, and e is what is cached for its key now.
Over(w, e) ==
    LET k == wkey[w]
    IN  /\ Bump
        /\ pending' = [t \in Targets |-> IF Forgets(t, k) \/ ForgetsList(t)
                                         THEN None ELSE pending[t]]
        /\ slice' = [slice EXCEPT ![k] = Unknown]
        /\ whole' = [whole EXCEPT ![k] = e]
        /\ lists' = [o \in ListOps |-> KeptList(o)]
        /\ old' = [old EXCEPT ![k] = {stored[k]}]
        /\ wpc' = [wpc EXCEPT ![w] = "idle"]
        /\ wkey' = [wkey EXCEPT ![w] = None]
        /\ wval' = [wval EXCEPT ![w] = None]
        /\ UNCHANGED <<stored, reads, since, bypass>>

EndWrite(w) == wpc[w] = "landed" /\ Over(w, wval[w])

(* The put or delete throws, whether or not it landed.                     *)
FailWrite(w) == wpc[w] # "idle" /\ Over(w, Unknown)

------------------------------------------------------------------------------
(* Storage-level operations (deleteRepoStorage, forkRepoGitStorage,        *)
(* transferRepoStorage): they change the backend past the cache, under the *)
(* repository lock, and invalidate the prefix when they are done.          *)

Bypass ==
    /\ Quiet
    /\ bypass' = TRUE
    /\ UNCHANGED <<stored, cached, pending, reads, clean, since, writes, old>>

ChangePast(k, c) ==
    /\ bypass
    /\ Change(k, c)
    /\ UNCHANGED <<cached, pending, reads, clean, writes, bypass>>

Invalidate ==
    /\ bypass
    /\ bypass' = FALSE
    /\ Bump
    /\ pending' = [t \in Targets |-> None]
    /\ whole' = [k \in Keys |-> Unknown]
    /\ slice' = [k \in Keys |-> Unknown]
    /\ lists' = [o \in ListOps |-> Unknown]
    /\ old' = [k \in Keys |-> {stored[k]}]
    /\ UNCHANGED <<stored, reads, since, writes>>

(* An entry expires or is evicted.                                         *)
Evict ==
    /\ \/ /\ \E k \in Keys : whole' = [whole EXCEPT ![k] = Unknown]
          /\ UNCHANGED <<slice, lists>>
       \/ /\ \E k \in Keys : slice' = [slice EXCEPT ![k] = Unknown]
          /\ UNCHANGED <<whole, lists>>
       \/ /\ \E o \in ListOps : lists' = [lists EXCEPT ![o] = Unknown]
          /\ UNCHANGED <<whole, slice>>
    /\ UNCHANGED <<stored, pending, reads, clean, since, writes, bypass, old>>

Next ==
    \/ \E r \in Readers :
          \/ \E t \in Asked : Serve(r, t) \/ Join(r, t) \/ Start(r, t)
          \/ Fetch(r) \/ Settle(r) \/ FailRead(r) \/ Return(r)
    \/ \E w \in Writers :
          \/ \E k \in Keys, c \in Contents : BeginWrite(w, k, c)
          \/ Land(w) \/ EndWrite(w) \/ FailWrite(w)
    \/ Bypass \/ (\E k \in Keys, c \in Contents : ChangePast(k, c)) \/ Invalidate
    \/ Evict

Spec == Init /\ [][Next]_vars

------------------------------------------------------------------------------
(* Properties                                                              *)

\* When no change of a key is under way, what is cached of it is what is
\* stored: no read that began before a write leaves its answer behind.
CacheMatches ==
    \A k \in Keys : ~Changing(k) =>
        /\ whole[k] \in {Unknown, stored[k]}
        /\ slice[k] \in {Unknown, stored[k]}

\* The same for a full listing, and for a probe that found nothing.
ListsMatch ==
    Quiet => /\ lists["list"] \in {Unknown, Present}
             /\ lists["probe"] = {} => Present = {}

\* Whether a answers t, if key k may have had any contents in poss[k].  Of a
\* probe that found something it says nothing.
Plausible(t, a, poss) ==
    IF t.op = "list"
    THEN \A k \in Keys : IF k \in a THEN poss[k] \ {None} # {} ELSE None \in poss[k]
    ELSE IF t.op = "probe" THEN a = {} => \A k \in Keys : None \in poss[k]
    ELSE a \in poss[t.key]

\* Every answer, from the cache, from a shared call or from the backend, was
\* true at some moment of the read, or of a change then under way.
RegularReads ==
    \A r \in Readers : pc[r] = "done" => Plausible(ask[r], got[r], since[r])

==============================================================================
