----------------------------- MODULE InstanceRefs -----------------------------
(***************************************************************************)
(* A ref, written under the repository lock by instances that each read it *)
(* through a cache of their own: apps/web/src/server/git-fs.ts (the cache  *)
(* and its TTL for refs), git-http.ts and git-write.ts (the writers).      *)
(*                                                                         *)
(* A cached ref is forgotten after TTL, and at once by the instance that   *)
(* writes it, but nothing tells the other instances, and taking the lock   *)
(* forgets nothing.  CachedStore models the cache in one instance, RepoLock *)
(* the lock: here the lock simply excludes.                                *)
(***************************************************************************)
EXTENDS Naturals

CONSTANTS
    Instances,      \* server instances
    Oids,           \* what the ref may name
    None,           \* ... and that it does not exist, which is cached too
    TTL,            \* STRUCTURE_TTL_MS, in ticks
    MaxRead,        \* bound: ticks a read of the store takes
    Free, Unread    \* nobody; no value claimed or read yet

Values == Oids \cup {None}

\* Every age that counts as old; the ages are capped here.
Settled == TTL + MaxRead

Constants ==
    /\ TTL \in Nat \ {0} /\ MaxRead \in Nat
    /\ Free \notin Instances /\ Unread \notin Values

VARIABLES
    ref,            \* what the store holds
    cached,         \* cached[i]: what instance i has cached,
    life,           \* life[i]: for that many ticks, or 0 for nothing
    reading,        \* reading[i]: i has a read of the store under way,
    answer,         \* answer[i]: which will return this,
    age,            \* age[i]: and began so many ticks ago
    holder,         \* the instance that holds the repository lock, or Free
    step,           \* what it does next
    base,           \* the value its update is based on, or Unread
    quiet,          \* history: ticks since the ref last changed,
    checked         \* history: and what that was when base was last checked

vars == <<ref, cached, life, reading, answer, age, holder, step, base, quiet, checked>>

TypeOK ==
    /\ ref \in Values
    /\ cached \in [Instances -> Values] /\ life \in [Instances -> 0..TTL]
    /\ reading \in [Instances -> BOOLEAN] /\ answer \in [Instances -> Values]
    /\ age \in [Instances -> 0..MaxRead]
    /\ holder \in Instances \cup {Free}
    /\ step \in {"none", "preflight", "check", "write"}
    /\ base \in Values \cup {Unread}
    /\ quiet \in 0..Settled /\ checked \in 0..Settled

Init ==
    /\ ref \in Values
    /\ cached = [i \in Instances |-> None] /\ life = [i \in Instances |-> 0]
    /\ reading = [i \in Instances |-> FALSE] /\ answer = [i \in Instances |-> None]
    /\ age = [i \in Instances |-> 0]
    /\ holder = Free /\ step = "none" /\ base = Unread
    /\ quiet = Settled /\ checked = 0

-----------------------------------------------------------------------------
(* Reads: an advertisement, a page, or a writer that finds nothing cached  *)

StartRead(i) ==
    /\ life[i] = 0 /\ ~reading[i]
    /\ reading' = [reading EXCEPT ![i] = TRUE]
    /\ answer' = [answer EXCEPT ![i] = ref]
    /\ age' = [age EXCEPT ![i] = 0]
    /\ UNCHANGED <<ref, cached, life, holder, step, base, quiet, checked>>

\* What began after the last write of this instance may be cached.
EndRead(i) ==
    /\ reading[i]
    /\ reading' = [reading EXCEPT ![i] = FALSE]
    /\ cached' = [cached EXCEPT ![i] = answer[i]]
    /\ life' = [life EXCEPT ![i] = TTL]
    /\ UNCHANGED <<ref, answer, age, holder, step, base, quiet, checked>>

Evict(i) ==
    /\ life[i] > 0
    /\ life' = [life EXCEPT ![i] = 0]
    /\ UNCHANGED <<ref, cached, reading, answer, age, holder, step, base, quiet, checked>>

Tick ==
    /\ \A i \in Instances : reading[i] => age[i] < MaxRead
    /\ life' = [i \in Instances |-> IF life[i] > 0 THEN life[i] - 1 ELSE 0]
    /\ age' = [i \in Instances |-> IF reading[i] THEN age[i] + 1 ELSE age[i]]
    /\ quiet' = IF quiet < Settled THEN quiet + 1 ELSE quiet
    /\ UNCHANGED <<ref, cached, reading, answer, holder, step, base, checked>>

-----------------------------------------------------------------------------
(* Writers, under the lock                                                 *)

Unlock == holder' = Free /\ step' = "none" /\ base' = Unread

\* A push of one command: the client claims what the ref is.
BeginPush(i, old) ==
    /\ holder = Free
    /\ holder' = i /\ step' = "preflight" /\ base' = old
    /\ UNCHANGED <<ref, cached, life, reading, answer, age, quiet, checked>>

\* A commit made on the web: its parent is what the ref is read to be.
BeginCommit(i) ==
    /\ holder = Free
    /\ holder' = i /\ step' = "check" /\ base' = Unread
    /\ UNCHANGED <<ref, cached, life, reading, answer, age, quiet, checked>>

\* The holder reads the ref, from its cache once that has it.
Reads(i) == holder = i /\ life[i] > 0
CasFails(i) == base \notin {Unread, cached[i]}

Preflight(i) ==
    /\ step = "preflight" /\ Reads(i)
    /\ IF CasFails(i) THEN Unlock ELSE step' = "check" /\ UNCHANGED <<holder, base>>
    /\ UNCHANGED <<ref, cached, life, reading, answer, age, quiet, checked>>

\* Again, when the pack is stored and validated.
Check(i) ==
    /\ step = "check" /\ Reads(i)
    /\ IF CasFails(i)
       THEN Unlock /\ UNCHANGED checked
       ELSE step' = "write" /\ base' = cached[i] /\ checked' = quiet /\ UNCHANGED holder
    /\ UNCHANGED <<ref, cached, life, reading, answer, age, quiet>>

\* A read under way when this instance writes is not cached.
Changed(i) == quiet' = 0 /\ reading' = [reading EXCEPT ![i] = FALSE]

\* writeRef, forced, or deleteRef.
Write(i, new) ==
    /\ step = "write" /\ holder = i
    /\ ref' = new /\ Changed(i)
    /\ cached' = [cached EXCEPT ![i] = new] /\ life' = [life EXCEPT ![i] = TTL]
    /\ Unlock
    /\ UNCHANGED <<answer, age, checked>>

\* The call fails, whether it landed or not; i caches nothing.
WriteFails(i, new) ==
    /\ step = "write" /\ holder = i
    /\ \/ ref' = new /\ Changed(i)
       \/ reading' = [reading EXCEPT ![i] = FALSE] /\ UNCHANGED <<ref, quiet>>
    /\ life' = [life EXCEPT ![i] = 0]
    /\ Unlock
    /\ UNCHANGED <<cached, answer, age, checked>>

Next ==
    \/ Tick
    \/ \E i \in Instances :
          \/ StartRead(i) \/ EndRead(i) \/ Evict(i)
          \/ BeginCommit(i) \/ Preflight(i) \/ Check(i)
          \/ \E v \in Values : BeginPush(i, v) \/ Write(i, v) \/ WriteFails(i, v)

Spec == Init /\ [][Next]_vars

-----------------------------------------------------------------------------

\* No acknowledged update is overwritten unseen: a ref moves only from the value
\* the push claimed or the commit was built on (checkRefCas, writeCommitToBare),
\* whichever instances the writers run on.
MovesFromBase == [][ref' # ref => base = ref]_vars

\* Only an update that was young when the ref was checked can be lost: one at
\* least as old as a cache entry and the read that filled it can live
\* (STRUCTURE_TTL_MS, git-fs.ts).
OldUpdatesAreSeen == [][ref' # ref /\ checked >= Settled => base = ref]_vars
=============================================================================
