---------------------------- MODULE Storage_proofs ----------------------------
(***************************************************************************)
(* Proofs about CachedStore, RepoLifecycle and LooseHints, for any keys and*)
(* contents, repositories and names, objects, and any number of readers,   *)
(* writers, requests and detections.                                       *)
(*                                                                         *)
(* CacheMatches is not inductive: an answer that is on its way may be      *)
(* admitted later.  ReadInv says of it that while it may be admitted or    *)
(* joined it is an answer the contents in old allow, and OldInv that old   *)
(* shrinks to what is stored once no change is under way.  The two writes  *)
(* of the generation matter where old shrinks: there nothing that is on    *)
(* its way may be admitted or joined any more.                             *)
(*                                                                         *)
(* Nor are KeepsContent and OnlyOwnContent.  Content says what is below the*)
(* name of a repository that is not moving, Phases what a request that is  *)
(* not done has stored so far, and KeptClean what earlier renames can have *)
(* left below a name.  RowPart has the reasons why no two requests write   *)
(* below one name: they hold its lock, or it is kept for their repository. *)
(***************************************************************************)
EXTENDS Storage, TLAPS

-----------------------------------------------------------------------------
(* The read cache                                                            *)

ReadOp(r) ==
    \/ \E t \in Asked : Serve(r, t) \/ Join(r, t) \/ Start(r, t)
    \/ Fetch(r) \/ Settle(r) \/ FailRead(r) \/ Return(r)

\* Contents allowed by fewer contents are allowed by more.
LEMMA PlausibleGrows ==
    ASSUME NEW t \in Targets, NEW a, NEW f, NEW g,
           \A k \in Keys : f[k] \subseteq g[k], Plausible(t, a, f)
    PROVE  Plausible(t, a, g)
<1>1. CASE t.op \in ListOps
  BY <1>1 DEF Plausible, ListOps
<1>2. CASE t.key \in Keys /\ t.op \notin ListOps
  BY <1>2 DEF Plausible, ListOps
<1> QED
  BY <1>1, <1>2 DEF Targets, ListOps

\* What the backend answers is allowed by what it holds.
LEMMA ViewsPlausible ==
    ASSUME NEW t \in Targets, NEW a \in Views(t), NEW f,
           \A k \in Keys : stored[k] \in f[k]
    PROVE  Plausible(t, a, f)
<1>1. CASE t.op = "list"
  BY <1>1 DEF Plausible, Views, Present
<1>2. CASE t.op = "probe"
  BY <1>2 DEF Plausible, Views, Present
<1>3. CASE t.key \in Keys /\ t.op \notin ListOps
  BY <1>3 DEF Plausible, Views, ListOps
<1> QED
  BY <1>1, <1>2, <1>3 DEF Targets, ListOps

OldInv ==
    \A k \in Keys :
        /\ stored[k] \in old[k]
        /\ ~Changing(k) => old[k] = {stored[k]}

Listing(o) == [op |-> o, key |-> None]
CacheInv ==
    /\ \A k \in Keys : /\ whole[k] = Unknown \/ whole[k] \in old[k]
                       /\ slice[k] = Unknown \/ slice[k] \in old[k]
    /\ \A o \in ListOps : lists[o] = Unknown \/ Plausible(Listing(o), lists[o], old)

WriteInv ==
    \A w \in Writers : wpc[w] # "idle" =>
        /\ wkey[w] \in Keys /\ ~bypass
        /\ wpc[w] = "landed" => stored[wkey[w]] = wval[w]
        /\ \A v \in Writers : wpc[v] # "idle" /\ wkey[v] = wkey[w] => v = w

Calls(r) == pc[r] \in {"reading", "read"}
LeadInv ==
    /\ \A r \in Readers :
          /\ pc[r] # "idle" => ask[r] \in Targets
          /\ IF Running(r)
             THEN /\ lead[r] \in Readers
                  /\ Calls(lead[r]) /\ ask[lead[r]] = ask[r]
                  /\ Calls(r) => lead[r] = r
             ELSE lead[r] = None
    /\ \A t \in Targets : pending[t] # None =>
          pending[t] \in Readers /\ Calls(pending[t]) /\ ask[pending[t]] = t

Live(r) == clean[r] \/ \E t \in Targets : pending[t] = r
ReadInv ==
    /\ \A r \in Readers : Running(r) => \A k \in Keys : stored[k] \in since[r][k]
    /\ \A r \in Readers : pc[r] = "read" /\ Live(r) => Plausible(ask[r], got[r], old)
    /\ \A r, s \in Readers :
          pc[r] = "read" /\ lead[s] = r => Plausible(ask[r], got[r], since[s])

IInv == TypeOK /\ OldInv /\ CacheInv /\ WriteInv /\ LeadInv /\ ReadInv /\ RegularReads

------------------------------------------------------------------------------
LEMMA TypeStep == TypeOK /\ LeadInv /\ WriteInv /\ [Next]_vars => TypeOK'
<1> SUFFICES ASSUME TypeOK, LeadInv, WriteInv, [Next]_vars PROVE TypeOK'
  OBVIOUS
<1> USE CacheAssumption
<1>1. ASSUME NEW r \in Readers, NEW t \in Asked, Serve(r, t) PROVE TypeOK'
  <2>1. t \in Targets /\ t # None
    OBVIOUS
  <2>2. IF t.op \in ListOps THEN Hit(t) \subseteq Keys ELSE Hit(t) \in Contents
    BY <1>1, <2>1 DEF Serve, Hit, TypeOK, ListsOK, Targets, ListOps, Contents
  <2>3. GotOK'
    BY <1>1, <2>1, <2>2 DEF Serve, TypeOK, GotOK, Lists
  <2> QED
    BY <1>1, <2>1, <2>3 DEF Serve, TypeOK, ListsOK, cached, writes
<1>2. ASSUME NEW r \in Readers, NEW t \in Asked, Join(r, t) PROVE TypeOK'
  BY <1>2 DEF Join, TypeOK, GotOK, ListsOK, Lists, Contents, cached, writes
<1>3. ASSUME NEW r \in Readers, NEW t \in Asked, Start(r, t) PROVE TypeOK'
  BY <1>3 DEF Start, TypeOK, GotOK, ListsOK, Lists, Contents, cached, writes
<1>4. ASSUME NEW r \in Readers, Fetch(r) PROVE TypeOK'
  <2>1. ask[r] \in Targets /\ ask[r] # None
    BY <1>4 DEF Fetch, LeadInv
  <2>2. \A a \in Views(ask[r]) : IF ask[r].op \in ListOps THEN a \subseteq Keys
                                                     ELSE a \in Contents
    BY <2>1 DEF Views, TypeOK, Targets, ListOps, Contents, Present
  <2>3. GotOK'
    BY <1>4, <2>1, <2>2 DEF Fetch, TypeOK, GotOK, Lists
  <2> QED
    BY <1>4, <2>3 DEF Fetch, TypeOK, ListsOK, cached, writes
<1>5. ASSUME NEW r \in Readers, Settle(r) PROVE TypeOK'
  <2> USE DEF Settle
  <2>1. ask[r] \in Targets /\ ask[r] # None
    BY <1>5 DEF LeadInv
  <2>2. IF ask[r].op \in ListOps THEN got[r] \subseteq Keys ELSE got[r] \in Contents
    BY <1>5, <2>1 DEF TypeOK, GotOK, Lists
  <2>3. ask[r].op \notin ListOps => ask[r].key \in Keys
    BY <2>1 DEF Targets, ListOps
  <2>4. GotOK'
    <3>1. \A s \in Crowd(r) : ask[s] = ask[r]
      BY <1>5 DEF LeadInv, Crowd
    <3> QED
      BY <1>5, <2>1, <2>2, <3>1 DEF TypeOK, GotOK, Lists, Crowd
  <2>5. ListsOK'
    BY <1>5, <2>2 DEF TypeOK, ListsOK, KeepsList
  <2>6. whole' \in [Keys -> Contents \cup {Unknown}]
    BY <1>5, <2>2, <2>3 DEF TypeOK, KeepsWhole, ListOps
  <2>7. slice' \in [Keys -> Values \cup {Unknown}]
    BY <1>5, <2>2, <2>3 DEF TypeOK, KeepsSlice, ListOps, Contents
  <2>8. pending' \in [Targets -> Readers \cup {None}]
    BY <1>5 DEF TypeOK, Unpend
  <2> QED
    BY <1>5, <2>4, <2>5, <2>6, <2>7, <2>8 DEF TypeOK, writes
<1>6. ASSUME NEW r \in Readers, FailRead(r) \/ Return(r) PROVE TypeOK'
  <2>1. PICK gone \in SUBSET Readers : Free(gone)
    BY <1>6 DEF FailRead, Return, Crowd
  <2>2. GotOK'
    BY <2>1 DEF Free, TypeOK, GotOK, Lists, Contents
  <2>3. pending' \in [Targets -> Readers \cup {None}]
    BY <1>6 DEF TypeOK, FailRead, Return, Unpend
  <2>4. clean' \in [Readers -> BOOLEAN]
    BY <2>1 DEF TypeOK, Free
  <2>5. since' \in [Readers -> [Keys -> SUBSET Contents]]
    BY <2>1 DEF TypeOK, Free, Nothing
  <2>6. /\ pc' \in [Readers -> {"idle", "reading", "read", "joined", "done"}]
        /\ ask' \in [Readers -> Targets \cup {None}]
        /\ lead' \in [Readers -> Readers \cup {None}]
    BY <2>1 DEF TypeOK, Free
  <2> QED
    BY <1>6, <2>2, <2>3, <2>4, <2>5, <2>6 DEF FailRead, Return, TypeOK, ListsOK, cached, writes
<1>7. ASSUME NEW w \in Writers, NEW k \in Keys, NEW c \in Contents, BeginWrite(w, k, c)
      PROVE TypeOK'
  BY <1>7 DEF BeginWrite, Bump, TypeOK, GotOK, ListsOK, Lists, reads
<1>8. ASSUME NEW w \in Writers, Land(w) PROVE TypeOK'
  BY <1>8 DEF Land, Change, TypeOK, GotOK, ListsOK, Lists, cached, reads, WriteInv
<1>9. ASSUME NEW w \in Writers, EndWrite(w) \/ FailWrite(w) PROVE TypeOK'
  <2>1. PICK e \in Contents \cup {Unknown} : Over(w, e)
    BY <1>9 DEF EndWrite, FailWrite, TypeOK
  <2>2. wkey[w] \in Keys
    BY <1>9 DEF EndWrite, FailWrite, WriteInv
  <2>3. ListsOK'
    BY <2>1 DEF Over, KeptList, TypeOK, ListsOK
  <2>4. GotOK'
    BY <2>1 DEF Over, reads, TypeOK, GotOK, Lists
  <2> QED
    BY <2>1, <2>2, <2>3, <2>4 DEF Over, Bump, TypeOK, reads, Contents
<1>10. ASSUME NEW k \in Keys, NEW c \in Contents, ChangePast(k, c) PROVE TypeOK'
  BY <1>10 DEF ChangePast, Change, TypeOK, GotOK, ListsOK, Lists, cached, reads, writes
<1>11. CASE Bypass
  BY <1>11 DEF Bypass, TypeOK, GotOK, ListsOK, Lists, cached, reads, writes
<1>13. CASE Invalidate
  <2>1. ListsOK'
    BY <1>13 DEF Invalidate, ListsOK
  <2>2. GotOK'
    BY <1>13 DEF Invalidate, reads, TypeOK, GotOK, Lists
  <2>3. old' \in [Keys -> SUBSET Contents]
    BY <1>13 DEF Invalidate, TypeOK
  <2>4. whole' \in [Keys -> Contents \cup {Unknown}] /\ slice' \in [Keys -> Values \cup {Unknown}]
    BY <1>13 DEF Invalidate
  <2> QED
    BY <1>13, <2>1, <2>2, <2>3, <2>4 DEF Invalidate, Bump, TypeOK, reads, writes
<1>14. CASE Evict
  <2>1. ListsOK'
    BY <1>14 DEF Evict, TypeOK, ListsOK
  <2> QED
    BY <1>14, <2>1 DEF Evict, TypeOK, GotOK, Lists, reads, writes
<1>12. CASE UNCHANGED vars
  BY <1>12 DEF vars, TypeOK, GotOK, ListsOK, Lists, cached, reads, writes
<1> QED
  BY <1>1, <1>2, <1>3, <1>4, <1>5, <1>6, <1>7, <1>8, <1>9, <1>10, <1>11, <1>12, <1>13, <1>14
  DEF Next

-------------------------------------------------------------------------------
LEMMA WriteStep == TypeOK /\ WriteInv /\ [Next]_vars => WriteInv'
<1> SUFFICES ASSUME TypeOK, WriteInv, [Next]_vars PROVE WriteInv'
  OBVIOUS
<1>1. ASSUME UNCHANGED <<writes, stored, bypass>> PROVE WriteInv'
  BY <1>1 DEF WriteInv, writes
<1>2. ASSUME NEW r \in Readers, ReadOp(r) PROVE WriteInv'
  BY <1>1, <1>2 DEF ReadOp, Serve, Join, Start, Fetch, Settle, FailRead, Return, writes
<1>3. ASSUME NEW w \in Writers, NEW k \in Keys, NEW c \in Contents, BeginWrite(w, k, c)
      PROVE WriteInv'
  BY <1>3 DEF BeginWrite, WriteInv, TypeOK, Changing
<1>4. ASSUME NEW w \in Writers, Land(w) PROVE WriteInv'
  <2>1. wpc[w] # "idle" /\ wkey[w] \in Keys
    BY <1>4 DEF Land, WriteInv
  <2> QED
    BY <1>4, <2>1 DEF Land, Change, WriteInv, TypeOK
<1>5. ASSUME NEW w \in Writers, NEW e, Over(w, e) PROVE WriteInv'
  BY <1>5 DEF Over, WriteInv, TypeOK
<1>6. ASSUME NEW k \in Keys, NEW c \in Contents, ChangePast(k, c) PROVE WriteInv'
  BY <1>6 DEF ChangePast, WriteInv, writes
<1>7. CASE Bypass
  BY <1>7 DEF Bypass, Quiet, WriteInv, writes
<1>8. CASE Invalidate
  BY <1>8 DEF Invalidate, WriteInv, writes
<1>9. CASE Evict \/ UNCHANGED vars
  BY <1>1, <1>9 DEF Evict, vars
<1> QED
  BY <1>2, <1>3, <1>4, <1>5, <1>6, <1>7, <1>8, <1>9
  DEF Next, ReadOp, EndWrite, FailWrite

LEMMA OldStep == TypeOK /\ WriteInv /\ OldInv /\ [Next]_vars => OldInv'
<1> SUFFICES ASSUME TypeOK, WriteInv, OldInv, [Next]_vars PROVE OldInv'
  OBVIOUS
<1>1. ASSUME UNCHANGED <<writes, stored, bypass, old>> PROVE OldInv'
  BY <1>1 DEF OldInv, Changing, writes
<1>2. ASSUME NEW r \in Readers, ReadOp(r) PROVE OldInv'
  BY <1>1, <1>2 DEF ReadOp, Serve, Join, Start, Fetch, Settle, FailRead, Return
<1>3. ASSUME NEW w \in Writers, NEW k \in Keys, NEW c \in Contents, BeginWrite(w, k, c)
      PROVE OldInv'
  <2>1. \A j \in Keys : Changing(j) => Changing(j)'
    BY <1>3 DEF BeginWrite, Changing, TypeOK
  <2> QED
    BY <1>3, <2>1 DEF BeginWrite, OldInv
<1>4. ASSUME NEW w \in Writers, Land(w) PROVE OldInv'
  <2>1. wkey[w] \in Keys /\ Changing(wkey[w])
    BY <1>4 DEF Land, WriteInv, Changing
  <2>2. \A j \in Keys : Changing(j) => Changing(j)'
    BY <1>4 DEF Land, Changing, TypeOK
  <2> QED
    BY <1>4, <2>1, <2>2 DEF Land, Change, OldInv, TypeOK
<1>5. ASSUME NEW w \in Writers, wpc[w] # "idle", NEW e, Over(w, e) PROVE OldInv'
  <2>1. wkey[w] \in Keys
    BY <1>5 DEF WriteInv
  <2>2. \A j \in Keys \ {wkey[w]} : Changing(j) => Changing(j)'
    BY <1>5 DEF Over, Changing, TypeOK
  <2> QED
    BY <1>5, <2>1, <2>2 DEF Over, OldInv, TypeOK
<1>6. ASSUME NEW k \in Keys, NEW c \in Contents, ChangePast(k, c) PROVE OldInv'
  BY <1>6 DEF ChangePast, Change, OldInv, TypeOK, Changing
<1>7. CASE Bypass
  BY <1>7 DEF Bypass, OldInv, Changing
<1>8. CASE Invalidate
  BY <1>8 DEF Invalidate, OldInv
<1>9. CASE Evict \/ UNCHANGED vars
  BY <1>1, <1>9 DEF Evict, vars
<1> QED
  BY <1>2, <1>3, <1>4, <1>5, <1>6, <1>7, <1>8, <1>9
  DEF Next, ReadOp, EndWrite, FailWrite

\* A plausible listing or contents stay plausible while old grows.
LEMMA CacheGrows ==
    ASSUME TypeOK, CacheInv, UNCHANGED <<whole, slice>>,
           \A o \in ListOps : lists'[o] = lists[o],
           \A k \in Keys : old[k] \subseteq old'[k]
    PROVE  CacheInv'
<1>1. \A o \in ListOps : Listing(o) \in Targets
  BY DEF Listing, Targets
<1>2. \A o \in ListOps : lists[o] = Unknown \/ Plausible(Listing(o), lists[o], old')
  BY <1>1, PlausibleGrows DEF CacheInv
<1> QED
  BY <1>2 DEF CacheInv, Listing, Plausible

LEMMA CacheStep ==
    TypeOK /\ WriteInv /\ LeadInv /\ ReadInv /\ CacheInv /\ [Next]_vars => CacheInv'
<1> SUFFICES ASSUME TypeOK, WriteInv, LeadInv, ReadInv, CacheInv, [Next]_vars
             PROVE  CacheInv'
  OBVIOUS
<1>1. ASSUME UNCHANGED <<cached, old>> PROVE CacheInv'
  BY <1>1, CacheGrows DEF cached
<1>2. ASSUME NEW r \in Readers, Settle(r) PROVE CacheInv'
  <2>1. ask[r] \in Targets
    BY <1>2 DEF Settle, LeadInv
  <2>2. clean[r] => Plausible(ask[r], got[r], old)
    BY <1>2 DEF Settle, ReadInv, Live
  <2>3. ask[r].op \notin ListOps =>
            ask[r].key \in Keys /\ (clean[r] => got[r] \in old[ask[r].key])
    BY <2>1, <2>2 DEF Targets, Plausible, ListOps
  <2>4. ask[r].op \in ListOps => ask[r] = Listing(ask[r].op)
    BY <2>1 DEF Targets, Listing, ListOps
  <2>5. \A k \in Keys : /\ whole'[k] = Unknown \/ whole'[k] \in old[k]
                        /\ slice'[k] = Unknown \/ slice'[k] \in old[k]
    BY <1>2, <2>3 DEF Settle, MayAdmit, KeepsWhole, KeepsSlice, CacheInv, TypeOK, ListOps
  <2>6. \A o \in ListOps : lists'[o] = Unknown \/ Plausible(Listing(o), lists'[o], old)
    BY <1>2, <2>2, <2>4 DEF Settle, MayAdmit, KeepsList, CacheInv, TypeOK, ListsOK, ListOps
  <2>7. UNCHANGED old
    BY <1>2 DEF Settle
  <2> QED
    BY <2>5, <2>6, <2>7 DEF CacheInv, Listing, Plausible
<1>3. ASSUME NEW r \in Readers, ReadOp(r), ~Settle(r) PROVE CacheInv'
  BY <1>1, <1>3 DEF ReadOp, Serve, Join, Start, Fetch, FailRead, Return
<1>4. ASSUME NEW w \in Writers, NEW k \in Keys, NEW c \in Contents, BeginWrite(w, k, c)
      PROVE CacheInv'
  BY <1>4 DEF BeginWrite, CacheInv, TypeOK, Plausible, Listing
<1>5. ASSUME NEW w \in Writers, Land(w) PROVE CacheInv'
  <2>1. \A j \in Keys : old[j] \subseteq old'[j]
    BY <1>5 DEF Land, Change, TypeOK
  <2> QED
    BY <1>5, <2>1, CacheGrows DEF Land, cached
<1>6. ASSUME NEW w \in Writers, EndWrite(w) \/ FailWrite(w) PROVE CacheInv'
  <2>1. PICK e : Over(w, e) /\ (e = Unknown \/ e = stored[wkey[w]])
    BY <1>6 DEF EndWrite, FailWrite, WriteInv
  <2>2. wkey[w] \in Keys
    BY <1>6 DEF EndWrite, FailWrite, WriteInv
  <2>3. \A k \in Keys : /\ whole'[k] = Unknown \/ whole'[k] \in old'[k]
                        /\ slice'[k] = Unknown \/ slice'[k] \in old'[k]
    BY <2>1, <2>2 DEF Over, CacheInv, TypeOK
  <2>4. \A o \in ListOps : lists'[o] = Unknown \/ Plausible(Listing(o), lists'[o], old')
    BY <2>1 DEF Over, KeptList, Plausible, Listing, ListOps
  <2> QED
    BY <2>3, <2>4 DEF CacheInv, Plausible, Listing
<1>7. ASSUME NEW k \in Keys, NEW c \in Contents, ChangePast(k, c) PROVE CacheInv'
  <2>1. \A j \in Keys : old[j] \subseteq old'[j]
    BY <1>7 DEF ChangePast, Change, TypeOK
  <2> QED
    BY <1>7, <2>1, CacheGrows DEF ChangePast, cached
<1>8. CASE Bypass
  BY <1>1, <1>8 DEF Bypass
<1>9. CASE Invalidate
  BY <1>9 DEF Invalidate, CacheInv
<1>10. CASE Evict
  BY <1>10 DEF Evict, CacheInv, TypeOK, ListsOK, Plausible, Listing
<1>11. CASE UNCHANGED vars
  BY <1>1, <1>11 DEF vars
<1> QED
  BY <1>2, <1>3, <1>4, <1>5, <1>6, <1>7, <1>8, <1>9, <1>10, <1>11
  DEF Next, ReadOp

LEMMA LeadStep == TypeOK /\ LeadInv /\ [Next]_vars => LeadInv'
<1> SUFFICES ASSUME TypeOK, LeadInv, [Next]_vars PROVE LeadInv'
  OBVIOUS
<1> USE CacheAssumption DEF Running, Calls
<1>1. ASSUME UNCHANGED <<reads, pending>> PROVE LeadInv'
  BY <1>1 DEF LeadInv, reads
<1>2. ASSUME NEW r \in Readers, NEW t \in Asked, Serve(r, t) PROVE LeadInv'
  BY <1>2 DEF Serve, LeadInv, TypeOK
<1>3. ASSUME NEW r \in Readers, NEW t \in Asked, Join(r, t) PROVE LeadInv'
  BY <1>3 DEF Join, LeadInv, TypeOK
<1>4. ASSUME NEW r \in Readers, NEW t \in Asked, Start(r, t) PROVE LeadInv'
  BY <1>4 DEF Start, LeadInv, TypeOK
<1>5. ASSUME NEW r \in Readers, Fetch(r) PROVE LeadInv'
  BY <1>5 DEF Fetch, LeadInv, TypeOK
<1>6. ASSUME NEW r \in Readers, Settle(r) PROVE LeadInv'
  BY <1>6 DEF Settle, Unpend, Crowd, LeadInv, TypeOK
<1>7. ASSUME NEW r \in Readers, FailRead(r) PROVE LeadInv'
  BY <1>7 DEF FailRead, Free, Unpend, Crowd, LeadInv, TypeOK
<1>8. ASSUME NEW r \in Readers, Return(r) PROVE LeadInv'
  BY <1>8 DEF Return, Free, LeadInv, TypeOK
<1>9. ASSUME UNCHANGED reads, \A t \in Targets : pending'[t] \in {None, pending[t]}
      PROVE LeadInv'
  BY <1>9 DEF LeadInv, reads
<1>10. ASSUME NEW w \in Writers, NEW k \in Keys, NEW c \in Contents, BeginWrite(w, k, c)
      PROVE LeadInv'
  BY <1>9, <1>10 DEF BeginWrite
<1>11. ASSUME NEW w \in Writers, Land(w) PROVE LeadInv'
  BY <1>1, <1>11 DEF Land
<1>12. ASSUME NEW w \in Writers, NEW e, Over(w, e) PROVE LeadInv'
  BY <1>9, <1>12 DEF Over
<1>13. ASSUME NEW k \in Keys, NEW c \in Contents, ChangePast(k, c) PROVE LeadInv'
  BY <1>1, <1>13 DEF ChangePast
<1>14. CASE Invalidate
  BY <1>9, <1>14 DEF Invalidate
<1>15. CASE Bypass \/ Evict \/ UNCHANGED vars
  BY <1>1, <1>15 DEF Bypass, Evict, vars
<1> QED
  BY <1>2, <1>3, <1>4, <1>5, <1>6, <1>7, <1>8, <1>10, <1>11, <1>12, <1>13, <1>14, <1>15
  DEF Next, EndWrite, FailWrite

Known(r) == \A k \in Keys : stored[k] \in since[r][k]

\* ReadInv and RegularReads survive a step that leaves the reads alone, grows
\* what they may have seen, and lets no more be admitted or joined.
LEMMA ReadsUnmoved ==
    ASSUME TypeOK, LeadInv, ReadInv, RegularReads, UNCHANGED reads,
           \A r \in Readers : Live(r)' => Live(r),
           \A r \in Readers : pc[r] = "read" /\ Live(r)' =>
               (Plausible(ask[r], got[r], old) => Plausible(ask[r], got[r], old')),
           \A r \in Readers : \A k \in Keys : since[r][k] \subseteq since'[r][k],
           \A r \in Readers : Running(r) => Known(r)'
    PROVE  ReadInv' /\ RegularReads'
<1>1. \A r \in Readers : pc[r] # "idle" => ask[r] \in Targets
  BY DEF LeadInv
<1>2. \A r, s \in Readers : pc[r] = "read" /\ lead[s] = r =>
          Plausible(ask[r], got[r], since'[s])
  BY <1>1, PlausibleGrows DEF ReadInv
<1>3. \A r \in Readers : pc[r] = "done" => Plausible(ask[r], got[r], since'[r])
  BY <1>1, PlausibleGrows DEF RegularReads
<1>4. \A r \in Readers : pc[r] = "read" /\ Live(r)' => Plausible(ask[r], got[r], old')
  BY DEF ReadInv
<1>5. UNCHANGED <<pc, ask, got, lead>>
  BY DEF reads
<1>6. RegularReads'
  BY <1>3, <1>5 DEF RegularReads, Plausible
<1>7. \A r \in Readers : pc'[r] = "read" /\ Live(r)' => Plausible(ask'[r], got'[r], old')
  BY <1>4, <1>5
<1>8. \A r, s \in Readers : pc'[r] = "read" /\ lead'[s] = r =>
          Plausible(ask'[r], got'[r], since'[s])
  BY <1>2, <1>5
<1>9. \A r \in Readers : Running(r)' => Known(r)'
  BY <1>5 DEF Running
<1> QED
  BY <1>6, <1>7, <1>8, <1>9 DEF ReadInv, Known, Plausible

\* A read that begins may see what old holds.
LEMMA OldKnown == ASSUME OldInv PROVE \A k \in Keys : stored[k] \in old[k]
BY DEF OldInv

LEMMA ReadStep ==
    /\ TypeOK /\ OldInv /\ CacheInv /\ WriteInv /\ LeadInv /\ ReadInv /\ RegularReads
    /\ [Next]_vars
    => ReadInv' /\ RegularReads'
<1> SUFFICES ASSUME TypeOK, OldInv, CacheInv, WriteInv, LeadInv, ReadInv, RegularReads,
                    [Next]_vars
             PROVE  ReadInv' /\ RegularReads'
  OBVIOUS
<1> USE CacheAssumption
<1>1. ASSUME NEW r \in Readers, NEW t \in Asked, Serve(r, t)
      PROVE  ReadInv' /\ RegularReads'
  <2>1. t \in Targets /\ UNCHANGED <<stored, old, clean, pending, lead>>
    BY <1>1 DEF Serve
  <2>2. Plausible(t, Hit(t), old)
    <3>1. CASE t.op \in ListOps
      <4>1. t = Listing(t.op)
        BY <2>1, <3>1 DEF Targets, Listing, ListOps
      <4> QED
        BY <1>1, <3>1, <4>1 DEF Serve, Hit, CacheInv, ListOps
    <3>2. CASE t.op \notin ListOps
      <4>1. t.key \in Keys
        BY <2>1, <3>2 DEF Targets, ListOps
      <4> QED
        BY <1>1, <3>2, <4>1 DEF Serve, Hit, CacheInv, Plausible, ListOps
    <3> QED
      BY <3>1, <3>2
  <2>3. pc'[r] = "done" /\ ask'[r] = t /\ got'[r] = Hit(t) /\ since'[r] = old
    BY <1>1 DEF Serve, TypeOK, GotOK
  <2>4. \A s \in Readers \ {r} : /\ pc'[s] = pc[s] /\ ask'[s] = ask[s]
                               /\ got'[s] = got[s] /\ since'[s] = since[s]
    BY <1>1 DEF Serve, TypeOK, GotOK
  <2>5. RegularReads'
    BY <2>2, <2>3, <2>4 DEF RegularReads, Plausible
  <2>6. lead[r] = None
    BY <1>1 DEF Serve, LeadInv, Running
  <2>7. ReadInv'
    BY <2>1, <2>3, <2>4, <2>6 DEF ReadInv, Running, Live, Plausible
  <2> QED
    BY <2>5, <2>7
<1>2. ASSUME NEW r \in Readers, NEW t \in Asked, Join(r, t)
      PROVE  ReadInv' /\ RegularReads'
  <2>1. UNCHANGED <<stored, old, clean, pending, got>>
    BY <1>2 DEF Join
  <2>2. pc'[r] = "joined" /\ ask'[r] = t /\ lead'[r] = pending[t] /\ since'[r] = old
    BY <1>2 DEF Join, TypeOK
  <2>3. \A s \in Readers \ {r} : /\ pc'[s] = pc[s] /\ ask'[s] = ask[s]
                               /\ lead'[s] = lead[s] /\ since'[s] = since[s]
    BY <1>2 DEF Join, TypeOK
  <2>4. pc[r] = "idle" /\ t \in Targets /\ pending[t] \in Readers \ {r}
    BY <1>2 DEF Join, LeadInv, Calls
  <2>5. Live(pending[t])
    BY <2>4 DEF Live
  <2>6. pc[pending[t]] = "read" =>
            Plausible(ask[pending[t]], got[pending[t]], old)
    BY <2>4, <2>5 DEF ReadInv
  <2>7. RegularReads'
    BY <2>1, <2>2, <2>3 DEF RegularReads, Plausible
  <2>8. ReadInv'
    BY <2>1, <2>2, <2>3, <2>4, <2>6, OldKnown DEF ReadInv, Running, Live, Plausible
  <2> QED
    BY <2>7, <2>8
<1>3. ASSUME NEW r \in Readers, NEW t \in Asked, Start(r, t)
      PROVE  ReadInv' /\ RegularReads'
  <2>1. UNCHANGED <<stored, old, got>>
    BY <1>3 DEF Start
  <2>2. pc'[r] = "reading" /\ ask'[r] = t /\ lead'[r] = r /\ since'[r] = old
    BY <1>3 DEF Start, TypeOK
  <2>3. \A s \in Readers \ {r} :
            /\ pc'[s] = pc[s] /\ ask'[s] = ask[s] /\ clean'[s] = clean[s]
            /\ lead'[s] = lead[s] /\ since'[s] = since[s]
    BY <1>3 DEF Start, TypeOK
  <2>4. \A s \in Readers \ {r} : Live(s)' => Live(s)
    BY <1>3, <2>3 DEF Start, Live, TypeOK
  <2>5. RegularReads'
    BY <2>1, <2>2, <2>3 DEF RegularReads, Plausible
  <2>6. \A s \in Readers : Running(s)' => Known(s)'
    BY <2>1, <2>2, <2>3, OldKnown DEF ReadInv, Running, Known
  <2>7. \A s \in Readers : pc'[s] = "read" /\ Live(s)' => Plausible(ask'[s], got'[s], old')
    BY <2>1, <2>2, <2>3, <2>4 DEF ReadInv
  <2>8. \A s, q \in Readers : pc'[s] = "read" /\ lead'[q] = s =>
            Plausible(ask'[s], got'[s], since'[q])
    BY <2>1, <2>2, <2>3 DEF ReadInv
  <2> QED
    BY <2>5, <2>6, <2>7, <2>8 DEF ReadInv, Known, Plausible
<1>4. ASSUME NEW r \in Readers, Fetch(r) PROVE ReadInv' /\ RegularReads'
  <2>1. UNCHANGED <<stored, old, clean, pending, ask, lead, since>>
    BY <1>4 DEF Fetch
  <2>2. PICK a \in Views(ask[r]) : got' = [got EXCEPT ![r] = a]
    BY <1>4 DEF Fetch
  <2>3. ask[r] \in Targets /\ pc'[r] = "read" /\ got'[r] = a
    BY <1>4, <2>2 DEF Fetch, LeadInv, TypeOK, GotOK
  <2>4. \A s \in Readers \ {r} : pc'[s] = pc[s] /\ got'[s] = got[s]
    BY <1>4, <2>2 DEF Fetch, TypeOK, GotOK
  <2>5. Plausible(ask[r], a, old)
    BY <2>3, ViewsPlausible, OldKnown
  <2>6. \A s \in Readers : lead[s] = r => Plausible(ask[r], a, since[s])
    <3>1. \A s \in Readers : lead[s] = r => \A k \in Keys : stored[k] \in since[s][k]
      BY DEF LeadInv, ReadInv
    <3> QED
      BY <2>3, <3>1, ViewsPlausible
  <2>7. RegularReads'
    BY <2>1, <2>3, <2>4 DEF RegularReads, Plausible
  <2>8. \A s \in Readers : Running(s)' => Known(s)'
    BY <1>4, <2>1, <2>3, <2>4 DEF ReadInv, Running, Known, Fetch
  <2>9. \A s \in Readers : Live(s)' = Live(s)
    BY <2>1 DEF Live
  <2> QED
    BY <2>1, <2>3, <2>4, <2>5, <2>6, <2>7, <2>8, <2>9 DEF ReadInv, Known, Plausible
<1>5. ASSUME NEW r \in Readers, Settle(r) PROVE ReadInv' /\ RegularReads'
  <2>1. UNCHANGED <<stored, old, ask, since>>
    BY <1>5 DEF Settle
  <2>2. \A s \in Readers : IF lead[s] = r
                          THEN pc'[s] = "done" /\ lead'[s] = None /\ got'[s] = got[r]
                          ELSE pc'[s] = pc[s] /\ lead'[s] = lead[s] /\ got'[s] = got[s]
    BY <1>5 DEF Settle, Crowd
  <2>3. pc[r] = "read"
    BY <1>5 DEF Settle
  <2>4. \A s \in Readers : lead[s] = r => Running(s) /\ ask[s] = ask[r]
    BY DEF LeadInv
  <2>5. \A s \in Readers : Live(s)' => Live(s)
    BY <1>5 DEF Settle, Unpend, Live, TypeOK
  <2>6. RegularReads'
    BY <2>1, <2>2, <2>3, <2>4 DEF RegularReads, ReadInv, Plausible
  <2>7. \A s \in Readers : Running(s)' => Known(s)'
    BY <2>1, <2>2 DEF ReadInv, Running, Known
  <2>8. \A s \in Readers : pc'[s] = "read" /\ Live(s)' => Plausible(ask'[s], got'[s], old')
    BY <2>1, <2>2, <2>5 DEF ReadInv
  <2>9. \A s, q \in Readers : pc'[s] = "read" /\ lead'[q] = s =>
            Plausible(ask'[s], got'[s], since'[q])
    BY <2>1, <2>2 DEF ReadInv
  <2> QED
    BY <2>6, <2>7, <2>8, <2>9 DEF ReadInv, Known, Plausible
<1>6. ASSUME NEW r \in Readers, FailRead(r) \/ Return(r)
      PROVE  ReadInv' /\ RegularReads'
  <2>1. PICK gone \in SUBSET Readers : Free(gone)
    BY <1>6 DEF FailRead, Return, Crowd
  <2>2. UNCHANGED <<stored, old>>
    BY <1>6 DEF FailRead, Return
  <2>3. \A s \in Readers : s \in gone => pc'[s] = "idle" /\ lead'[s] = None
    BY <2>1 DEF Free
  <2>4. \A s \in Readers : s \notin gone =>
            /\ pc'[s] = pc[s] /\ ask'[s] = ask[s] /\ lead'[s] = lead[s]
            /\ got'[s] = got[s] /\ since'[s] = since[s] /\ clean'[s] = clean[s]
    BY <2>1 DEF Free, TypeOK
  <2>5. \A s \in Readers : s \notin gone => (Live(s)' => Live(s))
    BY <1>6, <2>4 DEF FailRead, Return, Unpend, Live, TypeOK
  <2>6. RegularReads'
    BY <2>3, <2>4 DEF RegularReads, Plausible
  <2>7. \A s \in Readers : Running(s)' => Known(s)'
    BY <2>2, <2>3, <2>4 DEF ReadInv, Running, Known
  <2>8. \A s \in Readers : pc'[s] = "read" /\ Live(s)' => Plausible(ask'[s], got'[s], old')
    BY <2>2, <2>3, <2>4, <2>5 DEF ReadInv
  <2>9. \A s, q \in Readers : pc'[s] = "read" /\ lead'[q] = s =>
            Plausible(ask'[s], got'[s], since'[q])
    BY <2>3, <2>4, CacheAssumption DEF ReadInv
  <2> QED
    BY <2>6, <2>7, <2>8, <2>9 DEF ReadInv, Known, Plausible
<1>7. ASSUME NEW w \in Writers, NEW k \in Keys, NEW c \in Contents, BeginWrite(w, k, c)
      PROVE  ReadInv' /\ RegularReads'
  <2>1. UNCHANGED <<stored, old, since, reads>>
    BY <1>7 DEF BeginWrite
  <2>2. \A s \in Readers : Live(s)' => Live(s)
    BY <1>7 DEF BeginWrite, Bump, Live, TypeOK
  <2>3. \A s \in Readers : Running(s) => Known(s)'
    BY <2>1 DEF ReadInv, Known
  <2> QED
    BY <2>1, <2>2, <2>3, ReadsUnmoved
<1>8. ASSUME NEW k \in Keys, NEW c, Change(k, c), UNCHANGED <<reads, clean, pending>>
      PROVE  ReadInv' /\ RegularReads'
  <2>1. \A j \in Keys : old[j] \subseteq old'[j]
    BY <1>8 DEF Change, TypeOK
  <2>2. \A s \in Readers : \A j \in Keys : since[s][j] \subseteq since'[s][j]
    BY <1>8 DEF Change, TypeOK
  <2>3. \A s \in Readers : Running(s) => Known(s)'
    BY <1>8 DEF Change, TypeOK, ReadInv, Known
  <2>4. \A s \in Readers : Live(s)' => Live(s)
    BY <1>8 DEF Live
  <2>5. \A s \in Readers : pc[s] = "read" =>
            (Plausible(ask[s], got[s], old) => Plausible(ask[s], got[s], old'))
    BY <2>1, PlausibleGrows DEF LeadInv
  <2> QED
    BY <1>8, <2>2, <2>3, <2>4, <2>5, ReadsUnmoved
<1>9. ASSUME NEW w \in Writers, Land(w) PROVE ReadInv' /\ RegularReads'
  <2>1. wkey[w] \in Keys
    BY <1>9 DEF Land, WriteInv
  <2> QED
    BY <1>8, <1>9, <2>1 DEF Land
<1>10. ASSUME NEW w \in Writers, wpc[w] # "idle", NEW e, Over(w, e)
       PROVE  ReadInv' /\ RegularReads'
  <2>1. UNCHANGED <<stored, since, reads>>
    BY <1>10 DEF Over
  <2>2. \A s \in Readers : Live(s)' => \E t \in Targets :
            pending[t] = s /\ t.key # wkey[w] /\ t.op \notin ListOps
    BY <1>10 DEF Over, Bump, Live, TypeOK, Forgets, ForgetsList, ListOps, CacheAssumption
  <2>3. \A s \in Readers : Live(s)' => Live(s)
    BY <2>2 DEF Live
  <2>4. \A s \in Readers : pc[s] = "read" /\ Live(s)' =>
            (Plausible(ask[s], got[s], old) => Plausible(ask[s], got[s], old'))
    <3> SUFFICES ASSUME NEW s \in Readers, Live(s)', Plausible(ask[s], got[s], old)
                 PROVE  Plausible(ask[s], got[s], old')
      OBVIOUS
    <3>1. PICK t \in Targets : pending[t] = s /\ t.key # wkey[w] /\ t.op \notin ListOps
      BY <2>2
    <3>2. ask[s] = t
      BY <3>1, CacheAssumption DEF LeadInv
    <3>3. t.key \in Keys
      BY <3>1 DEF Targets, ListOps
    <3>4. old'[t.key] = old[t.key]
      BY <1>10, <3>1, <3>3 DEF Over, TypeOK
    <3> QED
      BY <3>1, <3>2, <3>3, <3>4 DEF Plausible, ListOps
  <2>5. \A s \in Readers : Running(s) => Known(s)'
    BY <2>1 DEF ReadInv, Known
  <2> QED
    BY <2>1, <2>3, <2>4, <2>5, ReadsUnmoved
<1>11. ASSUME NEW k \in Keys, NEW c \in Contents, ChangePast(k, c)
       PROVE  ReadInv' /\ RegularReads'
  BY <1>8, <1>11 DEF ChangePast
<1>12. CASE Invalidate
  <2>1. UNCHANGED <<stored, since, reads>>
    BY <1>12 DEF Invalidate
  <2>2. \A s \in Readers : ~Live(s)'
    BY <1>12, CacheAssumption DEF Invalidate, Bump, Live
  <2>3. \A s \in Readers : Running(s) => Known(s)'
    BY <2>1 DEF ReadInv, Known
  <2> QED
    BY <2>1, <2>2, <2>3, ReadsUnmoved
<1>13. CASE Bypass \/ Evict \/ UNCHANGED vars
  <2>1. UNCHANGED <<stored, old, since, reads, clean, pending>>
    BY <1>13 DEF Bypass, Evict, vars
  <2>2. \A s \in Readers : Live(s)' => Live(s)
    BY <2>1 DEF Live
  <2>3. \A s \in Readers : Running(s) => Known(s)'
    BY <2>1 DEF ReadInv, Known
  <2> QED
    BY <2>1, <2>2, <2>3, ReadsUnmoved
<1> QED
  BY <1>1, <1>2, <1>3, <1>4, <1>5, <1>6, <1>7, <1>9, <1>10, <1>11, <1>12, <1>13
  DEF Next, EndWrite, FailWrite

-------------------------------------------------------------------------------
LEMMA InvInit == Init => IInv
<1> SUFFICES ASSUME Init PROVE IInv
  OBVIOUS
<1> USE CacheAssumption DEF Init
<1>1. TypeOK
  BY DEF TypeOK, ListsOK, GotOK, Lists, Contents, Nothing
<1>2. OldInv /\ CacheInv /\ WriteInv
  BY DEF OldInv, CacheInv, WriteInv
<1>3. LeadInv /\ ReadInv /\ RegularReads
  BY DEF LeadInv, ReadInv, RegularReads, Running, Calls
<1> QED
  BY <1>1, <1>2, <1>3 DEF IInv

LEMMA InvStep == IInv /\ [Next]_vars => IInv'
BY TypeStep, WriteStep, OldStep, CacheStep, LeadStep, ReadStep DEF IInv

\* The cache, the reads and the writes keep their types.
THEOREM Typing == Spec => []TypeOK
BY InvInit, InvStep, PTL DEF Spec, IInv

\* When no change of a key is under way, what is cached of it is what is
\* stored (noteWrite, and the generation that decides what is admitted).
THEOREM CacheMatchesStore == Spec => []CacheMatches
<1>1. IInv => CacheMatches
  BY DEF IInv, OldInv, CacheInv, CacheMatches
<1> QED
  BY <1>1, InvInit, InvStep, PTL DEF Spec

\* The same for listings, empty probes included (clearStaleListEntries).
THEOREM ListingsMatchStore == Spec => []ListsMatch
<1>1. IInv => ListsMatch
  <2> SUFFICES ASSUME IInv, Quiet PROVE ListsMatch
    BY DEF ListsMatch
  <2>1. \A k \in Keys : old[k] = {stored[k]}
    BY DEF IInv, OldInv, Quiet, Changing
  <2>2. lists["list"] # Unknown => lists["list"] = Present
    <3>1. ASSUME lists["list"] # Unknown PROVE lists["list"] = Present
      <4>1. lists["list"] \subseteq Keys
        BY <3>1 DEF IInv, TypeOK, ListsOK, ListOps
      <4>2. Plausible(Listing("list"), lists["list"], old)
        BY <3>1 DEF IInv, CacheInv, ListOps
      <4> QED
        BY <2>1, <4>1, <4>2 DEF Plausible, Listing, Present
    <3> QED
      BY <3>1
  <2>3. lists["probe"] = {} => Present = {}
    <3>1. ASSUME lists["probe"] = {} PROVE Present = {}
      <4>1. lists["probe"] # Unknown
        BY <3>1, CacheAssumption
      <4>2. Plausible(Listing("probe"), {}, old)
        BY <3>1, <4>1 DEF IInv, CacheInv, ListOps
      <4> QED
        BY <2>1, <4>2 DEF Plausible, Listing, Present
    <3> QED
      BY <3>1
  <2> QED
    BY <2>2, <2>3 DEF ListsMatch
<1> QED
  BY <1>1, InvInit, InvStep, PTL DEF Spec

\* Every answer was true at some moment of the read, or of a change that was
\* under way: what coalesced hands to a reader that joined included.
THEOREM ReadsAreRegular == Spec => []RegularReads
BY InvInit, InvStep, PTL DEF Spec, IInv

-----------------------------------------------------------------------------
(* The lifecycle of repositories: requests, their steps and their locks      *)

\* The conditions of the theorems: requests on one repository do not overlap,
\* a move is not cut short once it has copied all, and a name somebody may
\* rename a repository to is nobody else's.
Orderly == Races = {} /\ "late" \notin Faults /\ Killable \cap {"rename", "transfer"} = {}

Kept(r, p) == <<r, p>> \in Renames
KeptForOne ==
    /\ \A r, q \in Repos, p \in Paths : Kept(r, p) /\ Kept(q, p) => r = q
    /\ \A r, q \in Repos : Kept(r, InitRow[q]) => r = q

\* The steps of a request, by its kind, and those it makes under its locks.
StepsFor(kind) ==
    CASE kind = "create" -> {"lock", "clear", "init", "undo"}
      [] kind = "fork" -> {"lock", "check", "clear", "copy", "insert"}
      [] kind = "rename" -> {"lock", "copy", "remove", "update", "back"}
      [] kind = "transfer" -> {"lock", "check", "clear", "copy", "remove", "update", "back"}
      [] kind = "delete" -> {"lock", "drop", "wipe"}
      [] kind = "push" -> {"lock", "land"}

Holding == {"check", "clear", "init", "copy", "insert", "remove", "update", "back", "drop",
            "wipe", "land"}

JobSteps == \A s \in Slots :
    /\ job[s] = None => does[s] = "idle"
    /\ job[s] # None => /\ job[s] \in Jobs /\ does[s] \in StepsFor(job[s].kind)
                        /\ job[s].kind = "fork" => job[s].parent \in Repos

LEMMA StepJob ==
    ASSUME RepoTypeOK, JobSteps, NEW s \in Slots, Step(s)
    PROVE  /\ job[s] # None /\ job[s] \in Jobs /\ does[s] \in StepsFor(job[s].kind)
           /\ job[s].kind \in Kinds /\ job[s].repo \in Repos
           /\ job[s].from \in Paths /\ job[s].to \in Paths
           /\ job[s].parent \in Repos \cup {None}
<1>1. job[s] # None
  BY DEF JobSteps, Step, Lock, GiveUp, Check, Clear, InitStore, CreateFails, Undo, Copy, ForkFails,
     MoveFails, Insert, InsertFails, Remove, Update, UpdateFails, Back, Drop, Wipe, LandPush, Kill
<1> QED
  BY <1>1 DEF JobSteps, Jobs

\* A step of a request ends it, or leads to another of its kind.
Continues(s) == job' = job /\ \E x \in StepsFor(job[s].kind) : does' = [does EXCEPT ![s] = x]
Finishes(s) == job' = [job EXCEPT ![s] = None] /\ does' = [does EXCEPT ![s] = "idle"]

LEMMA StepGoes ==
    ASSUME RepoTypeOK, JobSteps, NEW s \in Slots, Step(s)
    PROVE  Continues(s) \/ Finishes(s)
<1> USE StepJob DEF Continues, Finishes, Answer, Go, StepsFor, Kinds
<1>1. CASE Lock(s)
  BY <1>1 DEF Lock, First
<1>2. CASE GiveUp(s)
  <2>1. CASE job[s].kind = "create"
    <3>1. job' = job
      BY <1>2, <2>1 DEF GiveUp, RepoTypeOK
    <3> QED
      BY <1>2, <2>1, <3>1 DEF GiveUp
  <2> QED
    BY <1>2, <2>1 DEF GiveUp
<1>3. CASE Check(s)
  BY <1>3 DEF Check
<1>4. CASE Clear(s)
  BY <1>4 DEF Clear, AfterClear
<1>5. CASE InitStore(s)
  BY <1>5 DEF InitStore
<1>6. CASE CreateFails(s)
  BY <1>6 DEF CreateFails
<1>7. CASE Undo(s)
  BY <1>7 DEF Undo
<1>8. CASE Copy(s)
  BY <1>8 DEF Copy, Copied
<1>9. CASE ForkFails(s)
  BY <1>9 DEF ForkFails
<1>10. CASE MoveFails(s)
  BY <1>10 DEF MoveFails
<1>11. CASE Insert(s)
  BY <1>11 DEF Insert
<1>12. CASE InsertFails(s)
  BY <1>12 DEF InsertFails
<1>13. CASE Remove(s)
  BY <1>13 DEF Remove
<1>14. CASE Update(s)
  BY <1>14 DEF Update
<1>15. CASE UpdateFails(s)
  BY <1>15 DEF UpdateFails
<1>16. CASE Back(s)
  BY <1>16 DEF Back
<1>17. CASE Drop(s)
  BY <1>17 DEF Drop
<1>18. CASE Wipe(s)
  BY <1>18 DEF Wipe
<1>19. CASE LandPush(s)
  BY <1>19 DEF LandPush
<1>20. CASE Kill(s)
  BY <1>20 DEF Kill
<1> HIDE DEF Continues, Finishes, StepsFor
<1> QED
  BY <1>1, <1>2, <1>3, <1>4, <1>5, <1>6, <1>7, <1>8, <1>9, <1>10, <1>11, <1>12, <1>13,
     <1>14, <1>15, <1>16, <1>17, <1>18, <1>19, <1>20 DEF Step

LEMMA StepTypes ==
    ASSUME RepoTypeOK, JobSteps, NEW s \in Slots, Step(s)
    PROVE  /\ row' \in [Repos -> Paths \cup {New, Gone}]
           /\ store' \in [Paths -> SUBSET Repos]
           /\ lock' \in [Paths -> Slots \cup {None}]
           /\ ready' \in SUBSET Repos
           /\ lineage' \in [Repos -> SUBSET Repos]
<1> USE StepJob DEF RepoTypeOK, Answer, Unlock, Go, Cleared, PartlyCleared, PartlyCopied
<1>1. CASE Lock(s)
  BY <1>1 DEF Lock, First
<1>2. CASE GiveUp(s)
  BY <1>2 DEF GiveUp
<1>3. CASE Check(s)
  BY <1>3 DEF Check
<1>4. CASE Clear(s)
  BY <1>4 DEF Clear, AfterClear
<1>5. CASE InitStore(s)
  BY <1>5 DEF InitStore
<1>6. CASE CreateFails(s)
  BY <1>6 DEF CreateFails
<1>7. CASE Undo(s)
  BY <1>7 DEF Undo
<1>8. CASE Copy(s)
  <2>1. Copied(s) \in SUBSET Repos
    BY DEF Copied
  <2>2. store' \in [Paths -> SUBSET Repos]
    BY <1>8, <2>1 DEF Copy
  <2> QED
    BY <1>8, <2>2 DEF Copy
<1>9. CASE ForkFails(s)
  BY <1>9 DEF ForkFails
<1>10. CASE MoveFails(s)
  BY <1>10 DEF MoveFails
<1>11. CASE Insert(s)
  <2>1. job[s].parent \in Repos
    BY <1>11 DEF Insert, JobSteps, StepsFor, Kinds
  <2>2. lineage[job[s].repo] \cup lineage[job[s].parent] \in SUBSET Repos
    BY <2>1
  <2>3. lineage' \in [Repos -> SUBSET Repos]
    BY <1>11, <2>2 DEF Insert
  <2> QED
    BY <1>11, <2>3 DEF Insert
<1>12. CASE InsertFails(s)
  BY <1>12 DEF InsertFails
<1>13. CASE Remove(s)
  BY <1>13 DEF Remove
<1>14. CASE Update(s)
  BY <1>14 DEF Update
<1>15. CASE UpdateFails(s)
  BY <1>15 DEF UpdateFails
<1>16. CASE Back(s)
  BY <1>16 DEF Back
<1>17. CASE Drop(s)
  BY <1>17 DEF Drop
<1>18. CASE Wipe(s)
  BY <1>18 DEF Wipe
<1>19. CASE LandPush(s)
  BY <1>19 DEF LandPush
<1>20. CASE Kill(s)
  BY <1>20 DEF Kill
<1> HIDE DEF RepoTypeOK
<1> QED
  BY <1>1, <1>2, <1>3, <1>4, <1>5, <1>6, <1>7, <1>8, <1>9, <1>10, <1>11, <1>12, <1>13,
     <1>14, <1>15, <1>16, <1>17, <1>18, <1>19, <1>20 DEF Step

LEMMA RepoTypeStep ==
    ASSUME RepoTypeOK, JobSteps, [RepoNext]_repoVars
    PROVE  RepoTypeOK' /\ JobSteps'
<1> USE LifecycleAssumption DEF RepoTypeOK, JobSteps, Steps
<1>1. CASE UNCHANGED repoVars
  BY <1>1 DEF repoVars
<1>2. ASSUME NEW s \in Slots, Request(s) PROVE RepoTypeOK' /\ JobSteps'
  <2>1. ASSUME NEW kind \in Kinds, NEW r \in Repos, NEW p \in Paths, NEW q \in Paths,
               NEW parent \in Repos \cup {None}, Ask(s, kind, r, p, q, parent),
               row' \in [Repos -> Paths \cup {New, Gone}], kind = "fork" => parent \in Repos
        PROVE  RepoTypeOK' /\ JobSteps'
    <3> DEFINE j == [kind |-> kind, repo |-> r, from |-> p, to |-> q, parent |-> parent]
    <3>1. j \in Jobs /\ j.kind = kind /\ j.parent = parent
      BY DEF Jobs
    <3>2. job' = [job EXCEPT ![s] = j] /\ does' = [does EXCEPT ![s] = "lock"]
          /\ UNCHANGED <<store, lock, ready, lineage>>
      BY <2>1 DEF Ask
    <3> HIDE DEF j
    <3>3. "lock" \in StepsFor(kind)
      BY DEF StepsFor, Kinds
    <3> QED
      BY <2>1, <3>1, <3>2, <3>3
  <2>2. ASSUME NEW r \in Repos, NEW p \in Paths, Create(s, r, p)
        PROVE  RepoTypeOK' /\ JobSteps'
    BY <2>1, <2>2 DEF Create, Kinds
  <2>3. ASSUME NEW r \in Repos, NEW q \in Repos, NEW p \in Paths, Fork(s, r, q, p)
        PROVE  RepoTypeOK' /\ JobSteps'
    BY <2>1, <2>3 DEF Fork, Kinds
  <2>4. ASSUME NEW r \in Repos, NEW p \in Paths, Rename(s, r, p)
        PROVE  RepoTypeOK' /\ JobSteps'
    BY <2>1, <2>4 DEF Rename, Kinds
  <2>5. ASSUME NEW r \in Repos, NEW p \in Paths, Transfer(s, r, p)
        PROVE  RepoTypeOK' /\ JobSteps'
    BY <2>1, <2>5 DEF Transfer, Kinds
  <2>6. ASSUME NEW r \in Repos, Delete(s, r) PROVE RepoTypeOK' /\ JobSteps'
    BY <2>1, <2>6 DEF Delete, Kinds
  <2>7. ASSUME NEW r \in Repos, Push(s, r) PROVE RepoTypeOK' /\ JobSteps'
    BY <2>1, <2>7 DEF Push, Kinds
  <2> QED
    BY <1>2, <2>2, <2>3, <2>4, <2>5, <2>6, <2>7 DEF Request
<1>3. ASSUME NEW s \in Slots, Step(s) PROVE RepoTypeOK' /\ JobSteps'
  <2>1. job' \in [Slots -> Jobs \cup {None}] /\ does' \in [Slots -> Steps] /\ JobSteps'
    <3>1. CASE Continues(s)
      <4>1. PICK x \in StepsFor(job[s].kind) : does' = [does EXCEPT ![s] = x]
        BY <3>1 DEF Continues
      <4>2. x \in Steps
        BY <1>3, StepJob DEF StepsFor, Kinds
      <4> QED
        BY <1>3, <3>1, <4>1, <4>2, StepJob DEF Continues
    <3>2. CASE Finishes(s)
      BY <3>2 DEF Finishes
    <3> QED
      BY <1>3, <3>1, <3>2, StepGoes
  <2> QED
    BY <1>3, <2>1, StepTypes
<1> HIDE DEF RepoTypeOK, JobSteps
<1> QED
  BY <1>1, <1>2, <1>3 DEF RepoNext

\* A repository has one request at a time, and a request under its locks holds them.
JobsApart == \A s, t \in Slots :
    job[s] # None /\ job[t] # None /\ job[s].repo = job[t].repo => s = t
LocksHeld == \A s \in Slots : does[s] \in Holding => \A p \in Locks(s) : lock[p] = s

\* What an answer or a step does to the locks.
LEMMA StepLocks ==
    ASSUME RepoTypeOK, JobSteps, NEW s \in Slots, Step(s)
    PROVE  \/ Lock(s)
           \/ lock' = lock /\ (does'[s] \in Holding <=> does[s] \in Holding)
           \/ Unlock(s) /\ does'[s] \notin Holding
<1> USE DEF RepoTypeOK, Holding, Answer, Go
<1>1. CASE GiveUp(s)
  BY <1>1 DEF GiveUp
<1>2. CASE Check(s) \/ Clear(s) \/ InitStore(s)
  BY <1>2 DEF Check, Clear, AfterClear, InitStore
<1>3. CASE CreateFails(s) \/ Undo(s) \/ Copy(s) \/ ForkFails(s) \/ MoveFails(s)
  BY <1>3 DEF CreateFails, Undo, Copy, ForkFails, MoveFails
<1>4. CASE Insert(s) \/ InsertFails(s) \/ Remove(s) \/ Update(s) \/ UpdateFails(s)
  BY <1>4 DEF Insert, InsertFails, Remove, Update, UpdateFails
<1>5. CASE Back(s) \/ Drop(s) \/ Wipe(s) \/ LandPush(s) \/ Kill(s)
  BY <1>5 DEF Back, Drop, Wipe, LandPush, Kill
<1> QED
  BY <1>1, <1>2, <1>3, <1>4, <1>5 DEF Step

\* A request that is asked for.
Asks(s, r, j) ==
    /\ job[s] = None /\ ~Busy(r)
    /\ j \in Jobs /\ j.repo = r
    /\ job' = [job EXCEPT ![s] = j] /\ does' = [does EXCEPT ![s] = "lock"]
    /\ UNCHANGED <<store, lock, ready, lineage>>

LEMMA RequestAsks ==
    ASSUME Orderly, RepoTypeOK, NEW s \in Slots, NEW kind \in Kinds, NEW r \in Repos,
           NEW p \in Paths, NEW q \in Paths, NEW parent \in Repos \cup {None},
           Ask(s, kind, r, p, q, parent)
    PROVE  Asks(s, r, [kind |-> kind, repo |-> r, from |-> p, to |-> q, parent |-> parent])
  BY DEF Ask, Asks, Orderly, Jobs

LEMMA RequestIsAsked ==
    ASSUME Orderly, RepoTypeOK, NEW s \in Slots, Request(s)
    PROVE  /\ \E r \in Repos, j \in Jobs : Asks(s, r, j)
           /\ \/ row' = row
              \/ \E r \in Repos, p \in Paths : Create(s, r, p)
<1>1. ASSUME NEW r \in Repos, NEW p \in Paths,
             Create(s, r, p) \/ Rename(s, r, p) \/ Transfer(s, r, p)
      PROVE  \E q \in Repos, j \in Jobs : Asks(s, q, j)
  <2>1. PICK kind \in Kinds, f \in Paths : Ask(s, kind, r, f, p, None)
    BY <1>1 DEF Create, Rename, Transfer, Kinds
  <2>2. Asks(s, r, [kind |-> kind, repo |-> r, from |-> f, to |-> p, parent |-> None])
    BY <2>1, RequestAsks
  <2> QED
    BY <2>2 DEF Asks
<1>2. ASSUME NEW r \in Repos, NEW p \in Paths, NEW q \in Repos, Fork(s, r, q, p)
      PROVE  \E x \in Repos, j \in Jobs : Asks(s, x, j)
  <2>1. PICK f \in Paths : Ask(s, "fork", r, f, p, q)
    BY <1>2 DEF Fork
  <2>2. Asks(s, r, [kind |-> "fork", repo |-> r, from |-> f, to |-> p, parent |-> q])
    BY <2>1, RequestAsks DEF Kinds
  <2> QED
    BY <2>2 DEF Asks
<1>3. ASSUME NEW r \in Repos, Delete(s, r) \/ Push(s, r)
      PROVE  \E q \in Repos, j \in Jobs : Asks(s, q, j)
  <2>1. PICK kind \in Kinds, f \in Paths : Ask(s, kind, r, f, f, None)
    BY <1>3 DEF Delete, Push, Kinds
  <2>2. Asks(s, r, [kind |-> kind, repo |-> r, from |-> f, to |-> f, parent |-> None])
    BY <2>1, RequestAsks
  <2> QED
    BY <2>2 DEF Asks
<1>4. row' = row \/ \E r \in Repos, p \in Paths : Create(s, r, p)
  BY DEF Request, Fork, Rename, Transfer, Delete, Push
<1> QED
  BY <1>1, <1>2, <1>3, <1>4 DEF Request

\* A request that is asked for holds nothing yet, and takes nothing.
LEMMA RequestWaits ==
    ASSUME RepoTypeOK, JobSteps, NEW s \in Slots, Request(s)
    PROVE  /\ job[s] = None /\ does[s] = "idle"
           /\ does' = [does EXCEPT ![s] = "lock"] /\ lock' = lock
           /\ \A t \in Slots \ {s} : job'[t] = job[t]
<1>1. \E kind, r, p, q, parent : Ask(s, kind, r, p, q, parent)
  BY DEF Request, Create, Fork, Rename, Transfer, Delete, Push
<1> QED
  BY <1>1 DEF Ask, RepoTypeOK, JobSteps

\* A step changes the request of its own slot, which goes on or is over.
LEMMA StepOwn ==
    ASSUME RepoTypeOK, JobSteps, NEW s \in Slots, Step(s)
    PROVE  /\ \A t \in Slots \ {s} : job'[t] = job[t] /\ does'[t] = does[t]
           /\ job'[s] = job[s] \/ (job'[s] = None /\ does'[s] = "idle")
           /\ job[s] # None
  BY StepGoes, StepJob DEF Continues, Finishes, RepoTypeOK

LEMMA LockTaken ==
    ASSUME RepoTypeOK, JobSteps, NEW s \in Slots, Lock(s)
    PROVE  /\ \A p \in Locks(s) : lock[p] = None /\ lock'[p] = s /\ p \in Paths
           /\ \A p \in Paths \ Locks(s) : lock'[p] = lock[p]
           /\ job' = job /\ does[s] \notin Holding /\ does'[s] \in Holding
<1>1. job[s] # None /\ job[s] \in Jobs /\ job[s].kind \in Kinds
      /\ job[s].from \in Paths /\ job[s].to \in Paths
  BY DEF Lock, JobSteps, Jobs
<1> QED
  BY <1>1 DEF Lock, Locks, First, Kinds, Holding, RepoTypeOK

LEMMA HeldStep ==
    ASSUME RepoTypeOK, JobSteps, LocksHeld, [RepoNext]_repoVars
    PROVE  LocksHeld'
<1> USE LifecycleAssumption
<1>1. CASE UNCHANGED repoVars
  BY <1>1 DEF repoVars, LocksHeld, Locks
<1>2. ASSUME NEW s \in Slots, Request(s) PROVE LocksHeld'
  <2>1. does'[s] = "lock" /\ \A t \in Slots \ {s} : does'[t] = does[t]
    BY <1>2, RequestWaits DEF RepoTypeOK
  <2> QED
    BY <1>2, <2>1, RequestWaits DEF LocksHeld, Locks, Holding
<1>3. ASSUME NEW s \in Slots, Step(s) PROVE LocksHeld'
  <2>1. \A t \in Slots \ {s} : does[t] \in Holding => Locks(t) \subseteq Paths
    BY DEF JobSteps, Locks, Jobs, Holding
  <2>2. CASE Lock(s)
    <3>1. \A t \in Slots \ {s} : \A p \in Locks(t) :
             does[t] \in Holding => lock[p] = t /\ p \in Paths /\ p \notin Locks(s)
      BY <2>1, <2>2, LockTaken DEF LocksHeld
    <3> QED
      BY <1>3, <2>2, <3>1, LockTaken, StepOwn DEF LocksHeld, Locks
  <2>3. CASE lock' = lock /\ (does'[s] \in Holding <=> does[s] \in Holding)
    BY <1>3, <2>3, StepOwn DEF LocksHeld, Locks, Holding
  <2>4. CASE Unlock(s) /\ does'[s] \notin Holding
    <3>1. \A p \in Paths : lock[p] # s => lock'[p] = lock[p]
      BY <2>4 DEF Unlock
    <3>2. \A t \in Slots \ {s} : \A p \in Locks(t) : does[t] \in Holding => lock'[p] = t
      BY <2>1, <3>1 DEF LocksHeld
    <3> QED
      BY <1>3, <2>4, <3>2, StepOwn DEF LocksHeld, Locks
  <2> QED
    BY <1>3, <2>2, <2>3, <2>4, StepLocks
<1> QED
  BY <1>1, <1>2, <1>3 DEF RepoNext

LEMMA LocksStep ==
    ASSUME Orderly, RepoTypeOK, JobSteps, JobsApart, LocksHeld, [RepoNext]_repoVars
    PROVE  JobsApart' /\ LocksHeld'
<1>1. CASE UNCHANGED repoVars
  BY <1>1, HeldStep DEF repoVars, JobsApart
<1>2. ASSUME NEW s \in Slots, Request(s) PROVE JobsApart'
  <2>1. PICK r \in Repos, j \in Jobs : Asks(s, r, j)
    BY <1>2, RequestIsAsked
  <2>2. /\ job'[s].repo = r
        /\ \A t \in Slots \ {s} : job'[t] = job[t]
        /\ \A t \in Slots : job[t] # None => job[t].repo # r
    BY <2>1 DEF Asks, Busy, RepoTypeOK
  <2> QED
    BY <2>2 DEF JobsApart
<1>3. ASSUME NEW s \in Slots, Step(s) PROVE JobsApart'
  BY <1>3, StepOwn DEF JobsApart
<1> QED
  BY <1>1, <1>2, <1>3, HeldStep DEF RepoNext

-----------------------------------------------------------------------------
(* Rows                                                                      *)

\* What is true of a request by its kind, from when it is asked for.
Shape(j) ==
    /\ j.kind \in {"create", "delete", "push"} => j.from = j.to
    /\ j.kind \in {"fork", "rename", "transfer"} => j.from # j.to
    /\ j.kind \in {"create", "fork", "transfer"} => \A q \in Repos : ~Kept(q, j.to)
    /\ j.kind = "rename" => Kept(j.repo, j.to)
    /\ j.kind \in {"rename", "transfer", "delete", "push"} =>
          \A q \in Repos : Kept(q, j.from) => q = j.repo
    /\ j.kind = "fork" => j.parent \in ready

JobShape == \A s \in Slots : job[s] # None => Shape(job[s])

Copying == {"clear", "copy", "insert"}

\* The row of a request's repository stays as the request needs it.
RowFits(s) ==
    /\ job[s].kind = "create" => /\ row[job[s].repo] = job[s].to /\ job[s].repo \notin ready
                                 /\ lineage[job[s].repo] = {job[s].repo}
    /\ job[s].kind = "fork" => row[job[s].repo] = New
    /\ job[s].kind = "fork" /\ does[s] \in Copying => row[job[s].parent] = job[s].from
    /\ job[s].kind \in {"rename", "transfer", "push"} => row[job[s].repo] = job[s].from
    /\ job[s].kind = "delete" => row[job[s].repo] = IF does[s] = "wipe" THEN Gone
                                                                       ELSE job[s].from
JobRow == \A s \in Slots : job[s] # None => RowFits(s)

RowsInv ==
    /\ \A r, q \in Repos : row[r] \in Paths /\ row[r] = row[q] => r = q
    /\ \A r, q \in Repos : Kept(r, row[q]) => r = q
    /\ \A r \in ready : row[r] # New
    /\ \A r \in Repos : row[r] = New => lineage[r] = {r}
    /\ \A r \in Repos : r \in lineage[r]

\* What a step does to the rows and to what is known of the repositories.
LEMMA StepRow ==
    ASSUME NEW s \in Slots, Step(s)
    PROVE  \/ UNCHANGED <<row, ready, lineage>>
           \/ InitStore(s) \/ Insert(s) \/ Update(s)
           \/ /\ does[s] = "undo" \/ (does[s] = "drop" /\ does' = [does EXCEPT ![s] = "wipe"])
              /\ row' = [row EXCEPT ![job[s].repo] = Gone]
              /\ UNCHANGED <<ready, lineage>>
              /\ Answer(s) \/ job' = job
<1>1. CASE Lock(s) \/ GiveUp(s) \/ Check(s) \/ Clear(s) \/ CreateFails(s)
  BY <1>1 DEF Lock, GiveUp, Check, Clear, CreateFails
<1>2. CASE Undo(s) \/ Drop(s)
  BY <1>2 DEF Undo, Drop, Go
<1>3. CASE Copy(s) \/ ForkFails(s) \/ MoveFails(s) \/ InsertFails(s) \/ Remove(s)
  BY <1>3 DEF Copy, ForkFails, MoveFails, InsertFails, Remove
<1>4. CASE UpdateFails(s) \/ Back(s) \/ Wipe(s) \/ LandPush(s) \/ Kill(s)
  BY <1>4 DEF UpdateFails, Back, Wipe, LandPush, Kill
<1> QED
  BY <1>1, <1>2, <1>3, <1>4 DEF Step

\* The kind a step is made for.
LEMMA StepKind ==
    ASSUME RepoTypeOK, JobSteps, NEW s \in Slots, job[s] # None
    PROVE  /\ does[s] = "check" => job[s].kind \in {"fork", "transfer"}
           /\ does[s] = "clear" => job[s].kind \in {"create", "fork", "transfer"}
           /\ does[s] \in {"init", "undo"} => job[s].kind = "create"
           /\ does[s] = "copy" => job[s].kind \in {"fork", "rename", "transfer"}
           /\ does[s] = "insert" => job[s].kind = "fork"
           /\ does[s] \in {"remove", "update", "back"} => job[s].kind \in {"rename", "transfer"}
           /\ does[s] \in {"drop", "wipe"} => job[s].kind = "delete"
           /\ does[s] = "land" => job[s].kind = "push"
           /\ job[s].kind \in Kinds
<1>1. does[s] \in StepsFor(job[s].kind) /\ job[s].kind \in Kinds
  BY DEF JobSteps, Jobs
<1> QED
  BY <1>1 DEF StepsFor, Kinds

\* A request begins with the row it needs.
Begins(s, j) ==
    /\ Asks(s, j.repo, j) /\ Shape(j)
    /\ IF j.kind = "create"
       THEN row[j.repo] = New /\ ~Named(j.to) /\ row' = [row EXCEPT ![j.repo] = j.to]
       ELSE row' = row
    /\ j.kind = "fork" => row[j.repo] = New
    /\ j.kind \in {"rename", "transfer", "delete", "push"} => row[j.repo] = j.from

LEMMA RequestBegins ==
    ASSUME Orderly, RepoTypeOK, RowsInv, NEW s \in Slots, Request(s)
    PROVE  \E j \in Jobs : Begins(s, j)
<1> DEFINE J(kind, r, f, p, q) == [kind |-> kind, repo |-> r, from |-> f, to |-> p, parent |-> q]
<1> USE LifecycleAssumption DEF Orderly, Begins, Shape
<1>1. ASSUME NEW r \in Repos, NEW p \in Paths, Create(s, r, p) PROVE \E j \in Jobs : Begins(s, j)
  <2>1. Asks(s, r, J("create", r, p, p, None))
    BY <1>1, RequestAsks DEF Create, Kinds
  <2>2. Begins(s, J("create", r, p, p, None))
    BY <1>1, <2>1 DEF Create, Reserved, Kept
  <2> QED
    BY <2>1, <2>2 DEF Asks
<1>2. ASSUME NEW r \in Repos, NEW p \in Paths, Rename(s, r, p) PROVE \E j \in Jobs : Begins(s, j)
  <2>1. Asks(s, r, J("rename", r, row[r], p, None))
    BY <1>2, RequestAsks DEF Rename, Kinds
  <2>2. Begins(s, J("rename", r, row[r], p, None))
    BY <1>2, <2>1 DEF Rename, RowsInv, Kept
  <2> QED
    BY <2>1, <2>2 DEF Asks
<1>3. ASSUME NEW r \in Repos, NEW p \in Paths, Transfer(s, r, p) PROVE \E j \in Jobs : Begins(s, j)
  <2>1. Asks(s, r, J("transfer", r, row[r], p, None))
    BY <1>3, RequestAsks DEF Transfer, Kinds
  <2>2. Begins(s, J("transfer", r, row[r], p, None))
    BY <1>3, <2>1 DEF Transfer, RowsInv, Reserved, Kept
  <2> QED
    BY <2>1, <2>2 DEF Asks
<1>4. ASSUME NEW r \in Repos, NEW q \in Repos, NEW p \in Paths, Fork(s, r, q, p)
      PROVE \E j \in Jobs : Begins(s, j)
  <2>1. Asks(s, r, J("fork", r, row[q], p, q))
    BY <1>4, RequestAsks DEF Fork, Kinds
  <2>2. Begins(s, J("fork", r, row[q], p, q))
    BY <1>4, <2>1 DEF Fork, Reserved, Kept
  <2> QED
    BY <2>1, <2>2 DEF Asks
<1>5. ASSUME NEW r \in Repos, Delete(s, r) PROVE \E j \in Jobs : Begins(s, j)
  <2>1. Asks(s, r, J("delete", r, row[r], row[r], None))
    BY <1>5, RequestAsks DEF Delete, Kinds
  <2>2. Begins(s, J("delete", r, row[r], row[r], None))
    BY <1>5, <2>1 DEF Delete, RowsInv
  <2> QED
    BY <2>1, <2>2 DEF Asks
<1>6. ASSUME NEW r \in Repos, Push(s, r) PROVE \E j \in Jobs : Begins(s, j)
  <2>1. Asks(s, r, J("push", r, row[r], row[r], None))
    BY <1>6, RequestAsks DEF Push, Kinds
  <2>2. Begins(s, J("push", r, row[r], row[r], None))
    BY <1>6, <2>1 DEF Push, RowsInv
  <2> QED
    BY <2>1, <2>2 DEF Asks
<1> QED
  BY <1>1, <1>2, <1>3, <1>4, <1>5, <1>6 DEF Request

Moving == {"clear", "copy", "insert", "remove", "update", "back"}

\* How a request gets to a step.
LEMMA StepWay ==
    ASSUME RepoTypeOK, JobSteps, NEW s \in Slots, Step(s)
    PROVE  /\ does'[s] = "wipe" => does[s] = "drop" /\ row' = [row EXCEPT ![job[s].repo] = Gone]
           /\ does[s] \in {"wipe", "undo"} => job'[s] = None
           /\ does'[s] \in Copying /\ job[s].kind = "fork" =>
                 does[s] \in Copying \/ (does[s] = "check" /\ row[job[s].parent] = job[s].from)
           /\ does'[s] \in Moving /\ job[s].kind \in {"fork", "transfer"} =>
                 does[s] \in Moving \/ (does[s] = "check" /\ ~Named(job[s].to))
<1> USE StepJob, StepKind DEF Answer, Go, Copying, Moving, RepoTypeOK
<1>1. CASE Lock(s)
  BY <1>1 DEF Lock, First, StepsFor, Kinds
<1>2. CASE GiveUp(s)
  BY <1>2 DEF GiveUp
<1>3. CASE Check(s)
  BY <1>3 DEF Check, MayFork
<1>4. CASE Clear(s)
  BY <1>4 DEF Clear, AfterClear
<1>5. CASE InitStore(s)
  BY <1>5 DEF InitStore
<1>6. CASE CreateFails(s)
  BY <1>6 DEF CreateFails
<1>7. CASE Undo(s)
  BY <1>7 DEF Undo
<1>8. CASE Copy(s)
  BY <1>8 DEF Copy
<1>9. CASE ForkFails(s)
  BY <1>9 DEF ForkFails
<1>10. CASE MoveFails(s)
  BY <1>10 DEF MoveFails
<1>11. CASE Insert(s)
  BY <1>11 DEF Insert
<1>12. CASE InsertFails(s)
  BY <1>12 DEF InsertFails
<1>13. CASE Remove(s)
  BY <1>13 DEF Remove
<1>14. CASE Update(s)
  BY <1>14 DEF Update
<1>15. CASE UpdateFails(s)
  BY <1>15 DEF UpdateFails
<1>16. CASE Back(s)
  BY <1>16 DEF Back
<1>17. CASE Drop(s)
  BY <1>17 DEF Drop
<1>18. CASE Wipe(s)
  BY <1>18 DEF Wipe
<1>19. CASE LandPush(s)
  BY <1>19 DEF LandPush
<1>20. CASE Kill(s)
  BY <1>20 DEF Kill
<1> HIDE DEF RepoTypeOK, Copying, Moving
<1> QED
  BY <1>1, <1>2, <1>3, <1>4, <1>5, <1>6, <1>7, <1>8, <1>9, <1>10, <1>11, <1>12, <1>13,
     <1>14, <1>15, <1>16, <1>17, <1>18, <1>19, <1>20 DEF Step

LEMMA RequestRows ==
    ASSUME Orderly, RepoTypeOK, JobSteps, JobShape, JobRow, RowsInv, NEW s \in Slots, Request(s)
    PROVE  JobShape' /\ JobRow' /\ RowsInv'
<1> USE LifecycleAssumption
<1>1. PICK j \in Jobs : Begins(s, j)
  BY RequestBegins
<1>2. /\ job'[s] = j /\ does'[s] = "lock" /\ UNCHANGED <<ready, lineage>>
      /\ \A t \in Slots \ {s} : job'[t] = job[t] /\ does'[t] = does[t]
      /\ \A t \in Slots : job[t] # None => job[t].repo # j.repo
      /\ j.repo \in Repos /\ j.to \in Paths /\ j.kind \in Kinds
  BY <1>1 DEF Begins, Asks, Busy, RepoTypeOK, Jobs
<1>3. \A r \in Repos \ {j.repo} : row'[r] = row[r]
  BY <1>1 DEF Begins, RepoTypeOK
<1>4. \A r \in Repos : row[r] # New => row'[r] = row[r]
  BY <1>1 DEF Begins, RepoTypeOK
<1>5. JobShape'
  BY <1>1, <1>2 DEF JobShape, Shape, Begins
<1>6. JobRow'
  <2> SUFFICES ASSUME NEW t \in Slots, job'[t] # None PROVE RowFits(t)'
    BY DEF JobRow
  <2>1. CASE t = s
    BY <1>1, <1>2, <2>1 DEF Begins, Copying, RowsInv, RepoTypeOK, Kinds, RowFits
  <2>2. CASE t # s
    <3>1. /\ job'[t] = job[t] /\ does'[t] = does[t] /\ job[t] # None
          /\ job[t] \in Jobs /\ (job[t].kind = "fork" => job[t].parent \in Repos)
      BY <1>2, <2>2 DEF JobSteps
    <3>2. job[t].repo \in Repos /\ job[t].repo # j.repo /\ job[t].from \in Paths
      BY <1>2, <3>1 DEF Jobs
    <3>3. row'[job[t].repo] = row[job[t].repo]
      BY <1>3, <3>2
    <3>4. job[t].kind = "fork" /\ row[job[t].parent] = job[t].from
          => row'[job[t].parent] = job[t].from
      BY <1>4, <3>1, <3>2
    <3> QED
      BY <1>2, <3>1, <3>3, <3>4 DEF JobRow, RowFits
  <2> QED
    BY <2>1, <2>2
<1>7. RowsInv'
  <2>1. CASE j.kind = "create"
    BY <1>1, <1>2, <1>3, <2>1 DEF Begins, RowsInv, Named, Shape, RepoTypeOK, Kept
  <2>2. CASE j.kind # "create"
    BY <1>1, <1>2, <2>2 DEF Begins, RowsInv, Kept
  <2> QED
    BY <2>1, <2>2
<1> QED
  BY <1>5, <1>6, <1>7

\* Two requests under their locks have none in common.
LEMMA LocksApart ==
    ASSUME LocksHeld, NEW s \in Slots, NEW t \in Slots, s # t,
           does[s] \in Holding, does[t] \in Holding
    PROVE  Locks(s) \cap Locks(t) = {}
  BY DEF LocksHeld

LEMMA StepRows ==
    ASSUME Orderly, KeptForOne, RepoTypeOK, JobSteps, JobsApart, LocksHeld, JobShape, JobRow,
           RowsInv, NEW s \in Slots, Step(s)
    PROVE  JobShape' /\ JobRow' /\ RowsInv'
<1> DEFINE j == job[s]
<1> USE LifecycleAssumption
<1>1. /\ j # None /\ j \in Jobs /\ j.repo \in Repos /\ j.from \in Paths /\ j.to \in Paths
      /\ j.kind \in Kinds
      /\ \A t \in Slots \ {s} : job'[t] = job[t] /\ does'[t] = does[t]
      /\ job'[s] = j \/ job'[s] = None
  BY StepJob, StepGoes DEF Continues, Finishes, RepoTypeOK
<1>2. \A t \in Slots \ {s} : job[t] # None => /\ job[t] \in Jobs /\ job[t].repo \in Repos
                                              /\ job[t].from \in Paths /\ job[t].repo # j.repo
                                              /\ job[t].kind = "fork" => job[t].parent \in Repos
  BY <1>1 DEF JobsApart, JobSteps, Jobs
<1>3. RowFits(s) /\ Shape(j)
  BY <1>1, StepKind DEF JobRow, JobShape
<1>4. \/ UNCHANGED <<row, ready, lineage>>
      \/ InitStore(s) \/ Insert(s) \/ Update(s)
      \/ /\ does[s] = "undo" \/ (does[s] = "drop" /\ does' = [does EXCEPT ![s] = "wipe"])
         /\ row' = [row EXCEPT ![j.repo] = Gone]
         /\ UNCHANGED <<ready, lineage>>
  BY StepRow
<1>5. /\ \A r \in Repos \ {j.repo} : row'[r] = row[r] /\ lineage'[r] = lineage[r]
                                      /\ (r \in ready' <=> r \in ready)
      /\ ready \subseteq ready'
  BY <1>4 DEF InitStore, Insert, Update, RepoTypeOK
<1>6. JobShape'
  BY <1>1, <1>5 DEF JobShape, Shape
<1>7. ASSUME NEW t \in Slots \ {s}, job[t] # None PROVE RowFits(t)'
  <2>1. RowFits(t) /\ Shape(job[t])
    BY <1>7 DEF JobRow, JobShape
  <2>2. ASSUME job[t].kind = "fork", does[t] \in Copying PROVE row'[job[t].parent] = job[t].from
    <3>1. job[t].parent \in ready /\ row[job[t].parent] = job[t].from /\ job[t].from \in Paths
          /\ job[t].parent \in Repos
      BY <1>2, <2>1, <2>2, <1>7 DEF RowFits, Shape
    <3>2. ASSUME does[s] \in Holding, row[j.repo] = j.from PROVE job[t].parent # j.repo
      <4>1. does[t] \in Holding
        BY <2>2 DEF Copying, Holding
      <4>2. job[t].from \in Locks(t) /\ j.from \in Locks(s)
        BY DEF Locks
      <4> QED
        BY <1>7, <3>1, <3>2, <4>1, <4>2, LocksApart
    <3>3. CASE Insert(s)
      BY <1>1, <1>3, <1>5, <3>1, <3>3, StepKind DEF Insert, RowFits
    <3>4. CASE Update(s)
      BY <1>1, <1>3, <1>5, <3>1, <3>2, <3>4, StepKind DEF Update, RowFits, Holding
    <3>5. CASE does[s] = "undo"
      BY <1>1, <1>3, <1>5, <3>1, <3>5, StepKind DEF RowFits
    <3>6. CASE does[s] = "drop"
      BY <1>1, <1>3, <1>5, <3>1, <3>2, <3>6, StepKind DEF RowFits, Holding
    <3> QED
      BY <1>4, <3>1, <3>3, <3>4, <3>5, <3>6 DEF InitStore
  <2> QED
    BY <1>1, <1>2, <1>5, <1>7, <2>1, <2>2 DEF RowFits
<1>8. job'[s] # None => RowFits(s)'
  <2> SUFFICES ASSUME job'[s] = j PROVE RowFits(s)'
    BY <1>1
  <2>1. CASE UNCHANGED <<row, ready, lineage>>
    BY <1>1, <1>3, <2>1, StepWay DEF RowFits, RepoTypeOK
  <2>2. CASE InitStore(s) \/ Insert(s) \/ Update(s)
    BY <1>1, <2>2 DEF InitStore, Insert, Update, Answer, RepoTypeOK
  <2>3. CASE does[s] = "undo"
    BY <1>1, <2>3, StepWay
  <2>4. CASE does[s] = "drop" /\ does' = [does EXCEPT ![s] = "wipe"]
             /\ row' = [row EXCEPT ![j.repo] = Gone]
    BY <1>1, <2>4, StepKind DEF RowFits, RepoTypeOK
  <2> QED
    BY <1>4, <2>1, <2>2, <2>3, <2>4
<1>9. JobRow'
  BY <1>1, <1>7, <1>8 DEF JobRow
<1>10. RowsInv'
  <2>1. CASE UNCHANGED <<row, ready, lineage>>
    BY <2>1 DEF RowsInv
  <2>2. CASE InitStore(s)
    BY <1>1, <1>3, <2>2, StepKind DEF InitStore, RowFits, RowsInv
  <2>3. CASE Insert(s)
    BY <1>1, <1>3, <1>5, <2>3, StepKind DEF Insert, Shape, RowsInv, Named, RepoTypeOK
  <2>4. CASE Update(s)
    <3>1. row' = [row EXCEPT ![j.repo] = j.to] /\ j.kind \in {"rename", "transfer"}
          /\ UNCHANGED <<ready, lineage>> /\ ~Named(j.to)
      BY <1>1, <1>3, <2>4, StepKind DEF Update, RowFits
    <3>2. \A r \in Repos : Kept(r, j.to) => r = j.repo
      BY <1>1, <1>3, <3>1 DEF Shape, KeptForOne
    <3> QED
      BY <1>1, <3>1, <3>2 DEF RowsInv, Named, RepoTypeOK
  <2>5. CASE row' = [row EXCEPT ![j.repo] = Gone] /\ UNCHANGED <<ready, lineage>>
    BY <1>1, <2>5 DEF RowsInv, RepoTypeOK, Kept
  <2> QED
    BY <1>4, <2>1, <2>2, <2>3, <2>4, <2>5
<1> QED
  BY <1>6, <1>9, <1>10

\* No repository anybody knows of has the name a fork or a transfer is moving to, or
\* the one a deletion is wiping.
Vacant(p) == \A r \in ready : row[r] # p
VacantInv == \A s \in Slots : job[s] # None =>
    /\ job[s].kind \in {"fork", "transfer"} /\ does[s] \in Moving => Vacant(job[s].to)
    /\ does[s] = "wipe" => Vacant(job[s].from)

LEMMA VacantStep ==
    ASSUME Orderly, KeptForOne, RepoTypeOK, JobSteps, JobsApart, LocksHeld, JobShape, JobRow,
           RowsInv, VacantInv, [RepoNext]_repoVars
    PROVE  VacantInv'
<1> USE LifecycleAssumption
<1>1. CASE UNCHANGED repoVars
  BY <1>1 DEF repoVars, VacantInv, Vacant
<1>2. ASSUME NEW s \in Slots, Request(s) PROVE VacantInv'
  <2>1. PICK j \in Jobs : Begins(s, j)
    BY <1>2, RequestBegins
  <2>2. /\ job'[s] = j /\ does'[s] = "lock" /\ ready' = ready
        /\ \A t \in Slots \ {s} : job'[t] = job[t] /\ does'[t] = does[t]
    BY <2>1 DEF Begins, Asks, RepoTypeOK, Jobs
  <2>3. \A r \in ready : row'[r] = row[r]
    BY <2>1 DEF Begins, RowsInv, RepoTypeOK
  <2> QED
    BY <2>2, <2>3 DEF VacantInv, Vacant, Moving
<1>3. ASSUME NEW s \in Slots, Step(s) PROVE VacantInv'
  <2> DEFINE j == job[s]
  <2>1. /\ j # None /\ j \in Jobs /\ j.repo \in Repos /\ j.from \in Paths /\ j.to \in Paths
        /\ j.kind \in Kinds
        /\ \A t \in Slots \ {s} : job'[t] = job[t] /\ does'[t] = does[t]
        /\ job'[s] = j \/ job'[s] = None
    BY <1>3, StepJob, StepGoes DEF Continues, Finishes, RepoTypeOK
  <2>2. RowFits(s) /\ Shape(j)
    BY <2>1 DEF JobRow, JobShape
  <2>3. \/ UNCHANGED <<row, ready>>
        \/ InitStore(s) \/ Insert(s) \/ Update(s)
        \/ /\ does[s] = "undo" \/ (does[s] = "drop" /\ does' = [does EXCEPT ![s] = "wipe"])
           /\ row' = [row EXCEPT ![j.repo] = Gone] /\ ready' = ready
    BY <1>3, StepRow
  <2>4. ASSUME NEW p \in Paths, Vacant(p), ~Vacant(p)'
        PROVE  p = j.to /\ does[s] \in Holding /\ (p \in Locks(s) \/ Kept(j.repo, p))
    <3>1. CASE UNCHANGED <<row, ready>>
      BY <2>4, <3>1 DEF Vacant
    <3>2. CASE InitStore(s)
      BY <2>1, <2>2, <2>4, <3>2, StepKind DEF InitStore, Vacant, RowFits, Holding, Locks
    <3>3. CASE Insert(s)
      BY <2>1, <2>2, <2>4, <3>3, StepKind DEF Insert, Vacant, Holding, Locks, RepoTypeOK
    <3>4. CASE Update(s)
      BY <2>1, <2>2, <2>4, <3>4, StepKind DEF Update, Vacant, Holding, Locks, RepoTypeOK, Shape
    <3>5. CASE row' = [row EXCEPT ![j.repo] = Gone] /\ ready' = ready
      BY <2>1, <2>4, <3>5 DEF Vacant, RepoTypeOK
    <3> QED
      BY <2>3, <3>1, <3>2, <3>3, <3>4, <3>5
  <2>5. ASSUME NEW t \in Slots \ {s}, job[t] # None, NEW p \in Paths, Vacant(p), ~Vacant(p)'
        PROVE  /\ ~(job[t].kind \in {"fork", "transfer"} /\ does[t] \in Moving /\ p = job[t].to)
               /\ ~(does[t] = "wipe" /\ p = job[t].from)
    <3>1. p = j.to /\ does[s] \in Holding /\ (p \in Locks(s) \/ Kept(j.repo, p))
      BY <2>4, <2>5
    <3>2. Shape(job[t]) /\ job[t].repo # j.repo
      BY <2>1, <2>5 DEF JobShape, JobsApart
    <3>3. CASE job[t].kind \in {"fork", "transfer"} /\ does[t] \in Moving /\ p = job[t].to
      <4>1. does[t] \in Holding /\ p \in Locks(t)
        BY <3>3 DEF Moving, Holding, Locks
      <4> QED
        BY <2>1, <2>5, <3>1, <3>2, <3>3, <4>1, LocksApart DEF Shape
    <3>4. CASE does[t] = "wipe" /\ p = job[t].from
      <4>1. does[t] \in Holding /\ p \in Locks(t) /\ job[t].kind = "delete"
        BY <2>5, <3>4, StepKind DEF Holding, Locks
      <4> QED
        BY <2>1, <2>5, <3>1, <3>2, <3>4, <4>1, LocksApart DEF Shape
    <3> QED
      BY <3>3, <3>4
  <2>6. ASSUME NEW t \in Slots \ {s}, job[t] # None
        PROVE  /\ job[t].kind \in {"fork", "transfer"} /\ does[t] \in Moving => Vacant(job[t].to)'
               /\ does[t] = "wipe" => Vacant(job[t].from)'
    <3>1. job[t].to \in Paths /\ job[t].from \in Paths
      BY <2>6 DEF JobSteps, Jobs
    <3>2. ASSUME job[t].kind \in {"fork", "transfer"}, does[t] \in Moving
          PROVE  Vacant(job[t].to)'
      <4>1. Vacant(job[t].to)
        BY <2>6, <3>2 DEF VacantInv
      <4>2. job'[t] = job[t]
        BY <2>1
      <4>3. \A p \in Paths : p = job[t].to /\ Vacant(p) => Vacant(p)'
        BY <2>5, <2>6, <3>2
      <4> QED
        BY <3>1, <4>1, <4>2, <4>3 DEF Vacant
    <3>3. ASSUME does[t] = "wipe" PROVE Vacant(job[t].from)'
      <4>1. Vacant(job[t].from)
        BY <2>6, <3>3 DEF VacantInv
      <4>2. job'[t] = job[t]
        BY <2>1
      <4>3. \A p \in Paths : p = job[t].from /\ Vacant(p) => Vacant(p)'
        BY <2>5, <2>6, <3>3
      <4> QED
        BY <3>1, <4>1, <4>2, <4>3 DEF Vacant
    <3> QED
      BY <3>2, <3>3
  <2>7. ASSUME job'[s] = j, j.kind \in {"fork", "transfer"}, does'[s] \in Moving
        PROVE  Vacant(j.to)'
    <3>1. Vacant(j.to)
      BY <1>3, <2>1, <2>7, StepWay DEF VacantInv, Vacant, Named, RepoTypeOK
    <3>2. UNCHANGED <<row, ready>> /\ j.to = j.to'
      <4>1. ~InitStore(s) /\ ~Insert(s) /\ ~Update(s)
        BY <2>1, <2>7 DEF InitStore, Insert, Update, Answer, RepoTypeOK
      <4>2. does[s] \notin {"undo", "drop"}
        BY <2>1, <2>7, StepKind
      <4> QED
        BY <2>3, <2>7, <4>1, <4>2
    <3> QED
      BY <2>7, <3>1, <3>2 DEF Vacant
  <2>8. ASSUME job'[s] = j, does'[s] = "wipe" PROVE Vacant(j.from)'
    <3>1. does[s] = "drop" /\ row' = [row EXCEPT ![j.repo] = Gone] /\ j.kind = "delete"
      BY <1>3, <2>1, <2>8, StepWay, StepKind
    <3>2. row[j.repo] = j.from
      BY <2>2, <3>1 DEF RowFits
    <3>3. ready' = ready
      BY <2>3, <3>1 DEF InitStore, Insert, Update
    <3>4. \A r \in ready : row'[r] # j.from
      BY <2>1, <3>1, <3>2 DEF RowsInv, RepoTypeOK
    <3> QED
      BY <2>8, <3>3, <3>4 DEF Vacant
  <2> QED
    BY <2>1, <2>6, <2>7, <2>8 DEF VacantInv
<1> QED
  BY <1>1, <1>2, <1>3 DEF RepoNext

-----------------------------------------------------------------------------
(* Storage                                                                   *)

Storing == {"clear", "init", "copy", "insert", "remove", "back", "wipe", "land"}

\* Which names a step changes the storage of, and what it can bring there.
LEMMA StoreEffect ==
    ASSUME Orderly, RepoTypeOK, JobSteps, JobShape, NEW s \in Slots, Step(s), NEW p \in Paths
    PROVE  /\ store'[p] # store[p] =>
                 /\ does[s] \in Storing
                 /\ p = job[s].to \/ (p = job[s].from /\ job[s].kind \notin {"create", "fork"})
           /\ does[s] \in {"clear", "insert", "remove", "wipe"} => store'[p] \subseteq store[p]
           /\ does[s] \in {"clear", "copy"} /\ p # job[s].to => store'[p] = store[p]
           /\ does[s] = "copy" /\ job[s].kind # "fork" =>
                 store'[p] \subseteq store[p] \cup store[job[s].from]
           /\ does[s] = "back" => store'[job[s].to] = {}
                                  /\ store'[job[s].from] = store[job[s].from] \cup store[job[s].to]
           /\ does[s] = "land" => store'[p] = store[p] \/ store'[p] = store[p] \cup {job[s].repo}
<1> DEFINE Goal ==
      /\ store'[p] # store[p] =>
            /\ does[s] \in Storing
            /\ p = job[s].to \/ (p = job[s].from /\ job[s].kind \notin {"create", "fork"})
      /\ does[s] \in {"clear", "insert", "remove", "wipe"} => store'[p] \subseteq store[p]
      /\ does[s] \in {"clear", "copy"} /\ p # job[s].to => store'[p] = store[p]
      /\ does[s] = "copy" /\ job[s].kind # "fork" =>
            store'[p] \subseteq store[p] \cup store[job[s].from]
      /\ does[s] = "back" => store'[job[s].to] = {}
                             /\ store'[job[s].from] = store[job[s].from] \cup store[job[s].to]
      /\ does[s] = "land" => store'[p] = store[p] \/ store'[p] = store[p] \cup {job[s].repo}
<1>30. SUFFICES Goal
  OBVIOUS
<1>31. /\ job[s] # None /\ job[s].from \in Paths /\ job[s].to \in Paths /\ job[s].kind \in Kinds
       /\ job[s].kind \in {"fork", "rename", "transfer"} => job[s].from # job[s].to
  BY StepJob DEF JobShape, Shape
<1>32. /\ does[s] = "init" => job[s].kind = "create"
       /\ does[s] \in {"insert"} => job[s].kind = "fork"
       /\ does[s] \in {"remove", "back"} => job[s].kind \in {"rename", "transfer"}
       /\ does[s] = "wipe" => job[s].kind = "delete"
       /\ does[s] = "land" => job[s].kind = "push"
  <2>1. job[s] # None
    BY <1>31
  <2> QED
    BY <2>1, StepKind
<1> USE <1>31, <1>32 DEF Orderly, Storing, RepoTypeOK, Cleared, PartlyCleared, PartlyCopied
<1>1. CASE Lock(s)
  BY <1>1 DEF Lock, First
<1>2. CASE GiveUp(s)
  BY <1>2 DEF GiveUp
<1>3. CASE Check(s)
  BY <1>3 DEF Check, MayFork
<1>4. CASE Clear(s)
  BY <1>4 DEF Clear, AfterClear
<1>5. CASE InitStore(s)
  BY <1>5 DEF InitStore
<1>6. CASE CreateFails(s)
  BY <1>6 DEF CreateFails
<1>7. CASE Undo(s)
  BY <1>7 DEF Undo
<1>8. CASE Copy(s)
  BY <1>8 DEF Copy, Copied
<1>9. CASE ForkFails(s)
  BY <1>9 DEF ForkFails
<1>10. CASE MoveFails(s)
  BY <1>10 DEF MoveFails
<1>11. CASE Insert(s)
  BY <1>11 DEF Insert
<1>12. CASE InsertFails(s)
  BY <1>12 DEF InsertFails
<1>13. CASE Remove(s)
  <2>1. does[s] = "remove" /\ job[s].kind \in {"rename", "transfer"}
    BY <1>13 DEF Remove
  <2>2. PICK rest \in SUBSET store[job[s].from] : store' = [store EXCEPT ![job[s].from] = rest]
    BY <1>13 DEF Remove
  <2>3. store'[p] = IF p = job[s].from THEN rest ELSE store[p]
    BY <2>2
  <2> QED
    BY <2>1, <2>3
<1>14. CASE Update(s)
  BY <1>14 DEF Update
<1>15. CASE UpdateFails(s)
  BY <1>15 DEF UpdateFails
<1>16. CASE Back(s)
  <2>1. does[s] = "back" /\ job[s].kind \in {"rename", "transfer"}
    BY <1>16 DEF Back
  <2>2. store' = [store EXCEPT ![job[s].from] = @ \cup store[job[s].to], ![job[s].to] = {}]
    BY <1>16 DEF Back
  <2>3. /\ store'[job[s].to] = {}
        /\ store'[job[s].from] = store[job[s].from] \cup store[job[s].to]
        /\ p \notin {job[s].from, job[s].to} => store'[p] = store[p]
    BY <1>31, <2>1, <2>2 DEF RepoTypeOK
  <2> QED
    BY <2>1, <2>3
<1>17. CASE Drop(s)
  BY <1>17 DEF Drop
<1>18. CASE Wipe(s)
  <2>1. does[s] = "wipe" /\ job[s].kind = "delete"
    BY <1>18 DEF Wipe
  <2>2. PICK rest \in SUBSET store[job[s].from] : store' = [store EXCEPT ![job[s].from] = rest]
    BY <1>18 DEF Wipe
  <2>3. store'[p] = IF p = job[s].from THEN rest ELSE store[p]
    BY <2>2
  <2> QED
    BY <2>1, <2>3
<1>19. CASE LandPush(s)
  BY <1>19 DEF LandPush
<1>20. CASE Kill(s)
  BY <1>20 DEF Kill
<1> HIDE DEF RepoTypeOK, Goal, Storing
<1> QED
  BY <1>1, <1>2, <1>3, <1>4, <1>5, <1>6, <1>7, <1>8, <1>9, <1>10, <1>11, <1>12, <1>13,
     <1>14, <1>15, <1>16, <1>17, <1>18, <1>19, <1>20 DEF Step

\* The step that leads to each of these.
LEMMA PhaseWay ==
    ASSUME Orderly, RepoTypeOK, JobSteps, NEW s \in Slots, Step(s)
    PROVE  /\ does'[s] = "init" => Clear(s)
           /\ does'[s] = "copy" => Clear(s) \/ job[s].kind = "rename"
           /\ does'[s] \in {"insert", "remove"} => Copy(s)
           /\ does'[s] = "update" => Remove(s)
           /\ does'[s] = "back" => UpdateFails(s)
<1> USE StepJob, StepKind DEF Orderly, Answer, Go, RepoTypeOK
<1>1. CASE Lock(s)
  BY <1>1 DEF Lock, First, Kinds
<1>2. CASE GiveUp(s)
  BY <1>2 DEF GiveUp
<1>3. CASE Check(s)
  BY <1>3 DEF Check
<1>4. CASE Clear(s)
  BY <1>4 DEF Clear, AfterClear
<1>5. CASE InitStore(s)
  BY <1>5 DEF InitStore
<1>6. CASE CreateFails(s)
  BY <1>6 DEF CreateFails
<1>7. CASE Undo(s)
  BY <1>7 DEF Undo
<1>8. CASE Copy(s)
  BY <1>8 DEF Copy
<1>9. CASE ForkFails(s)
  BY <1>9 DEF ForkFails
<1>10. CASE MoveFails(s)
  BY <1>10 DEF MoveFails
<1>11. CASE Insert(s)
  BY <1>11 DEF Insert
<1>12. CASE InsertFails(s)
  BY <1>12 DEF InsertFails
<1>13. CASE Remove(s)
  BY <1>13 DEF Remove
<1>14. CASE Update(s)
  BY <1>14 DEF Update
<1>15. CASE UpdateFails(s)
  BY <1>15 DEF UpdateFails
<1>16. CASE Back(s)
  BY <1>16 DEF Back
<1>17. CASE Drop(s)
  BY <1>17 DEF Drop
<1>18. CASE Wipe(s)
  BY <1>18 DEF Wipe
<1>19. CASE LandPush(s)
  BY <1>19 DEF LandPush
<1>20. CASE Kill(s)
  BY <1>20 DEF Kill
<1> HIDE DEF RepoTypeOK
<1> QED
  BY <1>1, <1>2, <1>3, <1>4, <1>5, <1>6, <1>7, <1>8, <1>9, <1>10, <1>11, <1>12, <1>13,
     <1>14, <1>15, <1>16, <1>17, <1>18, <1>19, <1>20 DEF Step

\* While a request is under its locks nobody else changes what is below the names it
\* writes: they are locked, or kept for it.
LEMMA Undisturbed ==
    ASSUME Orderly, KeptForOne, RepoTypeOK, JobSteps, JobsApart, LocksHeld, JobShape,
           NEW s \in Slots, NEW t \in Slots, s # t, Step(t),
           job[s] # None, does[s] \in Holding,
           NEW p \in Paths, p = job[s].to \/ (p = job[s].from /\ job[s].kind # "fork")
    PROVE  store'[p] = store[p]
<1> SUFFICES ASSUME store'[p] # store[p] PROVE FALSE
  OBVIOUS
<1>1. /\ does[t] \in Holding
      /\ p = job[t].to \/ (p = job[t].from /\ job[t].kind \notin {"create", "fork"})
  BY StoreEffect DEF Storing, Holding
<1>2. /\ job[t] # None /\ Shape(job[t]) /\ Shape(job[s]) /\ job[t].repo # job[s].repo
      /\ job[t].kind \in Kinds /\ job[s].kind \in Kinds
      /\ job[t].repo \in Repos /\ job[s].repo \in Repos
  BY StepJob DEF JobShape, JobsApart, JobSteps, Jobs
<1>3. CASE p \in Locks(s) /\ p \in Locks(t)
  BY <1>1, <1>3, LocksApart
<1>4. CASE p \notin Locks(s)
  <2>1. job[s].kind = "rename" /\ p = job[s].to
    BY <1>4 DEF Locks
  <2> QED
    BY <1>1, <1>2, <2>1 DEF Shape, KeptForOne, Kinds
<1>5. CASE p \notin Locks(t)
  <2>1. job[t].kind = "rename" /\ p = job[t].to
    BY <1>1, <1>5 DEF Locks
  <2> QED
    BY <1>1, <1>2, <2>1 DEF Shape, KeptForOne, Kinds
<1> QED
  BY <1>3, <1>4, <1>5

\* A request is between moving its repository's storage and changing its row.
Away(r) == \E s \in Slots : job[s] # None /\ job[s].repo = r /\ does[s] \in {"update", "back"}

Content == \A r \in ready : row[r] \in Paths /\ ~Away(r) => store[row[r]] = lineage[r]

\* What a request has stored by the step it is at.
Stored(s) ==
    /\ does[s] = "init" => store[job[s].to] = {}
    /\ does[s] = "copy" /\ job[s].kind \in {"fork", "transfer"} => store[job[s].to] = {}
    /\ does[s] = "insert" => store[job[s].to] = lineage[job[s].parent] \cup {job[s].repo}
    /\ does[s] \in {"remove", "update", "back"} /\ job[s].repo \in ready =>
          store[job[s].to] = lineage[job[s].repo]
    /\ does[s] \in {"update", "back"} /\ job[s].repo \in ready => store[job[s].from] = {}

Phases == \A s \in Slots : job[s] # None => Stored(s)

\* Below a name kept for a repository is nothing but its own.
Forming(r) == row[r] = New
              \/ \E s \in Slots : job[s] # None /\ job[s].repo = r /\ job[s].kind = "create"
KeptClean == \A r \in Repos, p \in Paths :
    Kept(r, p) /\ (r \in ready \/ Forming(r)) => store[p] \subseteq lineage[r]

RowPart == JobsApart /\ LocksHeld /\ JobShape /\ JobRow /\ RowsInv /\ VacantInv
StorePart == Content /\ Phases /\ KeptClean

LEMMA RequestStores ==
    ASSUME Orderly, RepoTypeOK, JobSteps, RowPart, StorePart, NEW s \in Slots, Request(s)
    PROVE  StorePart'
<1> USE LifecycleAssumption DEF RowPart, StorePart
<1>1. PICK j \in Jobs : Begins(s, j)
  BY RequestBegins
<1>2. /\ job'[s] = j /\ does'[s] = "lock" /\ job[s] = None
      /\ UNCHANGED <<store, ready, lineage>>
      /\ \A t \in Slots \ {s} : job'[t] = job[t] /\ does'[t] = does[t]
      /\ j # None /\ j.repo \in Repos
  BY <1>1 DEF Begins, Asks, RepoTypeOK, Jobs
<1>3. \A r \in Repos : row'[r] = row[r] \/ (row[r] = New /\ r = j.repo)
  BY <1>1, <1>2 DEF Begins, RepoTypeOK
<1>4. Content'
  <2>1. \A r \in ready : row'[r] = row[r] /\ (Away(r) => Away(r)')
    BY <1>2, <1>3 DEF Away, RowsInv, RepoTypeOK
  <2> QED
    BY <1>2, <2>1 DEF Content
<1>5. Phases'
  BY <1>2 DEF Phases, Stored
<1>6. KeptClean'
  <2>1. \A r \in Repos : Forming(r)' => Forming(r)
    <3> SUFFICES ASSUME NEW r \in Repos, Forming(r)', row[r] # New PROVE Forming(r)
      BY DEF Forming
    <3>1. row'[r] = row[r]
      BY <1>3
    <3>2. PICK t \in Slots : job'[t] # None /\ job'[t].repo = r /\ job'[t].kind = "create"
      BY <3>1 DEF Forming
    <3>3. t # s
      BY <1>1, <1>2, <3>2 DEF Begins
    <3> QED
      BY <1>2, <3>2, <3>3 DEF Forming
  <2> QED
    BY <1>2, <2>1 DEF KeptClean, Kept
<1> QED
  BY <1>4, <1>5, <1>6

\* Whoever holds the lock of a repository's name, and is not moving it, finds its content.
LEMMA LockedContent ==
    ASSUME RepoTypeOK, JobSteps, LocksHeld, JobRow, Content,
           NEW r \in ready, NEW s \in Slots, row[r] \in Paths, does[s] \in Holding,
           does[s] \notin {"update", "back"}, row[r] \in Locks(s)
    PROVE  store[row[r]] = lineage[r]
<1>1. ASSUME NEW t \in Slots, job[t] # None, job[t].repo = r, does[t] \in {"update", "back"}
      PROVE  FALSE
  <2>1. row[r] = job[t].from
    BY <1>1, StepKind DEF JobRow, RowFits
  <2>2. row[r] \in Locks(t) /\ does[t] \in Holding /\ t # s
    BY <1>1, <2>1 DEF Locks, Holding
  <2> QED
    BY <2>2, LocksApart
<1> QED
  BY <1>1 DEF Content, Away

LEMMA StepPhases ==
    ASSUME Orderly, KeptForOne, RepoTypeOK, JobSteps, RowPart, StorePart, NEW s \in Slots, Step(s)
    PROVE  Phases'
<1> DEFINE j == job[s]
<1> USE LifecycleAssumption DEF RowPart, StorePart
<1>1. /\ j # None /\ j \in Jobs /\ j.repo \in Repos /\ j.from \in Paths /\ j.to \in Paths
      /\ j.kind \in Kinds
      /\ \A t \in Slots \ {s} : job'[t] = job[t] /\ does'[t] = does[t]
      /\ job'[s] = j \/ job'[s] = None
  BY StepJob, StepGoes DEF Continues, Finishes, RepoTypeOK
<1>2. RowFits(s) /\ Shape(j) /\ Stored(s)
  BY <1>1 DEF JobRow, JobShape, Phases
<1>3. /\ \A r \in Repos \ {j.repo} : lineage'[r] = lineage[r] /\ (r \in ready' <=> r \in ready)
      /\ \A r \in ready : r \in Repos /\ lineage'[r] = lineage[r]
  <2>1. CASE UNCHANGED <<ready, lineage>>
    BY <2>1 DEF RepoTypeOK
  <2>2. CASE InitStore(s)
    BY <1>1, <2>2 DEF InitStore, RepoTypeOK
  <2>3. CASE Insert(s)
    BY <1>1, <1>2, <2>3, StepKind DEF Insert, RepoTypeOK, RowFits, RowsInv
  <2> QED
    BY <2>1, <2>2, <2>3, StepRow DEF Update
<1>4. ASSUME NEW t \in Slots \ {s}, job[t] # None PROVE Stored(t)'
  <2>1. /\ job[t].repo # j.repo /\ job[t].repo \in Repos /\ job[t] \in Jobs
        /\ job[t].to \in Paths /\ job[t].from \in Paths
        /\ Stored(t) /\ Shape(job[t]) /\ job'[t] = job[t] /\ does'[t] = does[t]
    BY <1>1, <1>4 DEF JobsApart, JobSteps, Jobs, Phases, JobShape
  <2>2. does[t] \in {"init", "copy", "insert", "remove", "update", "back"} =>
           store'[job[t].to] = store[job[t].to]
    BY <1>4, <2>1, Undisturbed DEF Holding
  <2>3. does[t] \in {"update", "back"} => store'[job[t].from] = store[job[t].from]
    BY <1>4, <2>1, Undisturbed, StepKind DEF Holding
  <2>4. does[t] = "insert" => lineage'[job[t].parent] = lineage[job[t].parent]
    BY <1>3, <1>4, <2>1, StepKind DEF Shape
  <2> QED
    BY <1>3, <2>1, <2>2, <2>3, <2>4 DEF Stored
<1>5. ASSUME job'[s] = j PROVE Stored(s)'
  <2>1. CASE Clear(s)
    BY <1>1, <1>5, <2>1, StepKind DEF Clear, Cleared, AfterClear, Go, Stored, RepoTypeOK
  <2>2. CASE Copy(s)
    <3>1. does[s] = "copy" /\ does[s] \in Holding /\ j.from \in Locks(s)
          /\ j.kind \in {"fork", "rename", "transfer"} /\ UNCHANGED <<ready, lineage>>
      BY <1>1, <2>2, StepKind DEF Copy, Holding, Locks
    <3>2. CASE j.kind = "fork"
      <4>1. j.parent \in ready /\ row[j.parent] = j.from
        BY <1>2, <3>1, <3>2 DEF Shape, RowFits, Copying
      <4>2. store[j.from] = lineage[j.parent]
        BY <1>1, <3>1, <4>1, LockedContent
      <4>3. store'[j.to] = store[j.to] \cup store[j.from] \cup {j.repo}
        BY <1>1, <2>2, <3>2 DEF Copy, Copied, RepoTypeOK
      <4>4. store[j.to] = {} /\ does'[s] = "insert"
        BY <1>2, <2>2, <3>1, <3>2 DEF Stored, Copy, Go, RepoTypeOK
      <4> QED
        BY <1>5, <3>1, <4>2, <4>3, <4>4 DEF Stored
    <3>3. CASE j.kind # "fork" /\ j.repo \in ready
      <4>1. store[j.from] = lineage[j.repo]
        BY <1>1, <1>2, <3>1, <3>3, LockedContent DEF RowFits
      <4>2. store'[j.to] = store[j.to] \cup store[j.from]
        BY <1>1, <2>2, <3>3 DEF Copy, Copied, RepoTypeOK
      <4>3. store[j.to] \subseteq lineage[j.repo]
        <5>1. CASE j.kind = "rename"
          BY <1>1, <1>2, <3>3, <5>1 DEF KeptClean, Shape
        <5> QED
          BY <1>2, <3>1, <3>3, <5>1 DEF Stored
      <4>4. does'[s] = "remove"
        BY <2>2, <3>3 DEF Copy, Go, RepoTypeOK
      <4> QED
        BY <1>5, <3>1, <4>1, <4>2, <4>3, <4>4 DEF Stored
    <3>4. CASE j.kind # "fork" /\ j.repo \notin ready
      <4>1. does'[s] = "remove"
        BY <2>2, <3>4 DEF Copy, Go, RepoTypeOK
      <4> QED
        BY <1>5, <3>1, <3>4, <4>1 DEF Stored
    <3> QED
      BY <3>2, <3>3, <3>4
  <2>3. CASE Remove(s)
    <3>1. /\ does'[s] = "update" /\ store' = [store EXCEPT ![j.from] = {}]
          /\ UNCHANGED <<ready, lineage>> /\ does[s] = "remove" /\ j.from # j.to
      BY <1>1, <1>2, <2>3, StepKind DEF Remove, Cleared, Go, Orderly, RepoTypeOK, Shape
    <3> QED
      BY <1>1, <1>2, <1>5, <3>1 DEF Stored, RepoTypeOK
  <2>4. CASE UpdateFails(s)
    BY <1>1, <1>2, <1>5, <2>4 DEF UpdateFails, Go, Stored, RepoTypeOK
  <2>5. CASE j.kind = "rename" /\ does'[s] = "copy"
    BY <1>5, <2>5 DEF Stored
  <2>6. CASE does'[s] \notin {"init", "copy", "insert", "remove", "update", "back"}
    BY <2>6 DEF Stored
  <2> QED
    BY <2>1, <2>2, <2>3, <2>4, <2>5, <2>6, PhaseWay
<1> QED
  BY <1>1, <1>4, <1>5 DEF Phases

LEMMA StepContent ==
    ASSUME Orderly, KeptForOne, RepoTypeOK, JobSteps, RowPart, StorePart, NEW s \in Slots, Step(s)
    PROVE  Content'
<1> DEFINE j == job[s]
<1> USE LifecycleAssumption DEF RowPart, StorePart
<1>1. /\ j # None /\ j \in Jobs /\ j.repo \in Repos /\ j.from \in Paths /\ j.to \in Paths
      /\ j.kind \in Kinds
      /\ \A t \in Slots \ {s} : job'[t] = job[t] /\ does'[t] = does[t]
      /\ job'[s] = j \/ job'[s] = None
      /\ \A t \in Slots \ {s} : job[t] # None => job[t].repo # j.repo
  BY StepJob, StepGoes DEF Continues, Finishes, RepoTypeOK, JobsApart
<1>2. RowFits(s) /\ Shape(j) /\ Stored(s)
  BY <1>1 DEF JobRow, JobShape, Phases
<1>3. \/ UNCHANGED <<row, ready, lineage>>
      \/ InitStore(s) \/ Insert(s) \/ Update(s)
      \/ /\ row' = [row EXCEPT ![j.repo] = Gone]
         /\ UNCHANGED <<ready, lineage>>
  BY StepRow
<1>4. ASSUME NEW r \in ready', row'[r] \in Paths, ~Away(r)', r # j.repo
      PROVE  store'[row'[r]] = lineage'[r]
  <2>1. r \in ready /\ row'[r] = row[r] /\ lineage'[r] = lineage[r] /\ r \in Repos
    BY <1>1, <1>3, <1>4 DEF InitStore, Insert, Update, RepoTypeOK
  <2>2. ~Away(r)
    BY <1>1, <1>4 DEF Away
  <2>3. store[row[r]] = lineage[r]
    BY <1>4, <2>1, <2>2 DEF Content
  <2>4. ASSUME store'[row[r]] # store[row[r]] PROVE FALSE
    <3>1. /\ does[s] \in Storing
          /\ row[r] = j.to \/ (row[r] = j.from /\ j.kind \notin {"create", "fork"})
      BY <1>4, <2>1, <2>4, StepJob, StepTypes, StoreEffect
    <3>2. row[j.repo] # row[r]
      BY <1>1, <1>4, <2>1 DEF RowsInv
    <3>3. CASE j.kind \in {"create", "push"}
      BY <1>2, <3>1, <3>2, <3>3 DEF RowFits, Shape
    <3>4. CASE j.kind \in {"fork", "transfer"}
      <4>1. row[r] = j.to
        BY <1>2, <3>1, <3>2, <3>4 DEF RowFits
      <4>2. does[s] \in Moving
        BY <1>1, <3>1, <3>4, StepKind DEF Storing, Moving
      <4> QED
        BY <1>1, <2>1, <3>4, <4>1, <4>2 DEF VacantInv, Vacant
    <3>5. CASE j.kind = "rename"
      BY <1>1, <1>2, <1>4, <2>1, <3>1, <3>2, <3>5 DEF RowFits, RowsInv, Shape
    <3>6. CASE j.kind = "delete"
      BY <1>1, <1>2, <2>1, <3>1, <3>6, StepKind DEF Storing, Shape, VacantInv, Vacant
    <3> QED
      BY <1>1, <3>3, <3>4, <3>5, <3>6 DEF Kinds
  <2> QED
    BY <2>1, <2>3, <2>4
<1>5. ASSUME NEW r \in ready', row'[r] \in Paths, ~Away(r)', r = j.repo
      PROVE  store'[row'[r]] = lineage'[r]
  <2>1. CASE InitStore(s)
    BY <1>1, <1>2, <1>5, <2>1, StepKind DEF InitStore, RowFits, Stored, RepoTypeOK
  <2>2. CASE Insert(s)
    <3>1. row'[r] = j.to /\ store' = store /\ lineage'[r] = lineage[r] \cup lineage[j.parent]
          /\ does[s] = "insert" /\ j.kind = "fork"
      BY <1>1, <1>5, <2>2, StepKind DEF Insert, RepoTypeOK
    <3>2. lineage[r] = {r}
      BY <1>1, <1>2, <1>5, <3>1 DEF RowFits, RowsInv
    <3> QED
      BY <1>2, <1>5, <3>1, <3>2 DEF Stored
  <2>3. CASE Update(s)
    BY <1>1, <1>2, <1>5, <2>3, StepKind DEF Update, Stored, RowFits, RepoTypeOK
  <2>4. ASSUME UNCHANGED <<row, ready, lineage>>, does[s] \notin {"remove", "update", "back"}
        PROVE  store'[row'[r]] = lineage'[r]
    <3>1. r \in ready /\ row[r] \in Paths
      BY <1>5, <2>4
    <3>2. store[row[r]] = lineage[r]
      BY <1>1, <1>5, <2>4, <3>1 DEF Content, Away
    <3>3. CASE j.kind = "create" \/ j.kind = "fork"
      BY <1>2, <1>5, <3>1, <3>3 DEF RowFits, RowsInv
    <3>4. CASE j.kind \in {"rename", "transfer"}
      <4>1. row[r] = j.from /\ j.from # j.to
        BY <1>2, <1>5, <3>4 DEF RowFits, Shape
      <4>2. store'[j.from] = store[j.from]
        <5>1. CASE store'[j.from] # store[j.from]
          <6>1. does[s] \in Storing
            BY <1>1, <1>5, <5>1, StoreEffect
          <6>2. does[s] \in {"clear", "copy"}
            BY <1>1, <1>5, <2>4, <3>4, <6>1, StepKind DEF Storing
          <6> QED
            BY <1>1, <1>5, <4>1, <6>2, StoreEffect
        <5> QED
          BY <5>1
      <4>3. row'[r] = j.from /\ lineage'[r] = lineage[r] /\ store[j.from] = lineage[r]
        BY <2>4, <3>2, <4>1
      <4> QED
        BY <4>2, <4>3
    <3>5. CASE j.kind = "delete"
      <4>1. does[s] # "wipe" /\ row[r] = j.from
        BY <1>2, <1>5, <3>1, <3>5 DEF RowFits
      <4>2. does[s] \notin Storing
        BY <1>1, <1>5, <2>4, <3>5, <4>1, StepKind DEF Storing
      <4>3. store'[j.from] = store[j.from]
        BY <1>1, <1>5, <4>2, StoreEffect
      <4> QED
        BY <2>4, <3>2, <4>1, <4>3
    <3>6. CASE j.kind = "push"
      <4>1. row[r] = j.from /\ r \in lineage[r]
        BY <1>1, <1>2, <1>5, <3>6 DEF RowFits, RowsInv
      <4>2. does[s] = "land" \/ does[s] \notin Storing
        BY <1>1, <1>5, <2>4, <3>6, StepKind DEF Storing
      <4>3. store'[j.from] = store[j.from] \/ store'[j.from] = store[j.from] \cup {r}
        BY <1>1, <1>5, <4>2, StoreEffect
      <4>4. store[j.from] = lineage[r]
        BY <3>2, <4>1
      <4>5. store[j.from] \cup {r} = store[j.from]
        BY <4>1, <4>4
      <4>6. row'[r] = j.from /\ lineage'[r] = lineage[r]
        BY <2>4, <4>1
      <4> QED
        BY <4>3, <4>4, <4>5, <4>6
    <3> QED
      BY <1>1, <1>5, <3>3, <3>4, <3>5, <3>6 DEF Kinds
  <2>5. CASE does[s] \in {"remove", "update", "back"} /\ ~Update(s)
    <3>1. j.kind \in {"rename", "transfer"} /\ row[r] = j.from /\ j.from # j.to
      BY <1>1, <1>2, <1>5, <2>5, StepKind DEF RowFits, Shape
    <3>2. ~Kill(s)
      BY <3>1 DEF Kill, Orderly
    <3>3. ASSUME Remove(s) \/ UpdateFails(s) PROVE FALSE
      <4>1. job'[s] = j /\ does'[s] \in {"update", "back"}
        BY <3>3 DEF Remove, UpdateFails, Go, Orderly, RepoTypeOK
      <4> QED
        BY <1>1, <1>5, <4>1 DEF Away
    <3>4. Back(s)
      BY <2>5, <3>1, <3>2, <3>3 DEF Step, Lock, GiveUp, Check, Clear, InitStore, CreateFails,
         Undo, Copy, ForkFails, MoveFails, Insert, InsertFails, Drop, Wipe, LandPush
    <3>5. does[s] = "back" /\ UNCHANGED <<row, ready, lineage>>
      BY <3>4 DEF Back
    <3>6. store'[j.from] = store[j.from] \cup store[j.to]
      BY <1>1, <1>5, <3>5, StoreEffect
    <3> QED
      BY <1>2, <1>5, <3>1, <3>5, <3>6 DEF Stored
  <2>6. CASE row' = [row EXCEPT ![j.repo] = Gone]
    BY <1>1, <1>5, <2>6 DEF RepoTypeOK
  <2> QED
    BY <1>3, <2>1, <2>2, <2>3, <2>4, <2>5, <2>6
<1> HIDE DEF j
<1> QED
  BY <1>4, <1>5 DEF Content

LEMMA StepKeptClean ==
    ASSUME Orderly, KeptForOne, RepoTypeOK, JobSteps, RowPart, StorePart, NEW s \in Slots, Step(s)
    PROVE  KeptClean'
<1> DEFINE j == job[s]
<1> USE LifecycleAssumption DEF RowPart, StorePart
<1>1. /\ j # None /\ j \in Jobs /\ j.repo \in Repos /\ j.from \in Paths /\ j.to \in Paths
      /\ j.kind \in Kinds
      /\ \A t \in Slots \ {s} : job'[t] = job[t]
      /\ job'[s] = j \/ job'[s] = None
  BY StepJob, StepGoes DEF Continues, Finishes, RepoTypeOK
<1>2. RowFits(s) /\ Shape(j) /\ Stored(s)
  BY <1>1 DEF JobRow, JobShape, Phases
<1>3. \/ UNCHANGED <<row, ready, lineage>>
      \/ InitStore(s) \/ Insert(s) \/ Update(s)
      \/ /\ row' = [row EXCEPT ![j.repo] = Gone]
         /\ UNCHANGED <<ready, lineage>>
  BY StepRow
<1>4. \A r \in Repos : lineage[r] \subseteq lineage'[r]
  BY <1>1, <1>3 DEF InitStore, Insert, Update, RepoTypeOK
<1>5. ASSUME NEW r \in Repos, r \in ready' \/ Forming(r)' PROVE r \in ready \/ Forming(r)
  <2>1. CASE Forming(r)'
    <3>1. row'[r] = New => row[r] = New
      BY <1>1, <1>3 DEF InitStore, Insert, Update, RepoTypeOK
    <3> QED
      BY <1>1, <2>1, <3>1 DEF Forming
  <2>2. CASE r \in ready' /\ r \notin ready
    <3>1. CASE InitStore(s)
      BY <1>1, <2>2, <3>1, StepKind DEF InitStore, Forming
    <3>2. CASE Insert(s)
      BY <1>1, <1>2, <2>2, <3>2, StepKind DEF Insert, Forming, RowFits
    <3> QED
      BY <1>3, <2>2, <3>1, <3>2 DEF Update
  <2> QED
    BY <1>5, <2>1, <2>2
<1>6. ASSUME NEW r \in Repos, NEW p \in Paths, Kept(r, p), r \in ready \/ Forming(r)
      PROVE  store'[p] \subseteq lineage[r]
  <2>1. store[p] \subseteq lineage[r]
    BY <1>6 DEF KeptClean
  <2>2. ASSUME store'[p] # store[p] PROVE store'[p] \subseteq lineage[r]
    <3>1. does[s] \in Storing
          /\ (p = j.to \/ (p = j.from /\ j.kind \notin {"create", "fork"}))
      BY <2>2, StoreEffect
    <3>2. r = j.repo /\ j.kind \in {"rename", "transfer", "delete", "push"}
      BY <1>1, <1>2, <1>6, <3>1 DEF Shape, KeptForOne, Kinds
    <3>3. r \in ready
      <4>1. ~Forming(r)
        BY <1>1, <1>2, <3>2 DEF Forming, RowFits, JobsApart
      <4> QED
        BY <1>6, <4>1
    <3>4. CASE does[s] \in {"clear", "remove", "wipe"}
      BY <2>1, <3>4, StoreEffect
    <3>5. CASE does[s] = "copy"
      <4>1. j.kind # "fork" /\ row[r] = j.from /\ j.from \in Locks(s) /\ does[s] \in Holding
        BY <1>1, <1>2, <3>2, <3>5, StepKind DEF RowFits, Locks, Holding
      <4>2. store[j.from] = lineage[r]
        BY <1>1, <3>3, <3>5, <4>1, LockedContent
      <4>3. store'[p] \subseteq store[p] \cup store[j.from]
        BY <3>5, <4>1, StoreEffect
      <4> QED
        BY <2>1, <4>2, <4>3
    <3>6. CASE does[s] = "back"
      BY <1>2, <2>1, <3>1, <3>2, <3>3, <3>6, StoreEffect DEF Stored
    <3>7. CASE does[s] = "land"
      BY <1>1, <2>1, <3>2, <3>7, StoreEffect DEF RowsInv
    <3> QED
      BY <1>1, <3>1, <3>2, <3>4, <3>5, <3>6, <3>7, StepKind DEF Storing
  <2> QED
    BY <2>1, <2>2
<1> QED
  BY <1>4, <1>5, <1>6 DEF KeptClean, Kept

-----------------------------------------------------------------------------
(* The theorems                                                              *)

RepoInv == RepoTypeOK /\ JobSteps /\ RowPart /\ StorePart

LEMMA RepoInvInit == ASSUME KeptForOne, RepoInit PROVE RepoInv
<1> USE LifecycleAssumption DEF RepoInit
<1>1. RepoTypeOK /\ JobSteps
  BY DEF RepoTypeOK, JobSteps, Steps
<1>2. RowPart
  BY DEF RowPart, JobsApart, LocksHeld, Holding, JobShape, JobRow, RowsInv, VacantInv, KeptForOne
<1>3. Content
  BY DEF Content
<1>4. Phases
  BY DEF Phases
<1>5. KeptClean
  BY DEF KeptClean, KeptForOne
<1> QED
  BY <1>1, <1>2, <1>3, <1>4, <1>5 DEF RepoInv, StorePart

LEMMA RepoInvStep == ASSUME Orderly, KeptForOne, RepoInv, [RepoNext]_repoVars PROVE RepoInv'
<1> USE DEF RepoInv
<1>1. RepoTypeOK' /\ JobSteps'
  BY RepoTypeStep
<1>2. RowPart'
  <2>1. JobsApart' /\ LocksHeld'
    BY LocksStep DEF RowPart
  <2>2. VacantInv'
    BY VacantStep DEF RowPart
  <2>3. JobShape' /\ JobRow' /\ RowsInv'
    <3>1. CASE UNCHANGED repoVars
      BY <3>1 DEF RowPart, repoVars, JobShape, Shape, JobRow, RowFits, RowsInv
    <3>2. ASSUME NEW s \in Slots, Request(s) PROVE JobShape' /\ JobRow' /\ RowsInv'
      BY <3>2, RequestRows DEF RowPart
    <3>3. ASSUME NEW s \in Slots, Step(s) PROVE JobShape' /\ JobRow' /\ RowsInv'
      BY <3>3, StepRows DEF RowPart
    <3> QED
      BY <3>1, <3>2, <3>3 DEF RepoNext
  <2> QED
    BY <2>1, <2>2, <2>3 DEF RowPart
<1>3. StorePart'
  <2>1. CASE UNCHANGED repoVars
    BY <2>1 DEF StorePart, repoVars, Content, Away, Phases, Stored, KeptClean, Forming
  <2>2. ASSUME NEW s \in Slots, Request(s) PROVE StorePart'
    BY <2>2, RequestStores
  <2>3. ASSUME NEW s \in Slots, Step(s) PROVE StorePart'
    BY <2>3, StepPhases, StepContent, StepKeptClean DEF StorePart
  <2> QED
    BY <2>1, <2>2, <2>3 DEF RepoNext
<1> QED
  BY <1>1, <1>2, <1>3

LEMMA RepoInvContent == ASSUME RepoInv PROVE KeepsContent /\ OnlyOwnContent
<1>1. ASSUME NEW r \in Repos, AtRest(r) PROVE store[row[r]] = lineage[r]
  <2>1. r \in ready /\ row[r] \in Paths /\ lock[row[r]] = None
    BY <1>1 DEF AtRest
  <2>2. ASSUME NEW s \in Slots, job[s] # None, job[s].repo = r, does[s] \in {"update", "back"}
        PROVE  FALSE
    <3>1. row[r] = job[s].from /\ does[s] \in Holding
      BY <2>2, StepKind DEF RepoInv, RowPart, JobRow, RowFits, Holding
    <3>2. lock[row[r]] = s
      BY <3>1 DEF RepoInv, RowPart, LocksHeld, Locks
    <3> QED
      BY <2>1, <3>2, LifecycleAssumption
  <2> QED
    BY <2>1, <2>2 DEF RepoInv, StorePart, Content, Away
<1> QED
  BY <1>1 DEF KeepsContent, OnlyOwnContent

\* Requests and their steps keep rows, storage and locks of their types, whatever
\* fails, overlaps or is killed.
THEOREM RowsAndStorageTyped == RepoSpec => []RepoTypeOK
<1>1. RepoInit => RepoTypeOK /\ JobSteps
  BY LifecycleAssumption DEF RepoInit, RepoTypeOK, JobSteps, Steps
<1>2. RepoTypeOK /\ JobSteps /\ [RepoNext]_repoVars => RepoTypeOK' /\ JobSteps'
  BY RepoTypeStep
<1> QED
  BY <1>1, <1>2, PTL DEF RepoSpec

\* The locks, which RepoLifecycle takes at once, are those RepoMutex promises and
\* RepoLock provides: a request is inside withRepositoryLocks with the names it took.
Inside == {c \in Slots \X SUBSET Paths : does[c[1]] \in Holding /\ c[2] = Locks(c[1])}
Mutex == INSTANCE RepoMutex WITH
            Callers <- Slots \X SUBSET Paths,
            Needs <- [c \in Slots \X SUBSET Paths |-> c[2]],
            running <- Inside

LocksUsed == \A p \in Paths :
    lock[p] # None => does[lock[p]] \in Holding /\ p \in Locks(lock[p])

LEMMA InsideOf ==
    ASSUME RepoTypeOK, JobSteps, NEW s \in Slots
    PROVE  /\ does[s] \in Holding => <<s, Locks(s)>> \in Inside
           /\ \A c \in Inside : c[1] = s => c = <<s, Locks(s)>>
<1>1. does[s] \in Holding => Locks(s) \in SUBSET Paths
  BY DEF JobSteps, Locks, Jobs, Holding
<1> QED
  BY <1>1 DEF Inside

\* Requests that neither enter nor leave are inside with the same names as before.
LEMMA SameInside ==
    ASSUME NEW s \in Slots, \A t \in Slots \ {s} : job'[t] = job[t] /\ does'[t] = does[t],
           does'[s] \notin Holding
    PROVE  Inside' = {c \in Inside : c[1] # s}
  BY DEF Inside, Locks

LEMMA EnterStep ==
    ASSUME RepoTypeOK, JobSteps, LocksHeld, NEW s \in Slots, Lock(s)
    PROVE  Mutex!Next
<1>1. <<s, Locks(s)>> \in Slots \X SUBSET Paths
  <2>1. Locks(s) \in SUBSET Paths
    BY LockTaken
  <2> QED
    BY <2>1
<1>2. /\ \A t \in Slots \ {s} : does'[t] = does[t]
      /\ \A t \in Slots : Locks(t)' = Locks(t)
      /\ does[s] \notin Holding /\ does'[s] \in Holding
  <2>1. Step(s)
    BY DEF Step
  <2>2. job' = job /\ does[s] \notin Holding /\ does'[s] \in Holding
    BY LockTaken
  <2> QED
    BY <2>1, <2>2, StepOwn DEF Locks
<1>3. Inside' = Inside \cup {<<s, Locks(s)>>} /\ <<s, Locks(s)>> \notin Inside
  <2>1. \A c \in Slots \X SUBSET Paths : c[1] = s /\ c[2] = Locks(s) <=> c = <<s, Locks(s)>>
    BY <1>1
  <2>2. \A c \in Slots \X SUBSET Paths :
           /\ c \in Inside <=> does[c[1]] \in Holding /\ c[2] = Locks(c[1])
           /\ c \in Inside' <=> does'[c[1]] \in Holding /\ c[2] = Locks(c[1])
    BY <1>2 DEF Inside
  <2>3. Inside \subseteq Slots \X SUBSET Paths /\ Inside' \subseteq Slots \X SUBSET Paths
    BY DEF Inside
  <2>4. \A c \in Slots \X SUBSET Paths : c \in Inside' <=> c \in Inside \/ c = <<s, Locks(s)>>
    BY <1>2, <2>1, <2>2
  <2>5. <<s, Locks(s)>> \notin Inside
    BY <1>2 DEF Inside
  <2> QED
    BY <1>1, <2>3, <2>4, <2>5
<1>4. ASSUME NEW d \in Inside PROVE Locks(s) \cap d[2] = {}
  <2>1. \A p \in d[2] : lock[p] = d[1]
    BY <1>4 DEF Inside, LocksHeld
  <2> QED
    BY <1>4, <2>1, LockTaken, LifecycleAssumption DEF Inside
<1>5. Mutex!Enter(<<s, Locks(s)>>)
  <2>1. \A d \in Inside : d \in Slots \X SUBSET Paths
    BY DEF Inside
  <2> QED
    BY <1>1, <1>3, <1>4, <2>1 DEF Mutex!Enter
<1> QED
  BY <1>1, <1>5 DEF Mutex!Next

LEMMA MutexStep ==
    ASSUME RepoTypeOK, JobSteps, LocksHeld, LocksUsed, [RepoNext]_repoVars
    PROVE  LocksUsed' /\ [Mutex!Next]_Inside
<1>1. CASE UNCHANGED repoVars
  BY <1>1 DEF repoVars, LocksUsed, Locks, Inside
<1>2. ASSUME NEW s \in Slots, Request(s) PROVE LocksUsed' /\ Inside' = Inside
  <2>1. /\ does'[s] = "lock" /\ lock' = lock
        /\ \A t \in Slots \ {s} : job'[t] = job[t] /\ does'[t] = does[t]
    BY <1>2, RequestWaits DEF RepoTypeOK
  <2>2. does[s] \notin Holding /\ does'[s] \notin Holding
    BY <1>2, <2>1, RequestWaits DEF Holding
  <2>3. Inside' = Inside
    BY <2>1, <2>2, SameInside DEF Inside
  <2>4. LocksUsed'
    BY <2>1, <2>2, LifecycleAssumption DEF LocksUsed, Locks, RepoTypeOK
  <2> QED
    BY <2>3, <2>4
<1>3. ASSUME NEW s \in Slots, Step(s) PROVE LocksUsed' /\ [Mutex!Next]_Inside
  <2>1. CASE Lock(s)
    <3>1. \A p \in Paths : \/ lock'[p] = s /\ p \in Locks(s)
                           \/ lock'[p] = lock[p] /\ lock[p] # s
      BY <2>1, LockTaken, LifecycleAssumption DEF LocksUsed
    <3>2. /\ does'[s] \in Holding /\ \A t \in Slots \ {s} : does'[t] = does[t]
          /\ \A t \in Slots : Locks(t)' = Locks(t)
      BY <1>3, <2>1, LockTaken, StepOwn DEF Locks
    <3>3. \A p \in Paths : lock[p] \in Slots \cup {None}
      BY DEF RepoTypeOK
    <3>4. LocksUsed'
      BY <3>1, <3>2, <3>3 DEF LocksUsed
    <3> QED
      BY <2>1, <3>4, EnterStep
  <2>2. CASE lock' = lock /\ (does'[s] \in Holding <=> does[s] \in Holding)
    <3>1. does[s] \in Holding => job'[s] = job[s]
      BY <1>3, <2>2, StepOwn DEF Holding
    <3>2. Inside' = Inside
      BY <1>3, <2>2, <3>1, StepOwn DEF Inside, Locks
    <3>3. LocksUsed'
      BY <1>3, <2>2, <3>1, StepOwn DEF LocksUsed, Locks, RepoTypeOK
    <3> QED
      BY <3>2, <3>3
  <2>3. CASE Unlock(s) /\ does'[s] \notin Holding
    <3>1. LocksUsed'
      BY <1>3, <2>3, StepOwn DEF Unlock, LocksUsed, Locks, RepoTypeOK
    <3>2. Inside' = {c \in Inside : c[1] # s}
      BY <1>3, <2>3, StepOwn, SameInside
    <3>3. CASE does[s] \in Holding
      <4>1. <<s, Locks(s)>> \in Inside /\ Inside' = Inside \ {<<s, Locks(s)>>}
        BY <3>2, <3>3, InsideOf
      <4>2. Mutex!Leave(<<s, Locks(s)>>) /\ <<s, Locks(s)>> \in Slots \X SUBSET Paths
        BY <4>1 DEF Mutex!Leave, Inside
      <4> QED
        BY <3>1, <4>2 DEF Mutex!Next
    <3>4. CASE does[s] \notin Holding
      BY <3>1, <3>2, <3>4 DEF Inside
    <3> QED
      BY <3>3, <3>4
  <2> QED
    BY <1>3, <2>1, <2>2, <2>3, StepLocks
<1> QED
  BY <1>1, <1>2, <1>3 DEF RepoNext

\* Requests are inside their locks as RepoMutex lets them, whatever fails, overlaps
\* or is killed; and a name is locked only while a request that took it is inside,
\* so none that ends, on any path, leaves one locked.
THEOREM RequestsTakeTurns ==
    RepoSpec => Mutex!Spec /\ [](\A p \in Paths :
                                    lock[p] # None <=> \E c \in Inside : p \in c[2])
<1>1. RepoInit => /\ RepoTypeOK /\ JobSteps /\ LocksHeld /\ LocksUsed
                  /\ Mutex!Init
  BY LifecycleAssumption
  DEF RepoInit, RepoTypeOK, JobSteps, Steps, LocksHeld, LocksUsed, Holding, Mutex!Init, Inside
<1>2. RepoTypeOK /\ JobSteps /\ LocksHeld /\ LocksUsed /\ [RepoNext]_repoVars
        => RepoTypeOK' /\ JobSteps' /\ LocksHeld' /\ LocksUsed' /\ [Mutex!Next]_Inside
  BY RepoTypeStep, HeldStep, MutexStep
<1>3. RepoTypeOK /\ JobSteps /\ LocksHeld /\ LocksUsed
        => \A p \in Paths : lock[p] # None <=> \E c \in Inside : p \in c[2]
  <2> SUFFICES ASSUME RepoTypeOK, JobSteps, LocksHeld, LocksUsed, NEW p \in Paths
               PROVE  lock[p] # None <=> \E c \in Inside : p \in c[2]
    OBVIOUS
  <2>1. lock[p] # None => \E c \in Inside : p \in c[2]
    BY InsideOf DEF LocksUsed, RepoTypeOK
  <2>2. \A c \in Inside : p \in c[2] => lock[p] = c[1] /\ c[1] # None
    BY LifecycleAssumption DEF Inside, LocksHeld
  <2> QED
    BY <2>1, <2>2
<1> QED
  BY <1>1, <1>2, <1>3, PTL DEF RepoSpec, Mutex!Spec

\* A repository nobody has locked has all it was created and forked with, however
\* requests on other repositories interleave, storage calls and rows fail, and
\* creations, forks, deletions and pushes are killed.
THEOREM ContentIsKept ==
    ASSUME Orderly, KeptForOne
    PROVE  RepoSpec => []KeepsContent
<1>1. RepoInit => RepoInv
  BY RepoInvInit
<1>2. RepoInv /\ [RepoNext]_repoVars => RepoInv'
  BY RepoInvStep
<1>3. RepoInv => KeepsContent
  BY RepoInvContent
<1> QED
  BY <1>1, <1>2, <1>3, PTL DEF RepoSpec

\* And it has nothing of another, whatever was left below its name before.
THEOREM ContentIsItsOwn ==
    ASSUME Orderly, KeptForOne
    PROVE  RepoSpec => []OnlyOwnContent
<1>1. RepoInit => RepoInv
  BY RepoInvInit
<1>2. RepoInv /\ [RepoNext]_repoVars => RepoInv'
  BY RepoInvStep
<1>3. RepoInv => OnlyOwnContent
  BY RepoInvContent
<1> QED
  BY <1>1, <1>2, <1>3, PTL DEF RepoSpec

-----------------------------------------------------------------------------
(***************************************************************************)
(* Loose-object hints.                                                     *)
(***************************************************************************)

HintInv == HintTypeOK /\ NoneMeansNone

LEMMA HintTypeStep == HintTypeOK /\ [HintNext]_hintVars => HintTypeOK'
<1> SUFFICES ASSUME HintTypeOK, [HintNext]_hintVars PROVE HintTypeOK'
  OBVIOUS
<1> USE SharedAssumption DEF HintTypeOK, Resting
<1>1. ASSUME NEW d \in Detections, Detect(d) PROVE HintTypeOK'
  BY <1>1 DEF Detect, Begun
<1>2. ASSUME NEW d \in Detections, ListLoose(d) PROVE HintTypeOK'
  BY <1>2 DEF ListLoose
<1>3. ASSUME NEW d \in Detections, SettleHint(d) \/ DetectionFails(d) PROVE HintTypeOK'
  <2>1. lookup' \in [LooseReaders ->
            [object : LooseObjects,
             state : {Resting, "waiting", "resumed", "reading", "found", "absent"}]]
    BY <1>3 DEF SettleHint, DetectionFails, Ended, Resumed
  <2> QED
    BY <1>3, <2>1 DEF SettleHint, DetectionFails, Ended
<1>4. ASSUME NEW r \in LooseReaders, NEW o \in LooseObjects, AskFor(r, o) \/ AskKnown(r, o)
      PROVE  HintTypeOK'
  <2>1. CASE AskFor(r, o) /\ UnderWay(Shared)
    BY <2>1 DEF AskFor
  <2>2. CASE AskFor(r, o) /\ ~UnderWay(Shared)
    BY <2>2 DEF AskFor, Begun
  <2>3. CASE AskKnown(r, o)
    BY <2>3 DEF AskKnown, Heeded
  <2> QED
    BY <1>4, <2>1, <2>2, <2>3
<1>5. ASSUME NEW r \in LooseReaders, LookAtHint(r) \/ GetLoose(r) \/ EndLookup(r)
      PROVE  HintTypeOK'
  BY <1>5 DEF LookAtHint, GetLoose, EndLookup, Goes, Heeded
<1>6. ASSUME NEW w \in LooseWriters, NEW o \in LooseObjects, BeginLoose(w, o)
      PROVE  HintTypeOK'
  BY <1>6 DEF BeginLoose, Overtake, UnderWay, Flipped
<1>7. ASSUME NEW w \in LooseWriters, EndLoose(w) PROVE HintTypeOK'
  BY <1>7 DEF EndLoose
<1>8. ASSUME (\E o \in LooseObjects : UnlinkLoose(o)) \/ LoseHint \/ ChangeLoose \/ InvalidateHint
      PROVE  HintTypeOK'
  BY <1>8 DEF UnlinkLoose, LoseHint, ChangeLoose, InvalidateHint, Overtake, UnderWay
<1>9. CASE UNCHANGED hintVars
  BY <1>9 DEF hintVars
<1> QED
  BY <1>1, <1>2, <1>3, <1>4, <1>5, <1>6, <1>7, <1>8, <1>9 DEF HintNext

LEMMA NoneStep == HintInv /\ [HintNext]_hintVars => NoneMeansNone'
<1> SUFFICES ASSUME HintInv, [HintNext]_hintVars PROVE NoneMeansNone'
  OBVIOUS
<1> USE SharedAssumption DEF HintInv, HintTypeOK, NoneMeansNone, UnderWay, Resting, Writing
<1>1. ASSUME NEW d \in Detections, Detect(d) PROVE NoneMeansNone'
  BY <1>1 DEF Detect, Begun, Hinted
<1>2. ASSUME NEW d \in Detections, ListLoose(d) PROVE NoneMeansNone'
  BY <1>2 DEF ListLoose
<1>3. ASSUME NEW d \in Detections, SettleHint(d) \/ DetectionFails(d) PROVE NoneMeansNone'
  BY <1>3 DEF SettleHint, DetectionFails, Ended
<1>4. ASSUME NEW r \in LooseReaders, NEW o \in LooseObjects, AskFor(r, o) \/ AskKnown(r, o)
      PROVE  NoneMeansNone'
  <2>1. CASE AskFor(r, o) /\ UnderWay(Shared)
    BY <2>1 DEF AskFor
  <2>2. CASE AskFor(r, o) /\ ~UnderWay(Shared)
    BY <2>2 DEF AskFor, Begun, Hinted
  <2>3. CASE AskKnown(r, o)
    BY <2>3 DEF AskKnown
  <2> QED
    BY <1>4, <2>1, <2>2, <2>3
<1>5. ASSUME NEW r \in LooseReaders, LookAtHint(r) \/ GetLoose(r) \/ EndLookup(r)
      PROVE  NoneMeansNone'
  BY <1>5 DEF LookAtHint, GetLoose, EndLookup
<1>6. ASSUME NEW w \in LooseWriters, NEW o \in LooseObjects, BeginLoose(w, o)
      PROVE  NoneMeansNone'
  BY <1>6 DEF BeginLoose, Overtake, Flipped
<1>7. ASSUME NEW w \in LooseWriters, EndLoose(w) PROVE NoneMeansNone'
  BY <1>7 DEF EndLoose
<1>8. ASSUME (\E o \in LooseObjects : UnlinkLoose(o)) \/ LoseHint \/ ChangeLoose \/ InvalidateHint
      PROVE  NoneMeansNone'
  <2>1. ASSUME NEW o \in LooseObjects, UnlinkLoose(o) PROVE NoneMeansNone'
    BY <2>1 DEF UnlinkLoose
  <2>2. CASE LoseHint \/ InvalidateHint
    BY <2>2 DEF LoseHint, InvalidateHint
  <2>3. CASE ChangeLoose
    BY <2>3 DEF ChangeLoose, Overtake
  <2> QED
    BY <1>8, <2>1, <2>2, <2>3
<1>9. CASE UNCHANGED hintVars
  BY <1>9 DEF hintVars
<1> QED
  BY <1>1, <1>2, <1>3, <1>4, <1>5, <1>6, <1>7, <1>8, <1>9 DEF HintNext

LEMMA HintInvHolds == HintSpec => []HintInv
<1>1. HintInit => HintInv
  <2> SUFFICES ASSUME HintInit PROVE HintInv
    OBVIOUS
  <2>1. lookup \in [LooseReaders ->
            [object : LooseObjects,
             state : {Resting, "waiting", "resumed", "reading", "found", "absent"}]]
    BY DEF HintInit
  <2>2. HintTypeOK
    BY <2>1 DEF HintInit, HintTypeOK, Resting
  <2>3. NoneMeansNone
    BY DEF HintInit, NoneMeansNone, UnderWay, Resting
  <2> QED
    BY <2>2, <2>3 DEF HintInv
<1>2. HintInv /\ [HintNext]_hintVars => HintInv'
  BY HintTypeStep, NoneStep DEF HintInv
<1> QED
  BY <1>1, <1>2, PTL DEF HintSpec

\* Whatever detections, reads, writes and invalidations interleave, what is
\* remembered of the loose objects of a repository keeps its type.
THEOREM HintsTyped == HintSpec => []HintTypeOK
<1>1. HintInv => HintTypeOK
  BY DEF HintInv
<1> QED
  BY <1>1, HintInvHolds, PTL

\* A hint hides an object only if its detection was overtaken, for any number of
\* readers, writers and detections.
THEOREM HintsHideNothing == HintSpec => AbsentMeansAbsent
<1> DEFINE A == \A r \in LooseReaders :
                   (lookup[r].state # "absent" /\ lookup'[r].state = "absent")
                       => lookup'[r].object \notin loose \/ masked \/ outside
<1>1. HintInv /\ [HintNext]_hintVars => [A]_hintVars
  <2> SUFFICES ASSUME HintInv, HintNext, NEW r \in LooseReaders,
                      lookup[r].state # "absent", lookup'[r].state = "absent"
               PROVE  lookup'[r].object \notin loose \/ masked \/ outside
    OBVIOUS
  <2> USE DEF HintInv, HintTypeOK, NoneMeansNone
  <2>1. ASSUME NEW q \in LooseReaders, LookAtHint(q) \/ GetLoose(q) \/ EndLookup(q)
        PROVE  lookup'[r].object \notin loose \/ masked \/ outside
    BY <2>1 DEF LookAtHint, GetLoose, EndLookup, Goes, Heeded, Resting
  <2>2. ASSUME NEW q \in LooseReaders, NEW o \in LooseObjects, AskFor(q, o) \/ AskKnown(q, o)
        PROVE  lookup'[r].object \notin loose \/ masked \/ outside
    BY <2>2 DEF AskFor, AskKnown, Heeded
  <2>3. ASSUME NEW d \in Detections, SettleHint(d) \/ DetectionFails(d)
        PROVE  FALSE
    <3>1. lookup' = [q \in LooseReaders |->
                IF d = Shared /\ lookup[q].state = "waiting"
                THEN [lookup[q] EXCEPT !.state = "resumed"] ELSE lookup[q]]
      BY <2>3 DEF SettleHint, DetectionFails, Ended, Resumed
    <3> QED
      BY <3>1
  <2>4. ASSUME UNCHANGED lookup PROVE FALSE
    BY <2>4
  <2> QED
    BY <2>1, <2>2, <2>3, <2>4
       DEF HintNext, Detect, ListLoose, BeginLoose, EndLoose, UnlinkLoose, LoseHint,
           ChangeLoose, InvalidateHint
<1>2. [][A]_hintVars => AbsentMeansAbsent
  BY PTL DEF AbsentMeansAbsent
<1> QED
  BY <1>1, <1>2, HintInvHolds, PTL DEF HintSpec

-----------------------------------------------------------------------------
(* The three in one specification                                            *)

\* What is proved of each of the three holds of the storage as a whole.
THEOREM StorageIsEach == StorageSpec => Spec /\ RepoSpec /\ HintSpec
<1>1. StorageInit => Init /\ RepoInit /\ HintInit
  BY DEF StorageInit
<1>2. [StorageNext]_storageVars
          => [Next]_vars /\ [RepoNext]_repoVars /\ [HintNext]_hintVars
  BY DEF StorageNext, storageVars
<1> QED
  BY <1>1, <1>2, PTL DEF StorageSpec, Spec, RepoSpec, HintSpec

\* Answers, entries, listings, hints, rows, storage and locks keep their types
\* whichever of the three parts is at work.
THEOREM StorageTyping == StorageSpec => []StorageTypeOK
<1> DEFINE P == part \in {"cache", "hints", "repositories"}
<1>1. StorageInit => P
  BY DEF StorageInit
<1>2. P /\ [StorageNext]_storageVars => P'
  BY DEF StorageNext, storageVars
<1>3. P /\ TypeOK /\ RepoTypeOK /\ HintTypeOK => StorageTypeOK
  <2> HIDE DEF P
  <2>1. ASSUME P PROVE part = "cache" \/ part = "hints" \/ part = "repositories"
    BY <2>1 DEF P
  <2> QED
    BY <2>1 DEF StorageTypeOK
<1> QED
  BY <1>1, <1>2, <1>3, StorageIsEach, Typing, RowsAndStorageTyped, HintsTyped, PTL
     DEF StorageSpec
===============================================================================
