----------------------------- MODULE ReceivePack -----------------------------
(***************************************************************************)
(* Pushes to one repository: applyReceivePack of                           *)
(* packages/git-fs-s3/src/http/receive-pack.ts and the repack that follows *)
(* an accepted one (repack.ts), run under the repository lock.             *)
(*                                                                         *)
(* Each pusher serves one push.  A request's commands are applied          *)
(* concurrently (Promise.all), so each has a phase of its own, and a       *)
(* command that throws fails the push at once while its siblings run on.   *)
(* Storage calls are single steps; reads that nothing can change between   *)
(* them, because the lock is held, share a step.  A pack is a model value  *)
(* named by its checksum: storing the same pack again is no change.        *)
(***************************************************************************)
EXTENDS ObjectGraph, Integers, FiniteSets

CONSTANTS
    Pushers,        \* slots, one push each
    Requests,       \* what clients may send: [cmds |-> .., pack |-> ..]
    Packs,          \* packs that are stored or may be
    Content,        \* Content[q]: the objects pack q holds
    Commits,        \* the objects that are commits
    BadTrees,       \* trees whose entry names fsck refuses
    Names,          \* ref names
    Branches,       \* those under refs/heads/
    Pushable,       \* those under refs/heads/ and refs/tags/
    Head,           \* the branch HEAD names
    Collides,       \* Collides[n]: names that cannot exist beside n
    Threshold,      \* packs that make a repack worth while
    InitRef,        \* the refs,
    InitPacks,      \*   the stored packs
    InitKept,       \*   and the kept packs to begin with
    Faults,         \* storage calls that may fail; see FaultKinds
    None            \* no object, no pack, no request, no holder

\* "list": the pack listing; "index": storing or indexing a pack;
\* "apply": a call made to apply one command; "unlink": a deletion, which
\* the code ignores; "crash": the instance is killed.  A write that fails may
\* have landed all the same.
FaultKinds == {"list", "index", "apply", "unlink", "crash"}

Positions == UNION {DOMAIN q.cmds : q \in Requests}
Commands == [name : Names, old : Objects \cup {None}, new : Objects \cup {None}]
Stored(some) == UNION {Content[q] : q \in some}

ASSUME PushAssumption ==
    /\ Content \in [Packs -> SUBSET Objects]
    /\ Commits \subseteq Objects /\ BadTrees \subseteq Objects
    /\ Branches \subseteq Pushable /\ Pushable \subseteq Names
    /\ Head \in Branches
    /\ Collides \in [Names -> SUBSET Names]
    /\ \A n \in Names : \A m \in Collides[n] : m # n /\ n \in Collides[m]
    /\ Threshold \in Nat
    /\ None \notin Objects \cup Packs \cup Pushers \cup Requests
    /\ Faults \subseteq FaultKinds

ASSUME RequestAssumption ==
    \A q \in Requests :
        /\ q.pack \in Packs \cup {None}
        /\ DOMAIN q.cmds \subseteq Nat
        /\ \A i \in DOMAIN q.cmds : q.cmds[i] \in Commands

\* A repository that earlier operations left: its refs are complete.
ASSUME InitAssumption ==
    /\ InitPacks \subseteq Packs /\ InitKept \subseteq InitPacks
    /\ InitRef \in [Names -> Objects \cup {None}]
    /\ \A n \in Names :
          /\ InitRef[n] # None => Complete(InitRef[n], Stored(InitPacks))
          /\ \A m \in Collides[n] : InitRef[n] = None \/ InitRef[m] = None
    /\ \A n \in Branches : InitRef[n] \in Commits \cup {None}

VARIABLES
    lock,           \* the pusher that holds the repository lock
    ref,            \* ref[n]: the object n names
    packs,          \* packs whose .pack file is stored
    idxs,           \* packs whose .idx file is stored
    kept,           \* packs a .keep protects now
    pc,             \* where each push is
    req,            \* its request
    phase,          \* phase[p][i]: where command i is
    was,            \* what was stored when p listed the pack directory
    listed,         \* whether that listing succeeded
    taken,          \* ref names p saw or created (collision check)
    fresh,          \* the pack p stored last
    doomed          \* files p is about to unlink

store == <<packs, idxs>>
vars == <<lock, ref, packs, idxs, kept, pc, req, phase, was, listed, taken,
          fresh, doomed>>

PCs == {"idle", "preflight", "store", "index", "connect", "apply", "reindex",
        "unlink", "done", "thrown"}
Phases == {"none", "accepted", "cas", "write", "ok", "ng", "io"}
Files == [packs : SUBSET Packs, idxs : SUBSET Packs]
NoFiles == [packs |-> {}, idxs |-> {}]

TypeOK ==
    /\ lock \in Pushers \cup {None}
    /\ ref \in [Names -> Objects \cup {None}]
    /\ packs \in SUBSET Packs /\ idxs \in SUBSET Packs
    /\ kept \in SUBSET Packs
    /\ pc \in [Pushers -> PCs]
    /\ req \in [Pushers -> Requests \cup {None}]
    /\ phase \in [Pushers -> [Positions -> Phases]]
    /\ was \in [Pushers -> Files]
    /\ listed \in [Pushers -> BOOLEAN]
    /\ taken \in [Pushers -> SUBSET Names]
    /\ fresh \in [Pushers -> Packs \cup {None}]
    /\ doomed \in [Pushers -> Files]

Init ==
    /\ lock = None
    /\ ref = InitRef
    /\ packs = InitPacks /\ idxs = InitPacks /\ kept = InitKept
    /\ pc = [p \in Pushers |-> "idle"]
    /\ req = [p \in Pushers |-> None]
    /\ phase = [p \in Pushers |-> [i \in Positions |-> "none"]]
    /\ was = [p \in Pushers |-> NoFiles]
    /\ listed = [p \in Pushers |-> FALSE]
    /\ taken = [p \in Pushers |-> {}]
    /\ fresh = [p \in Pushers |-> None]
    /\ doomed = [p \in Pushers |-> NoFiles]

-------------------------------------------------------------------------------
\* Readers find an object through an index, then read its pack.
Visible == Stored(packs \cap idxs)

Command(p, i) == req[p].cmds[i]
Sent(p) == IF req[p] = None THEN {} ELSE DOMAIN req[p].cmds
InPhase(p, ph) == {i \in Positions : phase[p][i] = ph}

\* The new tips of the accepted commands; the walk that validates them stops
\* at every pushable ref's tip and at every claimed old value.
NewTips(p) ==
    {Command(p, i).new : i \in InPhase(p, "accepted")} \ {None}
HaveOids(p) ==
    ({ref[n] : n \in Pushable}
        \cup {Command(p, i).old : i \in InPhase(p, "accepted")}) \ {None}

Go(p, where) == pc' = [pc EXCEPT ![p] = where]
Refuse(p, ph) ==
    phase' = [phase EXCEPT ![p] =
                 [i \in Positions |-> IF @[i] = ph THEN "ng" ELSE @[i]]]

\* What a rejected push unlinks: the files of the pack it stored that the
\* listing did not show.
KnownFiles(p) == IF listed[p] THEN was[p] ELSE NoFiles
\* Mutant of RemovableIncoming: an identical stored pack is not spared.
RemovableAlways(p) == [packs |-> {fresh[p]} \ {None}, idxs |-> {fresh[p]} \ {None}]

\* Mutant of RemovableIncoming: only the pack itself is taken out.
RemovableOnlyPack(p) == [packs |-> ({fresh[p]} \ {None}) \ was[p].packs, idxs |-> {}]

RemovableIncoming(p) ==
    LET incoming == {fresh[p]} \ {None}
    IN  [packs |-> incoming \ KnownFiles(p).packs,
         idxs  |-> incoming \ KnownFiles(p).idxs]

-------------------------------------------------------------------------------
(* A push takes the lock.                                                  *)
Begin(p, q) ==
    /\ pc[p] = "idle" /\ lock = None
    /\ lock' = p
    /\ req' = [req EXCEPT ![p] = q]
    /\ Go(p, "preflight")
    /\ UNCHANGED <<ref, store, kept, phase, was, listed, taken, fresh, doomed>>

\* Mutant of Passes: commands for one ref are not told apart.
PassesDuplicates(p, i) ==
    LET cmd == Command(p, i)
    IN  ~(cmd.new = None /\ cmd.name = Head) /\ cmd.name \in Pushable /\ ref[cmd.name] = cmd.old

\* Whether command i is one the preflight accepts.
Passes(p, i) ==
    LET cmd == Command(p, i)
    IN  /\ \A j \in Sent(p) : j < i => Command(p, j).name # cmd.name
        /\ ~(cmd.new = None /\ cmd.name = Head)
        /\ cmd.name \in Pushable
        /\ ref[cmd.name] = cmd.old

(* Refuse the commands already doomed, then list the pack directory.       *)
Preflight(p) ==
    /\ pc[p] = "preflight"
    /\ phase' = [phase EXCEPT ![p] =
           [i \in Positions |-> IF i \notin Sent(p) THEN "none"
                                ELSE IF Passes(p, i) THEN "accepted"
                                ELSE "ng"]]
    /\ was' = [was EXCEPT ![p] = [packs |-> packs, idxs |-> idxs]]
    /\ \E ok \in BOOLEAN :
          /\ ok \/ "list" \in Faults
          /\ listed' = [listed EXCEPT ![p] = ok]
    /\ Go(p, "store")
    /\ UNCHANGED <<lock, ref, store, kept, req, taken, fresh, doomed>>

(* The pack is stored only for a command that needs it.                    *)
PackNeeded(p) == req[p].pack # None /\ NewTips(p) # {}

StorePack(p) ==
    /\ pc[p] = "store" /\ PackNeeded(p)
    /\ packs' = packs \cup {req[p].pack}
    /\ fresh' = [fresh EXCEPT ![p] = req[p].pack]
    /\ Go(p, "index")
    /\ UNCHANGED <<lock, ref, idxs, kept, req, phase, was, listed, taken,
                   doomed>>

SkipPack(p) ==
    /\ pc[p] = "store" /\ ~PackNeeded(p)
    /\ Go(p, "connect")
    /\ UNCHANGED <<lock, ref, store, kept, req, phase, was, listed, taken,
                   fresh, doomed>>

IndexPack(p) ==
    /\ pc[p] = "index"
    /\ idxs' = idxs \cup {fresh[p]}
    /\ Go(p, "connect")
    /\ UNCHANGED <<lock, ref, packs, kept, req, phase, was, listed, taken,
                   fresh, doomed>>

\* An index write that failed, of the pack p stored last.
MayHaveIndexed(p) ==
    \/ idxs' = idxs
    \/ pc[p] \in {"index", "reindex"} /\ idxs' = idxs \cup {fresh[p]}

(* Storing or indexing fails: "index-pack failed", and nothing is undone.  *)
UnpackFails(p) ==
    /\ "index" \in Faults
    /\ pc[p] = "index" \/ (pc[p] = "store" /\ PackNeeded(p))
    /\ MayHaveIndexed(p)
    /\ Refuse(p, "accepted")
    /\ lock' = None
    /\ Go(p, "done")
    /\ UNCHANGED <<ref, packs, kept, req, was, listed, taken, fresh, doomed>>

\* A tree of the pack itself has a name fsck refuses.
BadPack(p) == fresh[p] # None /\ Content[fresh[p]] \cap BadTrees # {}

\* Mutant of Connected: the claimed tips are taken on trust.
ConnectedTips(p) == WalkComplete(NewTips(p), HaveOids(p) \cup NewTips(p), Visible)

Connected(p) == WalkComplete(NewTips(p), HaveOids(p), Visible)

(* A bad tree or an incomplete graph refuses every command.                *)
RejectPack(p) ==
    /\ pc[p] = "connect"
    /\ BadPack(p) \/ ~Connected(p)
    /\ Refuse(p, "accepted")
    /\ doomed' = [doomed EXCEPT ![p] = RemovableIncoming(p)]
    /\ Go(p, "unlink")
    /\ UNCHANGED <<lock, ref, store, kept, req, was, listed, taken, fresh>>

AcceptPack(p) ==
    /\ pc[p] = "connect"
    /\ ~BadPack(p) /\ Connected(p)
    /\ phase' = [phase EXCEPT ![p] =
           [i \in Positions |-> IF @[i] = "accepted" THEN "cas" ELSE @[i]]]
    /\ taken' = [taken EXCEPT ![p] = {n \in Names : ref[n] # None}]
    /\ Go(p, "apply")
    /\ UNCHANGED <<lock, ref, store, kept, req, was, listed, fresh, doomed>>

\* Command i creates its ref.
Creates(p, i) == Command(p, i).old = None /\ Command(p, i).new # None

CasFails(p, i) == ref[Command(p, i).name] # Command(p, i).old
Collision(p, i) == Creates(p, i) /\ taken[p] \cap Collides[Command(p, i).name] # {}
WrongType(p, i) ==
    LET cmd == Command(p, i)
    IN  cmd.name \in Branches /\ cmd.new # None /\ cmd.new \notin Commits \cap Visible

\* Mutant of Claimed: creations of the same push are not looked at.
ClaimedNothing(p, i) == {}

\* The name a creation takes from the commands that come after it.
Claimed(p, i) ==
    IF Creates(p, i) /\ ~CasFails(p, i) THEN {Command(p, i).name} ELSE {}

(* Re-read the ref a command moves, and check what it would write.         *)
CheckRef(p, i) ==
    /\ phase[p][i] = "cas"
    /\ phase' = [phase EXCEPT ![p][i] =
           IF CasFails(p, i) \/ Collision(p, i) \/ WrongType(p, i)
           THEN "ng" ELSE "write"]
    /\ taken' = [taken EXCEPT ![p] = @ \cup Claimed(p, i)]
    /\ UNCHANGED <<lock, ref, store, kept, pc, req, was, listed, fresh, doomed>>

(* writeRef with force, or deleteRef.                                      *)
UpdateRef(p, i) ==
    /\ phase[p][i] = "write"
    /\ ref' = [ref EXCEPT ![Command(p, i).name] = Command(p, i).new]
    /\ phase' = [phase EXCEPT ![p][i] = "ok"]
    /\ UNCHANGED <<lock, store, kept, pc, req, was, listed, taken, fresh,
                   doomed>>

(* A storage call of one command fails: the push rejects and the lock is   *)
(* released, but the promises of its other commands are still running.     *)
CommandThrows(p, i) ==
    /\ "apply" \in Faults
    /\ phase[p][i] \in {"cas", "write"}
    /\ phase' = [phase EXCEPT ![p][i] = "io"]
    /\ IF pc[p] = "apply" THEN lock' = None /\ Go(p, "thrown")
                          ELSE UNCHANGED <<lock, pc>>
    /\ \/ ref' = ref
       \/ /\ phase[p][i] = "write"
          /\ ref' = [ref EXCEPT ![Command(p, i).name] = Command(p, i).new]
    /\ UNCHANGED <<store, kept, req, was, listed, taken, fresh, doomed>>

Settled(p) == InPhase(p, "cas") = {} /\ InPhase(p, "write") = {}

(* No command succeeded: take the pack out again.                          *)
NoneApplied(p) ==
    /\ pc[p] = "apply" /\ Settled(p) /\ InPhase(p, "ok") = {}
    /\ doomed' = [doomed EXCEPT ![p] = RemovableIncoming(p)]
    /\ Go(p, "unlink")
    /\ UNCHANGED <<lock, ref, store, kept, req, phase, was, listed, taken, fresh>>

SomeApplied(p) == pc[p] = "apply" /\ Settled(p) /\ InPhase(p, "ok") # {}

\* The push passes repack the listing it took, plus the pack it stored; a
\* pack that is in both is counted twice.
UnkeptPacks(p) ==
    Cardinality(packs \ kept)
        + IF listed[p] /\ fresh[p] \in was[p].packs \ kept THEN 1 ELSE 0

\* Mutant of RepackTips: pull request heads are not roots.
RepackTipsPushable == {ref[n] : n \in Pushable} \ {None}

\* The roots of a repack: branches, tags and pull request heads.
RepackTips == {ref[n] : n \in Names} \ {None}

RepackDue(p) ==
    /\ UnkeptPacks(p) >= Threshold
    /\ RepackTips # {}
    /\ WalkComplete(RepackTips, {}, Visible)

(* Too few packs, or nothing to consolidate safely.                        *)
KeepPacks(p) ==
    /\ SomeApplied(p) /\ ~RepackDue(p)
    /\ lock' = None
    /\ Go(p, "done")
    /\ UNCHANGED <<ref, store, kept, req, phase, was, listed, taken, fresh,
                   doomed>>

\* A pack a repack may write: everything reachable, and perhaps more (delta
\* bases), taken from what is stored.
Consolidates(n) ==
    Content[n] \subseteq Visible /\ WalkComplete(RepackTips, {}, Content[n])

\* Mutant of Stale: keeps are not looked at.
StaleKept(n) == [packs |-> packs \ {n}, idxs |-> idxs \ {n}]

\* What a repack that wrote n deletes: every other unkept pack.
Stale(n) == [packs |-> packs \ ({n} \cup kept), idxs |-> idxs \ ({n} \cup kept)]

(* Write the consolidated pack.                                            *)
Repack(p, n) ==
    /\ SomeApplied(p) /\ RepackDue(p) /\ Consolidates(n)
    /\ packs' = packs \cup {n}
    /\ fresh' = [fresh EXCEPT ![p] = n]
    /\ doomed' = [doomed EXCEPT ![p] = Stale(n)]
    /\ Go(p, "reindex")
    /\ UNCHANGED <<lock, ref, idxs, kept, req, phase, was, listed, taken>>

(* Index it, and go on to delete the packs it replaces.                    *)
IndexRepacked(p) ==
    /\ pc[p] = "reindex"
    /\ idxs' = idxs \cup {fresh[p]}
    /\ Go(p, "unlink")
    /\ UNCHANGED <<lock, ref, packs, kept, req, phase, was, listed, taken,
                   fresh, doomed>>

(* A repack that fails does not fail the push.                             *)
RepackFails(p) ==
    /\ "index" \in Faults
    /\ SomeApplied(p) \/ pc[p] = "reindex"
    /\ MayHaveIndexed(p)
    /\ lock' = None
    /\ Go(p, "done")
    /\ UNCHANGED <<ref, packs, kept, req, phase, was, listed, taken, fresh,
                   doomed>>

\* Mutant of PackTurn: packs and indexes are deleted in any order.
PackTurnAny(p) == TRUE

\* Indexes go before packs.
PackTurn(p) == doomed[p].idxs = {}

(* Unlink one doomed file; a failure to unlink is ignored.                 *)
UnlinkIndex(p, q) ==
    /\ pc[p] = "unlink" /\ q \in doomed[p].idxs
    /\ doomed' = [doomed EXCEPT ![p].idxs = @ \ {q}]
    /\ \/ idxs' = idxs \ {q}
       \/ "unlink" \in Faults /\ idxs' = idxs
    /\ UNCHANGED <<lock, ref, packs, kept, pc, req, phase, was, listed, taken,
                   fresh>>

UnlinkPack(p, q) ==
    /\ pc[p] = "unlink" /\ PackTurn(p) /\ q \in doomed[p].packs
    /\ doomed' = [doomed EXCEPT ![p].packs = @ \ {q}]
    /\ \/ packs' = packs \ {q}
       \/ "unlink" \in Faults /\ packs' = packs
    /\ UNCHANGED <<lock, ref, idxs, kept, pc, req, phase, was, listed, taken,
                   fresh>>

(* Nothing is left to unlink: answer, and release the lock.                *)
Finish(p) ==
    /\ pc[p] = "unlink" /\ doomed[p] = NoFiles
    /\ lock' = None
    /\ Go(p, "done")
    /\ UNCHANGED <<ref, store, kept, req, phase, was, listed, taken, fresh,
                   doomed>>

\* Nothing is left of the push that ran in the slot.
Forget(p) ==
    /\ Go(p, "idle")
    /\ req' = [req EXCEPT ![p] = None]
    /\ phase' = [phase EXCEPT ![p] = [i \in Positions |-> "none"]]
    /\ was' = [was EXCEPT ![p] = NoFiles]
    /\ listed' = [listed EXCEPT ![p] = FALSE]
    /\ taken' = [taken EXCEPT ![p] = {}]
    /\ fresh' = [fresh EXCEPT ![p] = None]
    /\ doomed' = [doomed EXCEPT ![p] = NoFiles]

(* The instance is killed; the lease of its lock lapses.                   *)
Crash(p) ==
    /\ "crash" \in Faults /\ pc[p] \notin {"idle", "done"}
    /\ lock' = IF lock = p THEN None ELSE lock
    /\ Forget(p)
    /\ UNCHANGED <<ref, store, kept>>

(* The slot of a push that is over serves another.                         *)
Return(p) ==
    /\ pc[p] = "done" \/ (pc[p] = "thrown" /\ Settled(p))
    /\ Forget(p)
    /\ UNCHANGED <<lock, ref, store, kept>>

(* The keep-until date of a kept pack passes.                              *)
Expire(q) ==
    /\ q \in kept
    /\ kept' = kept \ {q}
    /\ UNCHANGED <<lock, ref, store, pc, req, phase, was, listed, taken, fresh,
                   doomed>>

Push(p) ==
    \/ \E q \in Requests : Begin(p, q)
    \/ Preflight(p) \/ StorePack(p) \/ SkipPack(p) \/ IndexPack(p)
    \/ UnpackFails(p) \/ RejectPack(p) \/ AcceptPack(p)
    \/ \E i \in Positions : CheckRef(p, i) \/ UpdateRef(p, i) \/ CommandThrows(p, i)
    \/ NoneApplied(p) \/ KeepPacks(p)
    \/ \E n \in Packs : Repack(p, n)
    \/ IndexRepacked(p) \/ RepackFails(p)
    \/ \E q \in Packs : UnlinkIndex(p, q) \/ UnlinkPack(p, q)
    \/ Finish(p) \/ Crash(p) \/ Return(p)

Next == (\E p \in Pushers : Push(p)) \/ (\E q \in Packs : Expire(q))

Spec == Init /\ [][Next]_vars

-------------------------------------------------------------------------------
\* The abstract repository: what it can read is what readers find in packs,
\* and clients claim the commands they send.
Sendable == UNION {{q.cmds[i] : i \in DOMAIN q.cmds} : q \in Requests}

Refs == INSTANCE AtomicRefs WITH stored <- Visible, Claims <- Sendable

-------------------------------------------------------------------------------
(* Properties                                                              *)

\* Whatever a ref names, and everything reachable from it, can be read at
\* every moment: while packs come and go, after a crash, after a rejection.
RefsComplete ==
    \A n \in Names : ref[n] # None => Complete(ref[n], Visible)

\* A reader listing the packs at any moment finds no index without its pack.
WholePacks == idxs \subseteq packs

\* No two refs exist that cannot exist together ("a" and "a/b").
NoCollision ==
    \A n \in Names : \A m \in Collides[n] : ref[n] = None \/ ref[m] = None

\* A ref moves only from the value the client that moves it claimed, so no
\* push overwrites another's update.
MovesFromClaim ==
    \A n \in Names : ref'[n] # ref[n] =>
        \E p \in Pushers, i \in Positions :
            /\ phase[p][i] = "write"
            /\ Command(p, i) = [name |-> n, old |-> ref[n], new |-> ref'[n]]
CompareAndSwap == [][MovesFromClaim]_vars

\* Answered, with every command refused.
Rejected(p) == pc[p] = "done" /\ InPhase(p, "ok") = {}

\* A push that is unpacked, and changes nothing, leaves no file of its pack behind,
RejectedPushLeavesNoPack ==
    [][\A p \in Pushers : pc[p] \notin {"store", "index", "done"} /\ Rejected(p)' =>
          packs' \subseteq was[p].packs /\ idxs' \subseteq was[p].idxs]_vars

\* and takes nothing away that was stored before it, even when its own pack
\* is the same as one already there.
StoredPackSurvives ==
    [][\A p \in Pushers : pc[p] # "done" /\ Rejected(p)' =>
          was[p].packs \subseteq packs' /\ was[p].idxs \subseteq idxs']_vars

\* No pack goes while its .keep protects it.
KeptPacksStay == [][packs \cap kept \cap kept' \subseteq packs']_vars

\* To a reader, pushes and repacks are no more than refs that move one at a
\* time between complete histories (AtomicRefs).
RefsAreAtomic == Refs!Spec

===============================================================================
