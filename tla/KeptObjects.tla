----------------------------- MODULE KeptObjects -----------------------------
(***************************************************************************)
(* Objects that clients of the REST API write before any ref names them,   *)
(* and the repacks that must not lose them: writeObjects and the refs of   *)
(* apps/web/src/server/git-objects.ts, withPackedWrites of                 *)
(* packages/git-fs-s3/src/ops/packed-writes.ts, and repackRepository and   *)
(* consolidateKeptPacks of packages/git-fs-s3/src/http/repack.ts.          *)
(*                                                                         *)
(* Every operation runs under the repository lock, so at most one is at    *)
(* work; each storage write of it is a step, an instance may be killed at  *)
(* any of them, and readers take no lock.  A pack is the set of objects it *)
(* holds: its name is a checksum of its contents.  keep[q] is the time a   *)
(* .keep still protects q; no time passes within one operation.  The       *)
(* entries that a base_tree brings into a new tree are left out.           *)
(* ReceivePack models pushes.                                              *)
(***************************************************************************)
EXTENDS ObjectGraph, Integers, FiniteSets

CONSTANTS
    Commits,        \* the objects a branch may name
    Writes,         \* sets of objects that one request creates
    Names,          \* branches
    Head,           \* the default one
    InitRef,        \* the refs and
    InitPacks,      \*   the packs to begin with
    KeepFor,        \* OBJECT_KEEP_MS
    KeptThreshold,  \* KEPT_PACK_THRESHOLD
    PackThreshold,  \* REPACK_PACK_COUNT_THRESHOLD
    Failures,       \* what may fail: "abort" (an operation stops half way:
                    \* a write fails or the instance is killed), "unlink"
                    \* (a deletion, which the code ignores)
    None            \* no object

ASSUME KeptAssumption ==
    /\ Commits \subseteq Objects /\ None \notin Objects
    /\ Writes \subseteq SUBSET Objects
    /\ InitRef \in [Names -> Objects \cup {None}]
    /\ InitPacks \subseteq SUBSET Objects
    /\ Head \in Names
    /\ KeepFor \in Nat \ {0} /\ KeptThreshold \in Nat /\ PackThreshold \in Nat
    /\ Failures \subseteq {"abort", "unlink"}

Packs == SUBSET Objects

VARIABLES
    ref,            \* ref[n]: the object n names
    packs,          \* packs whose .pack file is stored
    idxs,           \* packs whose .idx file is stored
    keep,           \* keep[q]: time left of q's .keep; 0 when it has none
    at,             \* where the operation that holds the lock is
    cur,            \* the pack it writes
    made,           \* the objects its request will answer with
    doomed,         \* files it has still to delete
    promised        \* history: promised[o], time left of the day o's client
                    \* was promised when its request was answered

vars == <<ref, packs, idxs, keep, at, cur, made, doomed, promised>>

Steps == {"idle", "index", "keep", "merge", "mergeIndex", "mergeKeep",
          "repackIndex", "unlink"}

FileKinds == {"idx", "pack", "keep"}

TypeOK ==
    /\ ref \in [Names -> Objects \cup {None}]
    /\ packs \in SUBSET Packs /\ idxs \in SUBSET Packs
    /\ keep \in [Packs -> 0..KeepFor]
    /\ at \in Steps
    /\ cur \in Packs /\ made \in SUBSET Objects
    /\ doomed \in SUBSET (FileKinds \X Packs)
    /\ promised \in [Objects -> 0..KeepFor]

Init ==
    /\ ref = InitRef
    /\ packs = InitPacks /\ idxs = InitPacks
    /\ keep = [q \in Packs |-> 0]
    /\ at = "idle" /\ cur = {} /\ made = {} /\ doomed = {}
    /\ promised = [o \in Objects |-> 0]

\* What readers find.
Visible == UNION (packs \cap idxs)

Kept == {q \in Packs : keep[q] > 0}

\* The stored files of the packs s.
Files(s) == {"idx"} \X (s \cap idxs) \cup {"pack"} \X (s \cap packs)
            \cup {"keep"} \X (s \cap Kept)

-----------------------------------------------------------------------------
(* Creating objects                                                        *)

\* The API looks at the objects a new one names directly, and no further.
Accepted(s) == \A o \in s : Links[o] \subseteq Visible \cup s

(* withPackedWrites stores the pack of a request,                          *)
Write(s) ==
    /\ at = "idle" /\ Accepted(s)
    /\ packs' = packs \cup {s}
    /\ cur' = s /\ made' = s
    /\ at' = "index"
    /\ UNCHANGED <<ref, idxs, keep, doomed, promised>>

Index ==
    /\ at = "index"
    /\ idxs' = idxs \cup {cur}
    /\ at' = "keep"
    /\ UNCHANGED <<ref, packs, keep, cur, made, doomed, promised>>

WriteKeep ==
    /\ at = "keep"
    /\ keep' = [keep EXCEPT ![cur] = KeepFor]
    /\ at' = "merge"
    /\ UNCHANGED <<ref, packs, idxs, cur, made, doomed, promised>>

\* The operation is over and its request answered.
Answer ==
    /\ promised' = [o \in Objects |-> IF o \in made THEN KeepFor ELSE promised[o]]
    /\ at' = "idle" /\ cur' = {} /\ made' = {} /\ doomed' = {}

\* The operation is over and nothing is promised.
Drop ==
    /\ at' = "idle" /\ cur' = {} /\ made' = {} /\ doomed' = {}
    /\ UNCHANGED promised

MergeDue == Cardinality(Kept) >= KeptThreshold /\ Kept \subseteq idxs \cap packs

(* consolidateKeptPacks: too few kept packs, or it throws, which is only   *)
(* logged.  An index that an earlier, killed run deleted makes it throw.   *)
SkipMerge ==
    /\ \/ at = "merge"
       \/ at \in {"mergeIndex", "mergeKeep"}
    /\ Answer
    /\ UNCHANGED <<ref, packs, idxs, keep>>

Merge ==
    /\ at = "merge" /\ MergeDue
    /\ cur' = UNION Kept
    /\ packs' = packs \cup {UNION Kept}
    /\ at' = "mergeIndex"
    /\ UNCHANGED <<ref, idxs, keep, made, doomed, promised>>

MergeIndex ==
    /\ at = "mergeIndex"
    /\ idxs' = idxs \cup {cur}
    /\ at' = "mergeKeep"
    /\ UNCHANGED <<ref, packs, keep, cur, made, doomed, promised>>

\* Mutant of Merged: a merged pack that is one of the kept ones is deleted.
MergedAll == Kept

\* What the merge replaces.
Merged == Kept \ {cur}

MergeKeep ==
    /\ at = "mergeKeep"
    /\ doomed' = Files(Merged)
    /\ keep' = [keep EXCEPT ![cur] = KeepFor]
    /\ at' = "unlink"
    /\ UNCHANGED <<ref, packs, idxs, cur, made, promised>>

-----------------------------------------------------------------------------
(* Repacking, after another write or because the owner asked               *)

Tips == {ref[n] : n \in Names} \ {None}
Closed(s) == \A o \in s : Links[o] \subseteq s
Reachable == {o \in Objects : \A s \in SUBSET Objects :
                                 Tips \subseteq s /\ Closed(s) => o \in s}

RepackDue ==
    /\ Cardinality(packs \ Kept) >= PackThreshold
    /\ Tips # {}
    /\ WalkComplete(Tips, {}, Visible)

Repack ==
    /\ at = "idle" /\ RepackDue
    /\ cur' = Reachable
    /\ packs' = packs \cup {Reachable}
    /\ at' = "repackIndex"
    /\ UNCHANGED <<ref, idxs, keep, made, doomed, promised>>

\* Mutant of Stale: an identical pack that was stored before is deleted.
StaleNew == (packs \cup idxs) \ Kept

\* The other packs that no .keep protects.
Stale == (packs \cup idxs) \ ({cur} \cup Kept)

RepackIndex ==
    /\ at = "repackIndex"
    /\ idxs' = idxs \cup {cur}
    /\ doomed' = Files(Stale)
    /\ at' = "unlink"
    /\ UNCHANGED <<ref, packs, keep, cur, made, promised>>

-----------------------------------------------------------------------------
(* unlinkPackFiles: indexes first, then packs and keeps                    *)

\* Mutant of Unindexed: packs do not wait for their indexes.
UnindexedAny == TRUE

Unindexed == \A f \in doomed : f[1] # "idx"

\* One unlink ends; whether it did anything nobody looks at.
Unlink(f) ==
    /\ at = "unlink" /\ f \in doomed
    /\ f[1] = "idx" \/ Unindexed
    /\ doomed' = doomed \ {f}
    /\ \/ /\ idxs'  = IF f[1] = "idx"  THEN idxs \ {f[2]}  ELSE idxs
          /\ packs' = IF f[1] = "pack" THEN packs \ {f[2]} ELSE packs
          /\ keep'  = IF f[1] = "keep" THEN [keep EXCEPT ![f[2]] = 0] ELSE keep
       \/ "unlink" \in Failures /\ UNCHANGED <<packs, idxs, keep>>
    /\ UNCHANGED <<ref, at, cur, made, promised>>

Done ==
    /\ at = "unlink" /\ doomed = {}
    /\ Answer
    /\ UNCHANGED <<ref, packs, idxs, keep>>

Abort ==
    /\ "abort" \in Failures /\ at # "idle"
    /\ Drop
    /\ UNCHANGED <<ref, packs, idxs, keep>>

-----------------------------------------------------------------------------
(* Refs, and time                                                          *)

\* createRef and updateRef: what a branch may point at is a commit that
\* exists; nothing behind it is looked at.
SetRef(n, o) ==
    /\ at = "idle" /\ o \in Commits \cap Visible /\ ref[n] # o
    /\ ref' = [ref EXCEPT ![n] = o]
    /\ UNCHANGED <<packs, idxs, keep, at, cur, made, doomed, promised>>

DeleteRef(n) ==
    /\ at = "idle" /\ ref[n] # None /\ n # Head
    /\ ref' = [ref EXCEPT ![n] = None]
    /\ UNCHANGED <<packs, idxs, keep, at, cur, made, doomed, promised>>

Less(t) == IF t > 0 THEN t - 1 ELSE 0

Tick ==
    /\ at = "idle"
    /\ keep' = [q \in Packs |-> Less(keep[q])]
    /\ promised' = [o \in Objects |-> Less(promised[o])]
    /\ UNCHANGED <<ref, packs, idxs, at, cur, made, doomed>>

Next ==
    \/ \E s \in Writes : Write(s)
    \/ Index \/ WriteKeep \/ SkipMerge \/ Merge \/ MergeIndex \/ MergeKeep
    \/ Repack \/ RepackIndex
    \/ \E f \in FileKinds \X Packs : Unlink(f)
    \/ Done \/ Abort
    \/ \E n \in Names : DeleteRef(n) \/ \E o \in Commits : SetRef(n, o)
    \/ Tick

Spec == Init /\ [][Next]_vars

-----------------------------------------------------------------------------
(* Properties                                                              *)

\* An object stays readable for OBJECT_KEEP_MS after the request that wrote it
\* was answered (git-objects.ts writeObjects): through merges of kept packs,
\* repacks, and operations that stop half way.
PromisedVisible == \A o \in Objects : promised[o] > 0 => o \in Visible

\* A reader finds no index without its pack: unlinkPackFiles deletes the
\* indexes first, and every writer stores the pack first.
WholePacks == idxs \subseteq packs

\* What a ref reaches is not lost while the ref stays: a repack deletes packs
\* only when the new one holds all of it (repackRepository).
HistoryStays ==
    [][\A n \in Names :
          ref[n] # None /\ ref'[n] = ref[n] /\ Complete(ref[n], Visible)
          => Complete(ref[n], Visible')]_vars

\* Everything a ref reaches is there ("never a ref pointing at something
\* missing").
RefsComplete == \A n \in Names : ref[n] # None => Complete(ref[n], Visible)

=============================================================================
