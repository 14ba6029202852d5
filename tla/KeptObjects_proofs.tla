------------------------- MODULE KeptObjects_proofs -------------------------
(***************************************************************************)
(* Proofs about KeptObjects, for any objects, branches, thresholds, keep   *)
(* times and failures.                                                     *)
(*                                                                         *)
(* PromisedVisible is not inductive: it does not say how long what holds a *)
(* promised object stays.  IInv says that every promised object is in a    *)
(* whole pack kept for at least as long as promised and not about to be    *)
(* deleted, that so is what the request at work will promise, and what the *)
(* new pack holds when the packs it replaces start to go.                  *)
(* RefsComplete is no invariant at all; what is asked of clients for it to *)
(* be one is at the end.                                                   *)
(***************************************************************************)
EXTENDS KeptObjects, ObjectGraph_proofs, TLAPS

Doomed(q) == \E f \in doomed : f[2] = q

\* A stored pack holds o, kept for n at least, and is not being deleted.
Safe(o, n) == \E q \in packs \cap idxs :
                  o \in q /\ keep[q] >= n /\ ~Doomed(q)

PromiseInv == \A o \in Objects : promised[o] > 0 => Safe(o, promised[o])

MadeInv == at \in {"merge", "mergeIndex", "mergeKeep", "unlink"} =>
               \A o \in made : Safe(o, KeepFor)

WriteInv ==
    /\ at \notin {"unlink"} => doomed = {}
    /\ at \in {"idle", "repackIndex"} => made = {}
    /\ at \in {"index", "keep"} => made = cur /\ cur \in packs
    /\ at = "keep" => cur \in idxs

MergeInv ==
    /\ at \in {"mergeIndex", "mergeKeep"} =>
           cur = UNION Kept /\ cur \in packs /\ Kept \subseteq packs \cap idxs
    /\ at = "mergeKeep" => cur \in idxs

\* The new pack holds all that a ref reaches.
HoldsRefs == Tips \subseteq cur /\ Closed(cur)

\* It holds that, or else all that is being deleted.
RepackInv ==
    /\ at = "repackIndex" => cur \in packs /\ HoldsRefs
    /\ at = "unlink" => /\ cur \in packs \cap idxs /\ ~Doomed(cur)
                        /\ HoldsRefs \/ \A f \in doomed : f[2] \subseteq cur

IInv == TypeOK /\ PromiseInv /\ MadeInv /\ WriteInv /\ MergeInv /\ RepackInv

\* An index that a deletion leaves for last is deleted before its pack.
OrderInv == /\ idxs \subseteq packs
            /\ \A f \in doomed : f[1] = "pack" /\ f[2] \in idxs
                                 => <<"idx", f[2]>> \in doomed

-----------------------------------------------------------------------------
(* Types                                                                   *)

LEMMA LessType ==
    ASSUME NEW n \in Nat, NEW t \in 0..n
    PROVE  Less(t) \in 0..n
  BY DEF Less

\* The refs, the stored files, the keeps and the operation at work keep
\* their types in every reachable state.
THEOREM Typing == Spec => []TypeOK
<1> USE KeptAssumption DEF Packs, FileKinds, Steps
<1>1. Init => TypeOK
  BY DEF Init, TypeOK
<1>2. TypeOK /\ [Next]_vars => TypeOK'
  <2> SUFFICES ASSUME TypeOK, [Next]_vars PROVE TypeOK'
    OBVIOUS
  <2> USE DEF TypeOK
  <2>1. ASSUME NEW s \in Writes, Write(s) PROVE TypeOK'
    BY <2>1 DEF Write
  <2>2. CASE Index
    BY <2>2 DEF Index
  <2>3. CASE WriteKeep
    BY <2>3 DEF WriteKeep
  <2>4. CASE SkipMerge
    BY <2>4 DEF SkipMerge, Answer
  <2>5. CASE Merge
    <3>1. UNION Kept \in SUBSET Objects
      BY DEF Kept
    <3> QED
      BY <2>5, <3>1 DEF Merge
  <2>6. CASE MergeIndex
    BY <2>6 DEF MergeIndex
  <2>7. CASE MergeKeep
    <3>1. Files(Merged) \in SUBSET (FileKinds \X Packs)
      BY DEF Files, Merged, Kept
    <3> QED
      BY <2>7, <3>1 DEF MergeKeep
  <2>8. CASE Repack
    <3>1. Reachable \in SUBSET Objects
      BY DEF Reachable
    <3> QED
      BY <2>8, <3>1 DEF Repack
  <2>9. CASE RepackIndex
    <3>1. Files(Stale) \in SUBSET (FileKinds \X Packs)
      BY DEF Files, Stale, Kept
    <3> QED
      BY <2>9, <3>1 DEF RepackIndex
  <2>10. ASSUME NEW f \in FileKinds \X Packs, Unlink(f) PROVE TypeOK'
    <3>1. f[2] \in Packs
      OBVIOUS
    <3>2. keep' \in [Packs -> 0..KeepFor]
      BY <2>10, <3>1 DEF Unlink
    <3>3. packs' \in SUBSET Packs /\ idxs' \in SUBSET Packs
      BY <2>10 DEF Unlink
    <3> QED
      BY <2>10, <3>2, <3>3 DEF Unlink
  <2>11. CASE Done
    BY <2>11 DEF Done, Answer
  <2>12. CASE Abort
    BY <2>12 DEF Abort, Drop
  <2>13. ASSUME NEW n \in Names, DeleteRef(n) PROVE TypeOK'
    BY <2>13 DEF DeleteRef
  <2>14. ASSUME NEW n \in Names, NEW o \in Commits, SetRef(n, o) PROVE TypeOK'
    BY <2>14 DEF SetRef
  <2>15. CASE Tick
    BY <2>15, LessType DEF Tick
  <2>16. CASE UNCHANGED vars
    BY <2>16 DEF vars
  <2> QED
    BY <2>1, <2>2, <2>3, <2>4, <2>5, <2>6, <2>7, <2>8, <2>9, <2>10, <2>11,
       <2>12, <2>13, <2>14, <2>15, <2>16 DEF Next
<1> QED
  BY <1>1, <1>2, PTL DEF Spec

-----------------------------------------------------------------------------
(* What steps do to safety                                                 *)

\* What is safe for any time is in a kept pack.
LEMMA SafeKept ==
    ASSUME TypeOK, NEW o, NEW n \in Nat \ {0}, Safe(o, n)
    PROVE  \E q \in packs \cap idxs \cap Kept : o \in q /\ keep[q] >= n
  <1>1. PICK q \in packs \cap idxs : o \in q /\ keep[q] >= n
    BY DEF Safe
  <1>2. q \in Packs /\ keep[q] \in Nat
    BY <1>1 DEF TypeOK
  <1> QED
    BY <1>1, <1>2 DEF Kept

\* The files that are deleted are those of the packs replaced.
LEMMA FilesOf ==
    ASSUME NEW s, NEW f \in Files(s)
    PROVE  f[2] \in s
  BY DEF Files

\* What a repack collects is closed and holds the tips.
LEMMA ReachableHolds ==
    ASSUME TypeOK, WalkComplete(Tips, {}, Visible)
    PROVE  Tips \subseteq Reachable /\ Closed(Reachable)
  <1>1. Tips \subseteq Objects
    BY KeptAssumption DEF TypeOK, Tips
  <1>2. Closed(Reachable)
    BY GraphAssumption DEF Reachable, Closed
  <1> QED
    BY <1>1, <1>2 DEF Reachable

-----------------------------------------------------------------------------
(* What was promised stays                                                 *)

\* Steps that neither delete nor forget keep what is promised.
LEMMA KeepsSafe ==
    ASSUME IInv,
           \A o \in Objects, n \in 1..KeepFor : Safe(o, n) => Safe(o, n)',
           promised' = promised,
           \/ UNCHANGED <<at, made>>
           \/ at' \in {"keep", "repackIndex"}
           \/ at \in {"merge", "mergeIndex", "mergeKeep"} /\ made' = made
    PROVE  PromiseInv' /\ MadeInv'
  <1> USE KeptAssumption DEF IInv, TypeOK
  <1>1. PromiseInv'
    BY DEF PromiseInv
  <1>2. MadeInv'
    BY DEF MadeInv
  <1> QED
    BY <1>1, <1>2

\* So do steps that leave nothing to promise.
LEMMA KeepsPromised ==
    ASSUME IInv,
           \A o \in Objects, n \in 1..KeepFor : Safe(o, n) => Safe(o, n)',
           promised' = promised,
           at' \in {"idle", "index"}
    PROVE  PromiseInv' /\ MadeInv'
  <1> USE KeptAssumption DEF IInv, TypeOK
  <1>1. PromiseInv'
    BY DEF PromiseInv
  <1>2. MadeInv'
    BY DEF MadeInv
  <1> QED
    BY <1>1, <1>2

\* Answering promises what is safe already.
LEMMA AnswerKeeps ==
    ASSUME IInv, Answer, UNCHANGED <<packs, idxs, keep>>,
           at \in {"merge", "mergeIndex", "mergeKeep", "unlink"}
    PROVE  PromiseInv' /\ MadeInv'
  <1> USE KeptAssumption DEF IInv, TypeOK
  <1>1. ASSUME NEW o \in Objects, NEW n \in Nat, Safe(o, n) PROVE Safe(o, n)'
    BY <1>1 DEF Safe, Answer, Doomed
  <1>2. PromiseInv'
    <2> SUFFICES ASSUME NEW o \in Objects, promised'[o] > 0
                 PROVE  Safe(o, promised[o])'
      BY DEF PromiseInv
    <2>1. CASE o \in made
      <3>1. Safe(o, KeepFor)'
        BY <2>1, <1>1 DEF MadeInv
      <3>2. promised'[o] = KeepFor
        BY <2>1 DEF Answer
      <3> QED
        BY <3>1, <3>2 DEF Safe, Doomed
    <2>2. CASE o \notin made
      <3>1. promised'[o] = promised[o]
        BY <2>2 DEF Answer
      <3>2. Safe(o, promised[o])'
        BY <3>1, <1>1 DEF PromiseInv
      <3> QED
        BY <3>1, <3>2 DEF Safe, Doomed
    <2> QED
      BY <2>1, <2>2
  <1>3. MadeInv'
    BY DEF MadeInv, Answer
  <1> QED
    BY <1>2, <1>3

LEMMA PromiseStep == IInv /\ [Next]_vars => PromiseInv' /\ MadeInv'
  <1> SUFFICES ASSUME IInv, [Next]_vars PROVE PromiseInv' /\ MadeInv'
    OBVIOUS
  <1> USE KeptAssumption DEF IInv
  <1>1. ASSUME NEW s \in Writes, Write(s) PROVE PromiseInv' /\ MadeInv'
    <2>1. \A o \in Objects, n \in 1..KeepFor : Safe(o, n) => Safe(o, n)'
      BY <1>1 DEF Write, Safe, Doomed
    <2>2. at' = "index" /\ promised' = promised
      BY <1>1 DEF Write
    <2> QED
      BY <2>1, <2>2, KeepsPromised
  <1>2. CASE Index
    <2>1. \A o \in Objects, n \in 1..KeepFor : Safe(o, n) => Safe(o, n)'
      BY <1>2 DEF Index, Safe, Doomed
    <2> QED
      BY <1>2, <2>1, KeepsSafe DEF Index
  <1>3. CASE WriteKeep
    <2>1. \A q \in Packs : keep'[q] >= keep[q] /\ keep'[q] \in 0..KeepFor
      BY <1>3 DEF WriteKeep, TypeOK
    <2>2. \A o \in Objects, n \in Nat : Safe(o, n) => Safe(o, n)'
      <3> SUFFICES ASSUME NEW o \in Objects, NEW n \in Nat, Safe(o, n)
                   PROVE  Safe(o, n)'
        OBVIOUS
      <3>1. PICK q \in packs \cap idxs : o \in q /\ keep[q] >= n /\ ~Doomed(q)
        BY DEF Safe
      <3>2. q \in Packs /\ keep'[q] >= n
        BY <3>1, <2>1 DEF TypeOK
      <3> QED
        BY <3>1, <3>2, <1>3 DEF Safe, WriteKeep, Doomed
    <2>3. PromiseInv'
      BY <1>3, <2>2 DEF PromiseInv, WriteKeep, TypeOK
    <2>4. MadeInv'
      <3>1. cur \in packs' \cap idxs' /\ made' = cur /\ cur' = cur
        BY <1>3 DEF WriteKeep, WriteInv
      <3>2. keep'[cur] = KeepFor
        BY <1>3 DEF WriteKeep, TypeOK
      <3>3. ~Doomed(cur)'
        BY <1>3 DEF WriteKeep, WriteInv, Doomed
      <3> SUFFICES ASSUME NEW o \in made' PROVE Safe(o, KeepFor)'
        BY DEF MadeInv
      <3>4. o \in cur /\ keep'[cur] >= KeepFor
        BY <3>1, <3>2
      <3> QED
        BY <3>1, <3>3, <3>4 DEF Safe
    <2> QED
      BY <2>3, <2>4
  <1>4. CASE SkipMerge
    BY <1>4, AnswerKeeps DEF SkipMerge
  <1>5. CASE Merge
    <2>1. \A o \in Objects, n \in 1..KeepFor : Safe(o, n) => Safe(o, n)'
      BY <1>5 DEF Merge, Safe, Doomed
    <2> QED
      BY <1>5, <2>1, KeepsSafe DEF Merge
  <1>6. CASE MergeIndex
    <2>1. \A o \in Objects, n \in 1..KeepFor : Safe(o, n) => Safe(o, n)'
      BY <1>6 DEF MergeIndex, Safe, Doomed
    <2> QED
      BY <1>6, <2>1, KeepsSafe DEF MergeIndex
  <1>7. CASE MergeKeep
    <2>1. ASSUME NEW o \in Objects, NEW n \in 1..KeepFor, Safe(o, n)
          PROVE  Safe(o, n)'
      <3>1. PICK p \in packs \cap idxs \cap Kept : o \in p
        BY <2>1, SafeKept DEF Kept
      <3>2. o \in cur /\ cur \in packs' \cap idxs'
        BY <1>7, <3>1 DEF MergeKeep, MergeInv
      <3>3. keep'[cur] = KeepFor /\ KeepFor >= n
        BY <1>7 DEF MergeKeep, TypeOK
      <3>4. cur' = cur /\ ~Doomed(cur)'
        BY <1>7, FilesOf DEF MergeKeep, Merged, Doomed
      <3>5. \E q \in packs' \cap idxs' : o \in q /\ keep'[q] >= n /\ ~Doomed(q)'
        BY <3>2, <3>3, <3>4
      <3> QED
        BY <3>5 DEF Safe
    <2> QED
      BY <1>7, <2>1, KeepsSafe DEF MergeKeep
  <1>8. CASE Repack
    <2>1. \A o \in Objects, n \in 1..KeepFor : Safe(o, n) => Safe(o, n)'
      BY <1>8 DEF Repack, Safe, Doomed
    <2> QED
      BY <1>8, <2>1, KeepsSafe DEF Repack
  <1>9. CASE RepackIndex
    <2>1. ASSUME NEW o \in Objects, NEW n \in 1..KeepFor, Safe(o, n)
          PROVE  Safe(o, n)'
      <3>1. PICK q \in packs \cap idxs \cap Kept : o \in q /\ keep[q] >= n
        BY <2>1, SafeKept
      <3>2. ~Doomed(q)'
        BY <1>9, <3>1, FilesOf DEF RepackIndex, Stale, Doomed
      <3> QED
        BY <1>9, <3>1, <3>2 DEF Safe, RepackIndex
    <2>2. PromiseInv'
      BY <1>9, <2>1 DEF PromiseInv, RepackIndex, TypeOK
    <2>3. MadeInv'
      BY <1>9 DEF MadeInv, RepackIndex, WriteInv
    <2> QED
      BY <2>2, <2>3
  <1>10. ASSUME NEW f \in FileKinds \X Packs, Unlink(f)
         PROVE  PromiseInv' /\ MadeInv'
    <2>1. ASSUME NEW o \in Objects, NEW n \in 1..KeepFor, Safe(o, n)
          PROVE  Safe(o, n)'
      <3>1. PICK q \in packs \cap idxs : o \in q /\ keep[q] >= n /\ ~Doomed(q)
        BY <2>1 DEF Safe
      <3>2. q # f[2] /\ ~Doomed(q)'
        BY <1>10, <3>1 DEF Unlink, Doomed
      <3>3. q \in Packs /\ f[2] \in Packs
        BY <3>1 DEF TypeOK
      <3>4. q \in packs' \cap idxs'
        BY <1>10, <3>1, <3>2 DEF Unlink
      <3>5. keep'[q] = keep[q]
        BY <1>10, <3>2, <3>3 DEF Unlink, TypeOK
      <3> QED
        BY <3>1, <3>2, <3>4, <3>5 DEF Safe
    <2> QED
      BY <1>10, <2>1, KeepsSafe DEF Unlink
  <1>11. CASE Done
    BY <1>11, AnswerKeeps DEF Done
  <1>12. CASE Abort
    <2>1. \A o \in Objects, n \in 1..KeepFor : Safe(o, n) => Safe(o, n)'
      BY <1>12 DEF Abort, Drop, Safe, Doomed
    <2>2. at' = "idle" /\ promised' = promised
      BY <1>12 DEF Abort, Drop
    <2> QED
      BY <2>1, <2>2, KeepsPromised
  <1>13. ASSUME NEW n \in Names, DeleteRef(n) PROVE PromiseInv' /\ MadeInv'
    <2>1. \A o \in Objects, m \in 1..KeepFor : Safe(o, m) => Safe(o, m)'
      BY <1>13 DEF DeleteRef, Safe, Doomed
    <2> QED
      BY <1>13, <2>1, KeepsSafe DEF DeleteRef
  <1>14. ASSUME NEW n \in Names, NEW x \in Commits, SetRef(n, x)
         PROVE  PromiseInv' /\ MadeInv'
    <2>1. \A o \in Objects, m \in 1..KeepFor : Safe(o, m) => Safe(o, m)'
      BY <1>14 DEF SetRef, Safe, Doomed
    <2> QED
      BY <1>14, <2>1, KeepsSafe DEF SetRef
  <1>15. CASE Tick
    <2>1. PromiseInv'
      <3> SUFFICES ASSUME NEW o \in Objects, promised'[o] > 0
                   PROVE  Safe(o, promised[o])'
        BY DEF PromiseInv
      <3>1. promised[o] \in Nat /\ promised'[o] = promised[o] - 1
        BY <1>15 DEF Tick, Less, TypeOK
      <3>2. PICK q \in packs \cap idxs :
               o \in q /\ keep[q] >= promised[o] /\ ~Doomed(q)
        BY <3>1 DEF PromiseInv, Safe
      <3>3. q \in Packs /\ keep[q] \in Nat
        BY <3>2 DEF TypeOK
      <3>4. keep'[q] >= promised'[o]
        BY <1>15, <3>1, <3>2, <3>3 DEF Tick, Less
      <3> QED
        BY <1>15, <3>2, <3>4 DEF Safe, Tick, Doomed
    <2>2. MadeInv'
      BY <1>15 DEF MadeInv, Tick
    <2> QED
      BY <2>1, <2>2
  <1>16. CASE UNCHANGED vars
    <2>1. \A o \in Objects, n \in 1..KeepFor : Safe(o, n) => Safe(o, n)'
      BY <1>16 DEF vars, Safe, Doomed
    <2> QED
      BY <1>16, <2>1, KeepsSafe DEF vars
  <1> QED
    BY <1>1, <1>2, <1>3, <1>4, <1>5, <1>6, <1>7, <1>8, <1>9, <1>10, <1>11,
       <1>12, <1>13, <1>14, <1>15, <1>16 DEF Next

-----------------------------------------------------------------------------
(* What the operation at work has reached                                  *)

LEMMA ShapeStep ==
    IInv /\ [Next]_vars => WriteInv' /\ MergeInv' /\ RepackInv'
  <1> SUFFICES ASSUME IInv, [Next]_vars
               PROVE  WriteInv' /\ MergeInv' /\ RepackInv'
    OBVIOUS
  <1> USE DEF IInv
  <1>1. ASSUME NEW s \in Writes, Write(s)
        PROVE  WriteInv' /\ MergeInv' /\ RepackInv'
    BY <1>1 DEF Write, WriteInv, MergeInv, RepackInv
  <1>2. CASE Index
    BY <1>2 DEF Index, WriteInv, MergeInv, RepackInv
  <1>3. CASE WriteKeep
    BY <1>3 DEF WriteKeep, WriteInv, MergeInv, RepackInv
  <1>4. CASE SkipMerge
    BY <1>4 DEF SkipMerge, Answer, WriteInv, MergeInv, RepackInv
  <1>5. CASE Merge
    BY <1>5 DEF Merge, MergeDue, Kept, WriteInv, MergeInv, RepackInv
  <1>6. CASE MergeIndex
    BY <1>6 DEF MergeIndex, Kept, WriteInv, MergeInv, RepackInv
  <1>7. CASE MergeKeep
    <2>1. \A f \in doomed' : f[2] \in Kept /\ f[2] # cur
      BY <1>7, FilesOf DEF MergeKeep, Merged
    <2>2. cur' = cur /\ cur \in packs' \cap idxs' /\ cur = UNION Kept
      BY <1>7 DEF MergeKeep, MergeInv
    <2>3. ~Doomed(cur)' /\ \A f \in doomed' : f[2] \subseteq cur'
      BY <2>1, <2>2 DEF Doomed
    <2> QED
      BY <1>7, <2>2, <2>3 DEF MergeKeep, WriteInv, MergeInv, RepackInv
  <1>8. CASE Repack
    <2>1. Tips' = Tips /\ cur' = Reachable
      BY <1>8 DEF Repack, Tips
    <2>2. HoldsRefs'
      BY <1>8, <2>1, ReachableHolds DEF Repack, RepackDue, HoldsRefs, Closed
    <2> QED
      BY <1>8, <2>2 DEF Repack, WriteInv, MergeInv, RepackInv
  <1>9. CASE RepackIndex
    <2>1. \A f \in doomed' : f[2] # cur
      BY <1>9, FilesOf DEF RepackIndex, Stale
    <2>2. cur' = cur /\ cur \in packs' \cap idxs' /\ Tips' = Tips
      BY <1>9 DEF RepackIndex, RepackInv, Tips
    <2>3. ~Doomed(cur)' /\ HoldsRefs'
      BY <1>9, <2>1, <2>2 DEF Doomed, HoldsRefs, Closed, RepackInv, RepackIndex
    <2> QED
      BY <1>9, <2>2, <2>3 DEF RepackIndex, WriteInv, MergeInv, RepackInv
  <1>10. ASSUME NEW f \in FileKinds \X Packs, Unlink(f)
         PROVE  WriteInv' /\ MergeInv' /\ RepackInv'
    <2>1. cur' = cur /\ Tips' = Tips /\ doomed' \subseteq doomed
      BY <1>10 DEF Unlink, Tips
    <2>2. f[2] # cur /\ cur \in packs \cap idxs
      BY <1>10 DEF Unlink, RepackInv, Doomed
    <2>3. cur \in packs' \cap idxs'
      BY <1>10, <2>2 DEF Unlink
    <2>4. ~Doomed(cur)'
      BY <1>10, <2>1 DEF Unlink, RepackInv, Doomed
    <2>5. (HoldsRefs \/ \A g \in doomed : g[2] \subseteq cur)'
      BY <1>10, <2>1 DEF Unlink, RepackInv, HoldsRefs, Closed
    <2> QED
      BY <1>10, <2>1, <2>3, <2>4, <2>5
      DEF Unlink, WriteInv, MergeInv, RepackInv
  <1>11. CASE Done
    BY <1>11 DEF Done, Answer, WriteInv, MergeInv, RepackInv
  <1>12. CASE Abort
    BY <1>12 DEF Abort, Drop, WriteInv, MergeInv, RepackInv
  <1>13. ASSUME NEW n \in Names, DeleteRef(n)
         PROVE  WriteInv' /\ MergeInv' /\ RepackInv'
    BY <1>13 DEF DeleteRef, WriteInv, MergeInv, RepackInv
  <1>14. ASSUME NEW n \in Names, NEW o \in Commits, SetRef(n, o)
         PROVE  WriteInv' /\ MergeInv' /\ RepackInv'
    BY <1>14 DEF SetRef, WriteInv, MergeInv, RepackInv
  <1>15. CASE Tick
    BY <1>15 DEF Tick, WriteInv, MergeInv, RepackInv
  <1>16. CASE UNCHANGED vars
    BY <1>16 DEF vars, WriteInv, MergeInv, RepackInv, Kept, HoldsRefs, Tips,
                 Closed, Doomed
  <1> QED
    BY <1>1, <1>2, <1>3, <1>4, <1>5, <1>6, <1>7, <1>8, <1>9, <1>10, <1>11,
       <1>12, <1>13, <1>14, <1>15, <1>16 DEF Next

LEMMA InvInit == Init => IInv
  <1> SUFFICES ASSUME Init PROVE IInv
    OBVIOUS
  <1>1. TypeOK
    BY KeptAssumption DEF Init, TypeOK, Packs, FileKinds, Steps
  <1> QED
    BY <1>1 DEF Init, IInv, PromiseInv, MadeInv, WriteInv, MergeInv, RepackInv

LEMMA Invariance == Spec => []IInv
  <1>1. IInv /\ TypeOK' /\ [Next]_vars => IInv'
    BY PromiseStep, ShapeStep DEF IInv
  <1> QED
    BY InvInit, Typing, <1>1, PTL DEF Spec

-----------------------------------------------------------------------------
(* The theorems                                                            *)

\* What a client was promised stays readable until the promise ends, even if
\* deletions fail and operations stop anywhere.
THEOREM PromisesKept == Spec => []PromisedVisible
<1>1. IInv => PromisedVisible
  BY DEF IInv, PromiseInv, PromisedVisible, Safe, Visible
<1> QED
  BY <1>1, Invariance, PTL

\* Unless a deletion fails, no index is left without its pack, wherever an
\* operation stops.
THEOREM PacksStayWhole == "unlink" \notin Failures => (Spec => []WholePacks)
<1> SUFFICES ASSUME "unlink" \notin Failures PROVE Spec => []WholePacks
  OBVIOUS
<1>1. Init => OrderInv
  BY DEF Init, OrderInv
<1>2. IInv /\ OrderInv /\ [Next]_vars => OrderInv'
  <2> SUFFICES ASSUME IInv, OrderInv, [Next]_vars PROVE OrderInv'
    OBVIOUS
  <2>1. ASSUME NEW s \in Writes, Write(s) PROVE OrderInv'
    BY <2>1 DEF Write, OrderInv, IInv, WriteInv
  <2>2. CASE Index
    BY <2>2 DEF Index, OrderInv, IInv, WriteInv
  <2>3. CASE MergeIndex
    BY <2>3 DEF MergeIndex, OrderInv, IInv, WriteInv, MergeInv
  <2>4. CASE MergeKeep
    BY <2>4 DEF MergeKeep, Files, OrderInv
  <2>5. CASE RepackIndex
    <3>1. idxs' \subseteq packs'
      BY <2>5 DEF RepackIndex, OrderInv, IInv, RepackInv
    <3>2. \A f \in Files(Stale) : f[2] # cur
      BY FilesOf DEF Stale
    <3>3. \A f \in doomed' : f[1] = "pack" /\ f[2] \in idxs'
                             => <<"idx", f[2]>> \in doomed'
      BY <2>5, <3>2 DEF RepackIndex, Files
    <3> QED
      BY <3>1, <3>3 DEF OrderInv
  <2>6. ASSUME NEW f \in FileKinds \X Packs, Unlink(f) PROVE OrderInv'
    <3>1. CASE f[1] = "idx"
      <4>1. f = <<"idx", f[2]>> /\ idxs' = idxs \ {f[2]} /\ packs' = packs
        BY <2>6, <3>1 DEF Unlink
      <4>2. \A g \in doomed' : g[1] = "pack" /\ g[2] \in idxs'
                               => <<"idx", g[2]>> \in doomed'
        BY <2>6, <4>1 DEF Unlink, OrderInv
      <4> QED
        BY <4>1, <4>2 DEF OrderInv
    <3>2. CASE f[1] = "pack"
      <4>1. idxs' = idxs /\ packs' = packs \ {f[2]} /\ Unindexed
        BY <2>6, <3>2 DEF Unlink
      <4>2. f[2] \notin idxs
        <5>1. f[2] \in idxs => <<"idx", f[2]>> \in doomed
          BY <2>6, <3>2 DEF Unlink, OrderInv
        <5>2. <<"idx", f[2]>>[1] = "idx"
          OBVIOUS
        <5> QED
          BY <4>1, <5>1, <5>2 DEF Unindexed
      <4>3. \A g \in doomed' : g[1] = "pack" /\ g[2] \in idxs'
                               => <<"idx", g[2]>> \in doomed'
        BY <2>6, <3>2, <4>1 DEF Unlink, OrderInv
      <4> QED
        BY <4>1, <4>2, <4>3 DEF OrderInv
    <3>3. CASE f[1] = "keep"
      <4>1. idxs' = idxs /\ packs' = packs
        BY <2>6, <3>3 DEF Unlink
      <4>2. \A g \in doomed' : g[1] = "pack" /\ g[2] \in idxs'
                               => <<"idx", g[2]>> \in doomed'
        BY <2>6, <3>3, <4>1 DEF Unlink, OrderInv
      <4> QED
        BY <4>1, <4>2 DEF OrderInv
    <3> QED
      BY <3>1, <3>2, <3>3 DEF FileKinds
  <2>7. CASE WriteKeep
    BY <2>7 DEF WriteKeep, OrderInv
  <2>8. CASE SkipMerge
    BY <2>8 DEF SkipMerge, Answer, OrderInv
  <2>9. CASE Merge
    BY <2>9 DEF Merge, OrderInv
  <2>10. CASE Repack
    BY <2>10 DEF Repack, OrderInv
  <2>11. CASE Done \/ Abort
    BY <2>11 DEF Done, Abort, Answer, Drop, OrderInv
  <2>12. ASSUME NEW n \in Names, DeleteRef(n) \/ \E o \in Commits : SetRef(n, o)
         PROVE  OrderInv'
    BY <2>12 DEF DeleteRef, SetRef, OrderInv
  <2>13. CASE Tick \/ UNCHANGED vars
    BY <2>13 DEF Tick, vars, OrderInv
  <2> QED
    BY <2>1, <2>2, <2>3, <2>4, <2>5, <2>6, <2>7, <2>8, <2>9, <2>10, <2>11,
       <2>12, <2>13 DEF Next
<1>3. OrderInv => WholePacks
  BY DEF OrderInv, WholePacks
<1> QED
  BY <1>1, <1>2, <1>3, Invariance, PTL DEF Spec

\* A step that leaves a ref where it is leaves what it reaches in place.
LEMMA HistoryStep ==
    ASSUME IInv, [Next]_vars, NEW n \in Names,
           ref[n] # None, ref'[n] = ref[n], Complete(ref[n], Visible)
    PROVE  Complete(ref[n], Visible')
  <1>1. CASE \E f \in FileKinds \X Packs : Unlink(f)
    <2>1. PICK f \in FileKinds \X Packs : Unlink(f)
      BY <1>1
    <2>2. cur \subseteq Visible'
      <3>1. cur \in packs \cap idxs /\ f[2] # cur
        BY <2>1 DEF Unlink, IInv, RepackInv, Doomed
      <3>2. cur \in packs' \cap idxs'
        BY <2>1, <3>1 DEF Unlink
      <3> QED
        BY <3>2 DEF Visible
    <2>3. CASE HoldsRefs
      <3>1. ref[n] \in cur /\ \A o \in cur : Links[o] \subseteq cur
        BY <2>3 DEF HoldsRefs, Tips, Closed
      <3> QED
        BY <2>2, <3>1 DEF Complete, WalkComplete
    <2>4. CASE \A g \in doomed : g[2] \subseteq cur
      <3>1. f[2] \subseteq cur
        BY <2>1, <2>4 DEF Unlink
      <3>2. \A q \in packs \cap idxs : q = f[2] \/ q \in packs' \cap idxs'
        BY <2>1 DEF Unlink
      <3>3. Visible \subseteq Visible'
        BY <2>2, <3>1, <3>2 DEF Visible
      <3> QED
        BY <3>3, CompleteMonotone
    <2> QED
      BY <2>1, <2>3, <2>4 DEF Unlink, IInv, RepackInv
  <1>2. CASE ~\E f \in FileKinds \X Packs : Unlink(f)
    <2>1. packs \subseteq packs' /\ idxs \subseteq idxs'
      BY <1>2 DEF Next, vars, Write, Index, WriteKeep, SkipMerge, Merge,
                  MergeIndex, MergeKeep, Repack, RepackIndex, Done, Abort,
                  DeleteRef, SetRef, Tick
    <2>2. Visible \subseteq Visible'
      BY <2>1 DEF Visible
    <2> QED
      BY <2>2, CompleteMonotone
  <1> QED
    BY <1>1, <1>2

\* No merge and no repack takes away what a ref reaches, even if deletions
\* fail and operations stop anywhere.
THEOREM HistoryIsKept == Spec => HistoryStays
<1> DEFINE A == \A n \in Names :
                   ref[n] # None /\ ref'[n] = ref[n] /\ Complete(ref[n], Visible)
                   => Complete(ref[n], Visible')
<1>1. IInv /\ [Next]_vars => [A]_vars
  BY HistoryStep
<1> QED
  BY <1>1, Invariance, PTL DEF Spec, HistoryStays

-----------------------------------------------------------------------------
(* Refs set in time.  RefsComplete does not hold of every behaviour: the    *)
(* objects behind a ref may each have been promised for a day that is over. *)
(* It does hold as long as a client names an object only while all that is  *)
(* new behind it is still promised, which is what the day is for            *)
(* (OBJECT_KEEP_MS): a walk from a new target then finds what it reads      *)
(* among the promised objects, and stops at what a ref reaches already.     *)

Promised == {o \in Objects : promised[o] > 0}

SetInTime ==
    \A n \in Names : ref'[n] \notin {ref[n], None}
                     => WalkComplete({ref'[n]}, Reachable, Promised)

TimelySpec == Init /\ [][Next /\ SetInTime]_vars

\* The repository begins with all that its refs reach.
BeginsComplete ==
    \A n \in Names : InitRef[n] # None => Complete(InitRef[n], UNION InitPacks)

LEMMA VisibleType == TypeOK => Visible \subseteq Objects
  BY DEF TypeOK, Packs, Visible

\* What a complete ref reaches is complete.
LEMMA ReachedComplete ==
    ASSUME TypeOK, RefsComplete, NEW x \in Reachable
    PROVE  Complete(x, Visible)
  <1> DEFINE Good == {o \in Visible : Complete(o, Visible)}
  <1>1. Good \in SUBSET Objects
    BY VisibleType
  <1>2. Tips \subseteq Good
    BY DEF RefsComplete, Tips, Complete, WalkComplete
  <1>3. ASSUME NEW o \in Good, NEW y \in Links[o] PROVE y \in Good
    <2>1. Complete(y, Visible)
      BY <1>3, CompleteDescends
    <2> QED
      BY <2>1 DEF Complete, WalkComplete
  <1>4. Closed(Good)
    BY <1>3 DEF Closed
  <1>5. x \in Good
    <2> HIDE DEF Good
    <2> QED
      BY <1>1, <1>2, <1>4 DEF Reachable
  <1> QED
    BY <1>5

\* Refs move one at a time, while nothing is stored or deleted.
LEMMA RefMoves ==
    ASSUME TypeOK, [Next]_vars, ref' # ref
    PROVE  /\ \E n \in Names, o \in Objects \cup {None} : ref' = [ref EXCEPT ![n] = o]
           /\ UNCHANGED <<packs, idxs>>
  <1>1. PICK n \in Names : DeleteRef(n) \/ \E o \in Commits : SetRef(n, o)
    BY DEF Next, vars, Write, Index, WriteKeep, SkipMerge, Merge, MergeIndex,
           MergeKeep, Repack, RepackIndex, Unlink, Done, Abort, Tick
  <1> QED
    BY <1>1, KeptAssumption DEF DeleteRef, SetRef

\* A ref that is set in time has its history.
LEMMA SetComplete ==
    ASSUME IInv, RefsComplete, [Next]_vars, SetInTime,
           NEW n \in Names, ref'[n] \notin {ref[n], None}
    PROVE  Complete(ref'[n], Visible')
  <1>1. Promised \subseteq Visible
    BY DEF IInv, PromiseInv, Promised, Safe, Visible
  <1>2. WalkComplete({ref'[n]}, Reachable, Visible)
    BY <1>1, WalkMonotone DEF SetInTime
  <1>3. \A x \in Reachable : Complete(x, Visible)
    BY ReachedComplete DEF IInv
  <1>4. Complete(ref'[n], Visible)
    BY <1>2, <1>3, WalkFromHaves
  <1>5. Visible' = Visible
    BY RefMoves DEF IInv, Visible
  <1> QED
    BY <1>4, <1>5

LEMMA TimelyStep ==
    ASSUME IInv, RefsComplete, [Next /\ SetInTime]_vars
    PROVE  RefsComplete'
  <1> SUFFICES ASSUME NEW n \in Names, ref'[n] # None
               PROVE  Complete(ref'[n], Visible')
    BY DEF RefsComplete
  <1>1. CASE ref'[n] = ref[n]
    <2>1. ref[n] # None /\ Complete(ref[n], Visible)
      BY <1>1 DEF RefsComplete
    <2>2. [Next]_vars
      OBVIOUS
    <2>3. Complete(ref[n], Visible')
      BY <1>1, <2>1, <2>2, HistoryStep
    <2> QED
      BY <1>1, <2>3
  <1>2. CASE ref'[n] # ref[n]
    <2>1. Next /\ SetInTime
      BY <1>2 DEF vars
    <2> QED
      BY <1>2, <2>1, SetComplete
  <1> QED
    BY <1>1, <1>2

LEMMA TimelyInit == BeginsComplete /\ Init => RefsComplete
  BY DEF BeginsComplete, Init, RefsComplete, Visible

LEMMA TimelyIsSpec == TimelySpec => Spec
  <1>1. [Next /\ SetInTime]_vars => [Next]_vars
    OBVIOUS
  <1> QED
    BY <1>1, PTL DEF TimelySpec, Spec

\* A client that names what it wrote within the day leaves no ref pointing at
\* something missing, through merges of kept packs, repacks, failed deletions
\* and operations that stop anywhere.
THEOREM TimelyRefsAreComplete ==
    BeginsComplete => (TimelySpec => []RefsComplete)
  <1> SUFFICES ASSUME BeginsComplete PROVE TimelySpec => []RefsComplete
    OBVIOUS
  <1>1. Init => RefsComplete
    BY TimelyInit
  <1>2. IInv /\ RefsComplete /\ [Next /\ SetInTime]_vars => RefsComplete'
    BY TimelyStep
  <1> QED
    BY <1>1, <1>2, TimelyIsSpec, Invariance, PTL DEF TimelySpec

\* What AtomicRefs says of pushes, of the REST API: any branch may be asked to
\* move anywhere.
Refs == INSTANCE AtomicRefs
            WITH stored <- Visible,
                 Claims <- [name : Names, old : Objects \cup {None},
                            new : Objects \cup {None}]

LEMMA SameWalk ==
    \A o, V : Refs!Complete(o, V) = Complete(o, V)
  BY DEF Refs!Complete, Refs!WalkComplete, Complete, WalkComplete

\* For such clients the REST API's objects and refs, with every merge, repack,
\* failure and expiry, implement the abstract repository that pushes implement:
\* refs that move one at a time between complete histories.
THEOREM TimelyRefsAreAtomic ==
    BeginsComplete => (TimelySpec => Refs!Spec)
  <1> SUFFICES ASSUME BeginsComplete PROVE TimelySpec => Refs!Spec
    OBVIOUS
  <1>1. Init => Refs!Init
    <2> SUFFICES ASSUME Init PROVE Refs!Init
      OBVIOUS
    <2>1. TypeOK /\ RefsComplete
      BY InvInit, TimelyInit DEF IInv
    <2> QED
      BY <2>1, VisibleType, SameWalk
      DEF Refs!Init, Refs!AllComplete, TypeOK, RefsComplete
  <1>2. ASSUME IInv, IInv', RefsComplete, RefsComplete', [Next /\ SetInTime]_vars
        PROVE  [Refs!Next]_(Refs!vars)
    <2>1. Refs!AllComplete(ref', Visible')
      BY <1>2, SameWalk
      DEF Refs!AllComplete, RefsComplete, Complete, WalkComplete
    <2>2. CASE ref' = ref
      <3>1. Visible' \subseteq Objects
        BY <1>2 DEF IInv, TypeOK, Packs, Visible
      <3> QED
        BY <2>1, <2>2, <3>1 DEF Refs!Next, Refs!Rearrange
    <2>3. CASE ref' # ref
      <3>1. [Next]_vars
        BY <1>2
      <3>2. PICK n \in Names, o \in Objects \cup {None} : ref' = [ref EXCEPT ![n] = o]
        BY <1>2, <2>3, <3>1, RefMoves DEF IInv
      <3>3. Visible' = Visible
        BY <1>2, <2>3, <3>1, RefMoves DEF IInv, Visible
      <3>4. [name |-> n, old |-> ref[n], new |-> o]
                \in [name : Names, old : Objects \cup {None}, new : Objects \cup {None}]
        BY <1>2, <3>2 DEF IInv, TypeOK
      <3>5. Refs!Swap(n, o)
        BY <2>1, <3>2, <3>3, <3>4 DEF Refs!Swap
      <3> QED
        BY <3>2, <3>5 DEF Refs!Next
    <2> QED
      BY <2>2, <2>3
  <1> QED
    BY <1>1, <1>2, TimelyRefsAreComplete, TimelyIsSpec, Invariance, PTL
    DEF TimelySpec, Refs!Spec
=============================================================================
