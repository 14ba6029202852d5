------------------------------ MODULE TreeMerge ------------------------------
(***************************************************************************)
(* The merge of three trees, mergeTrees of packages/git-edge/src/merge.ts. *)
(*                                                                         *)
(* An entry is a file, a symbolic link, a submodule or a tree, told apart  *)
(* by its mode; a tree has an entry, or None, for each name.  Objects are  *)
(* named by what they hold, so that comparing entries compares oid and     *)
(* mode.  A text is one value per line, and a line merges by itself; the   *)
(* entries of a tree are merged at once, but nothing one of them does is   *)
(* seen by another until all are done, so the merge is a function.  Trees  *)
(* are named by hashes, so none is in itself, and Depth says how far down  *)
(* they go.                                                                *)
(***************************************************************************)
EXTENDS Naturals, Sequences, Null

CONSTANTS
    Names,          \* of entries
    Lines,          \* of texts
    Binary,         \* a content with a NUL byte
    TreeEntries,    \* entries that the trees to merge hold, at any level
    Depth,          \* Depth[e]: levels of trees that e is
    MaxDepth        \* of the trees to merge

VARIABLES
    sides,          \* the base, our tree and theirs
    answer          \* what their merge gave, or None

treeVars == <<sides, answer>>

Tree(f) == [mode |-> "040000", sub |-> f]
Blob(mode, text) == [mode |-> mode, text |-> text]
Submodule(commit) == [mode |-> "160000", text |-> commit]

\* What a tree has under the name of no entry of its own.
Absent == [mode |-> "000000"]

IsTree(e) == e.mode = "040000"
IsFile(e) == e.mode \in {"100644", "100755", "120000"}
IsLink(e) == e.mode = "120000"

Versions == TreeEntries \cup {Absent}

ASSUME TreeAssumption ==
    /\ Names # {} /\ MaxDepth \in Nat \ {0}
    /\ Depth \in [Versions -> Nat] /\ Depth[Absent] = 0
    /\ \A e \in TreeEntries :
          /\ Depth[e] < MaxDepth
          /\ IsTree(e) => /\ e.sub \in [Names -> Versions]
                          /\ \A n \in Names : Depth[e.sub[n]] < Depth[e]

EmptyTree == [n \in Names |-> Absent]
EmptyText == [l \in Lines |-> None]

\* Every combination of entries under one name is merged.
Under(e) == [EmptyTree EXCEPT ![CHOOSE n \in Names : TRUE] = e]

TreeInit ==
    /\ \E b, o, t \in Versions :
          sides = [base |-> Under(b), ours |-> Under(o), theirs |-> Under(t)]
    /\ answer = None

-----------------------------------------------------------------------------

MergedLine(b, o, t) == IF o = t \/ b = t THEN o ELSE t

\* Lines that both texts changed, each in its own way.
Clashes(b, o, t) == \E l \in Lines : b[l] # o[l] /\ b[l] # t[l] /\ o[l] # t[l]

Diff3(b, o, t) == [l \in Lines |-> MergedLine(b[l], o[l], t[l])]

\* A mode that one side changed wins; two different changes are None.
MergeMode(b, o, t) ==
    IF o.mode = t.mode THEN o.mode
    ELSE IF b.mode = o.mode THEN t.mode
    ELSE IF b.mode = t.mode THEN o.mode
    ELSE None

BaseText(b) == IF IsFile(b) THEN b.text ELSE EmptyText

Mergeable(b, o, t) ==
    \/ o.text = t.text
    \/ /\ Binary \notin {BaseText(b), o.text, t.text}
       /\ ~Clashes(BaseText(b), o.text, t.text)

MergedText(b, o, t) ==
    IF o.text = t.text THEN o.text ELSE Diff3(BaseText(b), o.text, t.text)

Conflict == [entry |-> Absent, conflicts |-> {<<>>}]
Clean(e) == [entry |-> e, conflicts |-> {}]

\* A link of ours is not merged; theirs is not asked.
MergeFiles(b, o, t) ==
    IF /\ IsFile(o) /\ IsFile(t) /\ ~IsLink(o)
       /\ MergeMode(b, o, t) # None /\ Mergeable(b, o, t)
    THEN Clean(Blob(MergeMode(b, o, t), MergedText(b, o, t)))
    ELSE Conflict

\* Mutant of BaseTree: directories are merged as if both sides had added them.
BaseTreeNone(b) == EmptyTree

BaseTree(b) == IF IsTree(b) THEN b.sub ELSE EmptyTree

\* Merges trees whose entries under one name merge to merge[<<b, o, t>>].  A
\* path in conflict is completed by the names of the trees above it.
MergeTrees(merge, base, ours, theirs) ==
    LET merged == [n \in Names |-> merge[<<base[n], ours[n], theirs[n]>>]]
    IN  [tree |-> [n \in Names |-> merged[n].entry],
         conflicts |-> UNION {{<<n>> \o path : path \in merged[n].conflicts} : n \in Names}]

MergeChangedEntry(merge, b, o, t) ==
    IF IsTree(o) /\ IsTree(t)
    THEN LET merged == MergeTrees(merge, BaseTree(b), o.sub, t.sub)
         IN  [entry |-> Tree(merged.tree), conflicts |-> merged.conflicts]
    ELSE MergeFiles(b, o, t)

Merge(merge, b, o, t) ==
    IF o = t THEN Clean(o)
    ELSE IF b = o THEN Clean(t)
    ELSE IF b = t THEN Clean(o)
    ELSE MergeChangedEntry(merge, b, o, t)

MergeEntry[v \in Versions \X Versions \X Versions] ==
    Merge(MergeEntry, v[1], v[2], v[3])

MergeSides ==
    /\ answer = None
    /\ answer' = MergeTrees(MergeEntry, sides.base, sides.ours, sides.theirs)
    /\ UNCHANGED sides

TreeSpec == TreeInit /\ [][MergeSides]_treeVars

-----------------------------------------------------------------------------
(* Properties                                                              *)

Paths == UNION {[1..d -> Names] : d \in 1..MaxDepth}

\* What path leads to from e.
EntryAt(e, path) ==
    LET at[k \in 0..Len(path)] ==
            IF k = 0 THEN e
            ELSE IF IsTree(at[k - 1]) THEN at[k - 1].sub[path[k]] ELSE Absent
    IN  at[Len(path)]

\* An entry as it is checked out: trees are no more than the paths below them.
File(e) == IF IsTree(e) THEN Absent ELSE e
FileAt(e, path) == File(EntryAt(e, path))

BothChanged(b, o, t) == b # o /\ b # t /\ o # t

\* Two changes of one file are merged, of anything else they are not.
Irreconcilable(b, o, t) ==
    /\ BothChanged(b, o, t)
    /\ \/ ~(IsFile(o) /\ IsFile(t)) \/ IsLink(o) \/ IsLink(t)
       \/ MergeMode(b, o, t) = None \/ ~Mergeable(b, o, t)

\* A directory that one side changed, and the other replaced or deleted.
DirectoryClash(b, o, t) ==
    /\ IsTree(b) \/ IsTree(o) \/ IsTree(t)
    /\ ~(IsTree(o) /\ IsTree(t)) /\ ~(IsFile(o) /\ IsFile(t))
    /\ BothChanged(b, o, t)

Wanted(b, o, t) ==
    IF o = t \/ b = t THEN o ELSE IF b = o THEN t
    ELSE Blob(MergeMode(b, o, t), MergedText(b, o, t))

\* The same of entries b, o and t, at a path below them.
ConflictAt(b, o, t, p) ==
    \/ Irreconcilable(FileAt(b, p), FileAt(o, p), FileAt(t, p))
    \/ DirectoryClash(EntryAt(b, p), EntryAt(o, p), EntryAt(t, p))

WantedAt(b, o, t, p) == Wanted(FileAt(b, p), FileAt(o, p), FileAt(t, p))

\* A file that ours changed and theirs made a link.
TheirLinkAt(b, o, t, p) ==
    /\ IsFile(FileAt(o, p)) /\ ~IsLink(FileAt(o, p)) /\ IsLink(FileAt(t, p))
    /\ BothChanged(FileAt(b, p), FileAt(o, p), FileAt(t, p))

\* Merging tree by tree gives what merging path by path does.  The conflicts
\* reported are conflicts of a path or a directory, and every conflict is among
\* them or below one of them; without any, each path has what the sides make of
\* it, deletions included (threeWayMerge: "Paths only one side changed take that
\* side").  Except where theirs alone made a link: see the README.
TreesMerge ==
    LET b == Tree(sides.base)  o == Tree(sides.ours)  t == Tree(sides.theirs)
    IN  answer # None =>
            /\ \A p \in answer.conflicts : p \in Paths /\ ConflictAt(b, o, t, p)
            /\ \A p \in Paths :
                  ConflictAt(b, o, t, p) /\ ~TheirLinkAt(b, o, t, p)
                     => \E k \in 1..Len(p) : SubSeq(p, 1, k) \in answer.conflicts
            /\ answer.conflicts = {} =>
                  \A p \in Paths : \/ FileAt(Tree(answer.tree), p) = WantedAt(b, o, t, p)
                                  \/ TheirLinkAt(b, o, t, p)
=============================================================================
