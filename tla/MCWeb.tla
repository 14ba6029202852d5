-------------------------------- MODULE MCWeb --------------------------------
(***************************************************************************)
(* A small instance of Web, and of the merge of trees beside it.           *)
(***************************************************************************)
EXTENDS Web, TreeMerge, TLC

CONSTANTS m1, m2, e1, e2, d1, s1, s2, small, big, x1, x2, u1, u2, i1, i2, short, long, api,
          n1, n2, x, y

\* The first merger names the head it reviewed.
MCExpected == (m1 :> 1) @@ (m2 :> None)

MCSizeOf == (small :> 1) @@ (big :> 2)

\* Two rules of Better Auth of which one has a shorter window, one and two seconds.
MCWindow == (short :> 2) @@ (long :> 4) @@ (api :> 4)
MCLimit == [k \in RateKeys |-> 1]
MCMaxCount == (short :> 1) @@ (long :> 1) @@ (api :> 2)

MCSymmetry == Permutations(Instances)

\* Texts of two lines, files, one of them empty, links and a submodule;
\* directories of two entries, and a directory in a directory.
Texts == {<<x, x>>, <<y, x>>, <<x, y>>}
Plain == {Blob("100644", text) : text \in Texts}
Directory(e, f) == Tree((n1 :> e) @@ (n2 :> f))
Flat == {Directory(e, f) : e, f \in Plain \cup {Absent}} \ {Tree(EmptyTree)}
Nested == {Directory(Directory(e, Absent), Absent) : e \in Plain}
MCTreeEntries ==
    Plain \cup Flat \cup Nested
        \cup {Blob(mode, text) : mode \in {"100755", "120000"}, text \in {<<x, x>>, <<y, x>>}}
        \cup {Blob("100644", Binary), Blob("100644", EmptyText), Submodule(x)}
MCDepth == [e \in MCTreeEntries \cup {Absent} |->
              IF e \in Nested THEN 2 ELSE IF e \in Flat THEN 1 ELSE 0]

\* Where the parts of Web stay as they begin, trees are merged.
RunInit ==
    /\ WebInit
    /\ IF part = "none" THEN TreeInit ELSE sides = <<>> /\ answer = None

RunNext ==
    \/ WebNext /\ UNCHANGED treeVars
    \/ Only("none") /\ MergeSides

RunSpec == RunInit /\ [][RunNext]_<<webVars, treeVars>>
==============================================================================
