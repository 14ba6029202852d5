---------------------------- MODULE MCKeptObjects ----------------------------
(* A small instance of KeptObjects: main names base; a client writes a     *)
(* tree, and a commit of the tree after base.                              *)
EXTENDS KeptObjects, TLC

CONSTANTS base, tree, commit, main, dev

MCObjects == {base, tree, commit}
MCLinks == (base :> {}) @@ (tree :> {}) @@ (commit :> {base, tree})
MCWrites == {{tree}, {commit}}
MCInitRef == (main :> base) @@ (dev :> None)
MCInitPacks == {{base}}
=============================================================================
