------------------------------ MODULE MCStorage ------------------------------
(* A small instance of Storage: of the cache every kind of read of one      *)
(* object is made, and of the prefix it lies under; the repositories are    *)
(* those of MCRepoLifecycle.                                                *)
EXTENDS Storage, MCRepoLifecycle
==============================================================================
