------------------------------- MODULE Storage -------------------------------
(* The read cache, the loose-object hint and the lifecycle of repositories  *)
(* in one specification: they share no state, and a behaviour is one of the *)
(* three, while the others stay as they begin.                              *)
EXTENDS RepoLifecycle, CachedStore, LooseHints

VARIABLE part

storageVars == <<part, vars, repoVars, hintVars>>

NothingStored == stored = [k \in Keys |-> None]
NothingLoose == loose = {}

StorageInit ==
    /\ Init /\ RepoInit /\ HintInit
    /\ \/ part = "cache" /\ NothingLoose
       \/ part = "hints" /\ NothingStored
       \/ part = "repositories" /\ NothingStored /\ NothingLoose

StorageNext ==
    /\ UNCHANGED part
    /\ \/ part = "cache" /\ Next /\ UNCHANGED <<repoVars, hintVars>>
       \/ part = "hints" /\ HintNext /\ UNCHANGED <<vars, repoVars>>
       \/ part = "repositories" /\ RepoNext /\ UNCHANGED <<vars, hintVars>>

StorageSpec == StorageInit /\ [][StorageNext]_storageVars

\* Answers, entries and listings, hints and detections, and rows, storage and
\* locks, keep the types their modules give them.
StorageTypeOK ==
    CASE part = "cache" -> TypeOK
      [] part = "hints" -> HintTypeOK
      [] part = "repositories" -> RepoTypeOK
==============================================================================
