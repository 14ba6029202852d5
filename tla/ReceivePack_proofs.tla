-------------------------- MODULE ReceivePack_proofs --------------------------
(***************************************************************************)
(* Proofs about ReceivePack, for any objects, packs, requests, pushers and *)
(* threshold: types, the lock, packs that stay whole, refs that stay       *)
(* complete, apart and move as claimed, the clean-up of refused pushes, and *)
(* the refinements of RepoMutex and AtomicRefs.  Each invariant is         *)
(* strengthened first; the strengthening says what the code relies on at   *)
(* each point, and each action keeps it.                                   *)
(***************************************************************************)
EXTENDS ReceivePack, ObjectGraph_proofs, TLAPS

-------------------------------------------------------------------------------
(* Types.  TypeOK alone is not inductive: an action that reads its request *)
(* needs to know that there is one.                                        *)

Serving ==
    /\ \A p \in Pushers : pc[p] # "idle" => req[p] \in Requests
    /\ \A p \in Pushers, i \in Positions : pc[p] = "idle" => phase[p][i] = "none"
    /\ \A p \in Pushers, i \in Positions :
          phase[p][i] # "none" => req[p] \in Requests /\ i \in DOMAIN req[p].cmds
    /\ \A p \in Pushers : pc[p] \in {"index", "reindex"} => fresh[p] \in Packs

Types == TypeOK /\ Serving

LEMMA RequestTypes ==
    ASSUME NEW q \in Requests
    PROVE  /\ q # None /\ q.pack \in Packs \cup {None}
           /\ DOMAIN q.cmds \subseteq Positions
           /\ \A i \in DOMAIN q.cmds :
                 /\ q.cmds[i] \in Commands
                 /\ q.cmds[i].name \in Names
                 /\ q.cmds[i].old \in Objects \cup {None}
                 /\ q.cmds[i].new \in Objects \cup {None}
  BY PushAssumption, RequestAssumption DEF Positions, Commands

LEMMA CommandTypes ==
    ASSUME Types, NEW p \in Pushers, NEW i \in Positions, phase[p][i] # "none"
    PROVE  /\ Command(p, i) \in Commands
           /\ Command(p, i).name \in Names
           /\ Command(p, i).old \in Objects \cup {None}
           /\ Command(p, i).new \in Objects \cup {None}
  BY RequestTypes DEF Types, Serving, Command

LEMMA FilesExcept ==
    ASSUME NEW f \in Files, NEW q
    PROVE  /\ [f EXCEPT !.idxs = @ \ {q}]
                 = [packs |-> f.packs, idxs |-> f.idxs \ {q}]
           /\ [f EXCEPT !.packs = @ \ {q}]
                 = [packs |-> f.packs \ {q}, idxs |-> f.idxs]
           /\ [f EXCEPT !.idxs = @ \ {q}] \in Files
           /\ [f EXCEPT !.packs = @ \ {q}] \in Files
  <1>1. f = [packs |-> f.packs, idxs |-> f.idxs]
    BY DEF Files
  <1> QED
    BY <1>1 DEF Files

LEMMA TypesInit == Init => Types
  <1> SUFFICES ASSUME Init PROVE Types
    OBVIOUS
  <1>1. TypeOK
    BY InitAssumption, PushAssumption
    DEF Init, TypeOK, PCs, Phases, Files, NoFiles
  <1>2. Serving
    BY DEF Init, Serving
  <1> QED
    BY <1>1, <1>2 DEF Types

LEMMA TypesNext == Types /\ [Next]_vars => Types'
  <1> SUFFICES ASSUME Types, [Next]_vars PROVE Types'
    OBVIOUS
  <1> USE DEF Types, TypeOK, Serving, PCs, Phases, Files, NoFiles, Go, store
  <1>1. ASSUME NEW p \in Pushers, NEW q \in Requests, Begin(p, q) PROVE Types'
    <2>1. TypeOK'
      BY <1>1 DEF Begin
    <2>2. Serving'
      BY <1>1 DEF Begin
    <2> QED
      BY <2>1, <2>2
  <1>2. ASSUME NEW p \in Pushers, Preflight(p) PROVE Types'
    <2>1. TypeOK'
      BY <1>2 DEF Preflight
    <2>2. Serving'
      BY <1>2 DEF Preflight, Sent
    <2> QED
      BY <2>1, <2>2
  <1>3. ASSUME NEW p \in Pushers, StorePack(p) PROVE Types'
    <2>1. req[p].pack \in Packs
      BY <1>3, RequestTypes DEF StorePack, PackNeeded
    <2> QED
      BY <1>3, <2>1 DEF StorePack
  <1>4. ASSUME NEW p \in Pushers, SkipPack(p) PROVE Types'
    BY <1>4 DEF SkipPack
  <1>5. ASSUME NEW p \in Pushers, IndexPack(p) PROVE Types'
    BY <1>5 DEF IndexPack
  <1>6. ASSUME NEW p \in Pushers, UnpackFails(p) PROVE Types'
    BY <1>6 DEF UnpackFails, MayHaveIndexed, Refuse
  <1>7. ASSUME NEW p \in Pushers, RejectPack(p) PROVE Types'
    BY <1>7 DEF RejectPack, Refuse, RemovableIncoming, KnownFiles
  <1>8. ASSUME NEW p \in Pushers, AcceptPack(p) PROVE Types'
    BY <1>8 DEF AcceptPack
  <1>9. ASSUME NEW p \in Pushers, NEW i \in Positions, CheckRef(p, i)
        PROVE Types'
    <2>1. Claimed(p, i) \subseteq Names
      BY <1>9, CommandTypes DEF CheckRef, Claimed
    <2> QED
      BY <1>9, <2>1 DEF CheckRef
  <1>10. ASSUME NEW p \in Pushers, NEW i \in Positions, UpdateRef(p, i)
         PROVE Types'
    <2>1. Command(p, i).new \in Objects \cup {None}
      BY <1>10, CommandTypes DEF UpdateRef
    <2> QED
      BY <1>10, <2>1 DEF UpdateRef
  <1>11. ASSUME NEW p \in Pushers, NEW i \in Positions, CommandThrows(p, i)
         PROVE Types'
    <2>1. Command(p, i).new \in Objects \cup {None}
      BY <1>11, CommandTypes DEF CommandThrows
    <2>2. TypeOK'
      BY <1>11, <2>1 DEF CommandThrows
    <2>3. Serving'
      BY <1>11 DEF CommandThrows
    <2> QED
      BY <2>2, <2>3
  <1>12. ASSUME NEW p \in Pushers, NoneApplied(p) PROVE Types'
    BY <1>12 DEF NoneApplied, RemovableIncoming, KnownFiles
  <1>13. ASSUME NEW p \in Pushers, KeepPacks(p) PROVE Types'
    BY <1>13 DEF KeepPacks, SomeApplied
  <1>14. ASSUME NEW p \in Pushers, NEW n \in Packs, Repack(p, n) PROVE Types'
    BY <1>14 DEF Repack, SomeApplied, Stale
  <1>15. ASSUME NEW p \in Pushers, IndexRepacked(p) PROVE Types'
    BY <1>15 DEF IndexRepacked
  <1>16. ASSUME NEW p \in Pushers, RepackFails(p) PROVE Types'
    BY <1>16 DEF RepackFails, SomeApplied, MayHaveIndexed
  <1>17. ASSUME NEW p \in Pushers, NEW q \in Packs, UnlinkIndex(p, q)
         PROVE Types'
    <2>1. doomed' \in [Pushers -> Files]
      <3>1. [doomed[p] EXCEPT !.idxs = @ \ {q}] \in Files
        BY FilesExcept
      <3> QED
        BY <1>17, <3>1 DEF UnlinkIndex
    <2>2. TypeOK'
      BY <1>17, <2>1 DEF UnlinkIndex
    <2>3. Serving'
      BY <1>17 DEF UnlinkIndex
    <2> QED
      BY <2>2, <2>3
  <1>18. ASSUME NEW p \in Pushers, NEW q \in Packs, UnlinkPack(p, q)
         PROVE Types'
    <2>1. doomed' \in [Pushers -> Files]
      <3>1. [doomed[p] EXCEPT !.packs = @ \ {q}] \in Files
        BY FilesExcept
      <3> QED
        BY <1>18, <3>1 DEF UnlinkPack
    <2>2. TypeOK'
      BY <1>18, <2>1 DEF UnlinkPack
    <2>3. Serving'
      BY <1>18 DEF UnlinkPack
    <2> QED
      BY <2>2, <2>3
  <1>19. ASSUME NEW p \in Pushers, Finish(p) PROVE Types'
    BY <1>19 DEF Finish
  <1>20. ASSUME NEW p \in Pushers, Crash(p) PROVE Types'
    BY <1>20 DEF Crash, Forget
  <1>21. ASSUME NEW p \in Pushers, Return(p) PROVE Types'
    BY <1>21 DEF Return, Forget
  <1>22. ASSUME NEW q \in Packs, Expire(q) PROVE Types'
    BY <1>22 DEF Expire
  <1>23. CASE UNCHANGED vars
    BY <1>23 DEF vars
  <1> QED
    BY <1>1, <1>2, <1>3, <1>4, <1>5, <1>6, <1>7, <1>8, <1>9, <1>10, <1>11,
       <1>12, <1>13, <1>14, <1>15, <1>16, <1>17, <1>18, <1>19, <1>20, <1>21,
       <1>22, <1>23 DEF Next, Push

\* The lock, the refs, the files and every push keep their types.
THEOREM Typing == Spec => []TypeOK
  <1>1. Types => TypeOK
    BY DEF Types
  <1> QED
    BY <1>1, TypesInit, TypesNext, PTL DEF Spec

-------------------------------------------------------------------------------
(* A push works only while it holds the lock, so at most one does; commands *)
(* are on their way only while their push applies them.                    *)

Working == {"preflight", "store", "index", "connect", "apply", "reindex",
            "unlink"}

Exclusive ==
    /\ \A p \in Pushers : pc[p] \in Working => lock = p
    /\ \A p \in Pushers, i \in Positions :
          phase[p][i] = "accepted" => pc[p] \in {"store", "index", "connect"}

LEMMA Alone ==
    ASSUME Exclusive, NEW p \in Pushers, pc[p] \in Working,
           NEW o \in Pushers, pc[o] \in Working
    PROVE  o = p
  BY DEF Exclusive

LEMMA ExclusiveNext == Types /\ Exclusive /\ [Next]_vars => Exclusive'
  <1> SUFFICES ASSUME Types, Exclusive, [Next]_vars PROVE Exclusive'
    OBVIOUS
  <1> USE PushAssumption
      DEF Types, TypeOK, PCs, Phases, Exclusive, Working, Go, store
  <1>1. ASSUME NEW p \in Pushers, NEW q \in Requests, Begin(p, q)
        PROVE Exclusive'
    BY <1>1 DEF Begin
  <1>2. ASSUME NEW p \in Pushers, Preflight(p) PROVE Exclusive'
    BY <1>2 DEF Preflight
  <1>3. ASSUME NEW p \in Pushers,
               StorePack(p) \/ SkipPack(p) \/ IndexPack(p)
        PROVE Exclusive'
    BY <1>3 DEF StorePack, SkipPack, IndexPack
  <1>4. ASSUME NEW p \in Pushers, UnpackFails(p) PROVE Exclusive'
    BY <1>4 DEF UnpackFails, Refuse
  <1>5. ASSUME NEW p \in Pushers, RejectPack(p) \/ AcceptPack(p)
        PROVE Exclusive'
    BY <1>5 DEF RejectPack, AcceptPack, Refuse
  <1>6. ASSUME NEW p \in Pushers, NEW i \in Positions, CheckRef(p, i)
        PROVE Exclusive'
    <2>1. \A o \in Pushers, j \in Positions :
              phase'[o][j] = "accepted" => phase[o][j] = "accepted"
      BY <1>6 DEF CheckRef
    <2> QED
      BY <1>6, <2>1 DEF CheckRef
  <1>7. ASSUME NEW p \in Pushers, NEW i \in Positions, UpdateRef(p, i)
        PROVE Exclusive'
    <2>1. \A o \in Pushers, j \in Positions :
              phase'[o][j] = "accepted" => phase[o][j] = "accepted"
      BY <1>7 DEF UpdateRef
    <2> QED
      BY <1>7, <2>1 DEF UpdateRef
  <1>8. ASSUME NEW p \in Pushers, NEW i \in Positions, CommandThrows(p, i)
        PROVE Exclusive'
    <2>1. \A o \in Pushers, j \in Positions :
              phase'[o][j] = "accepted" => phase[o][j] = "accepted"
      BY <1>8 DEF CommandThrows
    <2>2. CASE pc[p] = "apply"
      BY <1>8, <2>1, <2>2 DEF CommandThrows
    <2>3. CASE pc[p] # "apply"
      BY <1>8, <2>1, <2>3 DEF CommandThrows
    <2> QED
      BY <2>2, <2>3
  <1>9. ASSUME NEW p \in Pushers, NoneApplied(p) \/ IndexRepacked(p)
        PROVE Exclusive'
    BY <1>9 DEF NoneApplied, IndexRepacked
  <1>10. ASSUME NEW p \in Pushers,
                KeepPacks(p) \/ RepackFails(p) \/ Finish(p)
         PROVE Exclusive'
    <2>1. /\ pc' = [pc EXCEPT ![p] = "done"]
          /\ lock' = None /\ phase' = phase
          /\ pc[p] \in {"apply", "reindex", "unlink"}
      BY <1>10 DEF KeepPacks, RepackFails, Finish, SomeApplied
    <2>2. \A o \in Pushers \ {p} : pc[o] \notin Working
      BY <2>1, Alone
    <2> QED
      BY <2>1, <2>2
  <1>11. ASSUME NEW p \in Pushers, NEW n \in Packs, Repack(p, n)
         PROVE Exclusive'
    BY <1>11 DEF Repack, SomeApplied
  <1>12. ASSUME NEW p \in Pushers, NEW q \in Packs,
                UnlinkIndex(p, q) \/ UnlinkPack(p, q)
         PROVE Exclusive'
    BY <1>12 DEF UnlinkIndex, UnlinkPack
  <1>13. ASSUME NEW p \in Pushers, Crash(p) PROVE Exclusive'
    BY <1>13 DEF Crash, Forget
  <1>14. ASSUME NEW p \in Pushers, Return(p) PROVE Exclusive'
    BY <1>14 DEF Return, Forget
  <1>15. ASSUME NEW q \in Packs, Expire(q) PROVE Exclusive'
    BY <1>15 DEF Expire
  <1>16. CASE UNCHANGED vars
    BY <1>16 DEF vars
  <1> QED
    BY <1>1, <1>2, <1>3, <1>4, <1>5, <1>6, <1>7, <1>8, <1>9, <1>10, <1>11,
       <1>12, <1>13, <1>14, <1>15, <1>16 DEF Next, Push

-------------------------------------------------------------------------------
(* The lock, which ReceivePack takes to be a variable, is the one RepoMutex *)
(* promises and RepoLock provides: a push works for as long as it is inside *)
(* withRepositoryLock (git-http.ts), and waits for nobody who is not.       *)

AtWork == {p \in Pushers : pc[p] \in Working}
Mutex == INSTANCE RepoMutex WITH
            Callers <- Pushers,
            Needs <- [p \in Pushers |-> {"repository"}],
            running <- AtWork

LockUsed == lock # None => lock \in AtWork

\* What a step of p does to the lock and to the pushes at work.
Starts(p) == lock = None /\ lock' = p /\ AtWork' = AtWork \cup {p} /\ p \notin AtWork
GoesOn(p) == lock' = lock /\ AtWork' = AtWork
Stops(p) == lock' = None /\ AtWork' = AtWork \ {p} /\ p \in AtWork

LEMMA LockSteps ==
    ASSUME Types, Exclusive, LockUsed, NEW p \in Pushers, Push(p)
    PROVE  Starts(p) \/ GoesOn(p) \/ Stops(p)
  <1> USE DEF Types, TypeOK, Go, AtWork, Working
  <1>1. ASSUME NEW q \in Requests, Begin(p, q) PROVE Starts(p)
    BY <1>1 DEF Begin, Starts
  <1>2. CASE Preflight(p) \/ StorePack(p) \/ SkipPack(p) \/ IndexPack(p)
    BY <1>2 DEF Preflight, StorePack, SkipPack, IndexPack, GoesOn
  <1>3. CASE RejectPack(p) \/ AcceptPack(p) \/ NoneApplied(p) \/ IndexRepacked(p)
    BY <1>3 DEF RejectPack, AcceptPack, NoneApplied, IndexRepacked, GoesOn
  <1>4. ASSUME NEW i \in Positions, CheckRef(p, i) \/ UpdateRef(p, i)
        PROVE  GoesOn(p)
    BY <1>4 DEF CheckRef, UpdateRef, GoesOn
  <1>5. ASSUME NEW i \in Positions, CommandThrows(p, i)
        PROVE  GoesOn(p) \/ Stops(p)
    BY <1>5 DEF CommandThrows, GoesOn, Stops
  <1>6. CASE UnpackFails(p) \/ KeepPacks(p) \/ RepackFails(p) \/ Finish(p)
    BY <1>6 DEF UnpackFails, KeepPacks, RepackFails, Finish, SomeApplied, Stops
  <1>7. ASSUME NEW n \in Packs, Repack(p, n) PROVE GoesOn(p)
    BY <1>7 DEF Repack, SomeApplied, GoesOn
  <1>8. ASSUME NEW q \in Packs, UnlinkIndex(p, q) \/ UnlinkPack(p, q)
        PROVE  GoesOn(p)
    BY <1>8 DEF UnlinkIndex, UnlinkPack, GoesOn
  <1>9. CASE Crash(p)
    <2>1. pc' = [pc EXCEPT ![p] = "idle"]
      BY <1>9 DEF Crash, Forget
    <2>2. CASE lock = p
      BY <1>9, <2>1, <2>2, PushAssumption DEF Crash, LockUsed, Stops
    <2>3. CASE lock # p
      BY <1>9, <2>1, <2>3 DEF Crash, Exclusive, GoesOn
    <2> QED
      BY <2>2, <2>3
  <1>10. CASE Return(p)
    BY <1>10 DEF Return, Forget, GoesOn
  <1> QED
    BY <1>1, <1>2, <1>3, <1>4, <1>5, <1>6, <1>7, <1>8, <1>9, <1>10 DEF Push

LEMMA LockNext ==
    ASSUME Types, Exclusive, LockUsed, [Next]_vars
    PROVE  LockUsed' /\ [Mutex!Next]_AtWork
  <1>1. ASSUME NEW p \in Pushers, Push(p) PROVE LockUsed' /\ [Mutex!Next]_AtWork
    <2>1. CASE Starts(p)
      <3>1. AtWork = {}
        BY <2>1, PushAssumption DEF Starts, Exclusive, AtWork
      <3>2. Mutex!Enter(p)
        BY <2>1, <3>1 DEF Starts, Mutex!Enter
      <3> QED
        BY <2>1, <3>2 DEF Starts, LockUsed, Mutex!Next
    <2>2. CASE GoesOn(p)
      BY <2>2 DEF GoesOn, LockUsed
    <2>3. CASE Stops(p)
      BY <2>3 DEF Stops, LockUsed, Mutex!Next, Mutex!Leave
    <2> QED
      BY <1>1, <2>1, <2>2, <2>3, LockSteps
  <1>2. CASE UNCHANGED <<lock, pc>>
    BY <1>2 DEF LockUsed, AtWork
  <1> QED
    BY <1>1, <1>2 DEF Next, Expire, vars

\* Pushes work one at a time, as RepoMutex lets them, under every failure and
\* any crash; and a push that waits for the lock waits for one at work, so no
\* path out of applyReceivePack keeps the lock.
THEOREM PushesTakeTurns ==
    Spec => Mutex!Spec /\ [](lock = None <=> AtWork = {})
  <1> USE DEF Exclusive, LockUsed, AtWork, Working
  <1>1. Init => Exclusive /\ LockUsed /\ Mutex!Init
    BY PushAssumption DEF Init, Mutex!Init
  <1>2. Types /\ Exclusive /\ LockUsed => (lock = None <=> AtWork = {})
    BY PushAssumption
  <1> HIDE DEF Exclusive, LockUsed, AtWork, Working
  <1>3. Types /\ Exclusive /\ LockUsed /\ [Next]_vars
          => Types' /\ Exclusive' /\ LockUsed' /\ [Mutex!Next]_AtWork
    BY TypesNext, ExclusiveNext, LockNext
  <1> QED
    BY <1>1, <1>2, <1>3, TypesInit, PTL DEF Spec, Mutex!Spec

-------------------------------------------------------------------------------
(* WholePacks is not inductive: that the packs are whole now does not say  *)
(* that the file unlinked next leaves them whole.  A doomed pack must have *)
(* lost its index, or its index must be doomed too.                        *)

WholeInv ==
    /\ idxs \subseteq packs
    /\ \A p \in Pushers :
          /\ pc[p] \in {"store", "index", "connect", "apply"}
                => was[p].idxs \subseteq was[p].packs
          /\ pc[p] \in {"index", "reindex"} => fresh[p] \in packs
          /\ pc[p] = "reindex" => fresh[p] \notin doomed[p].packs
          /\ pc[p] \in {"reindex", "unlink"}
                => doomed[p].packs \cap idxs \subseteq doomed[p].idxs

LEMMA WholeNext ==
    ASSUME "unlink" \notin Faults, Types, Exclusive, WholeInv, [Next]_vars
    PROVE  WholeInv'
  <1> USE DEF Types, TypeOK, PCs, Files, NoFiles, WholeInv, Go, store
  <1>1. ASSUME NEW p \in Pushers, NEW q \in Requests, Begin(p, q)
        PROVE WholeInv'
    BY <1>1 DEF Begin
  <1>2. ASSUME NEW p \in Pushers,
               Preflight(p) \/ StorePack(p) \/ SkipPack(p)
        PROVE WholeInv'
    BY <1>2 DEF Preflight, StorePack, SkipPack
  <1>3. ASSUME NEW p \in Pushers, IndexPack(p) \/ IndexRepacked(p)
        PROVE WholeInv'
    <2>1. \A o \in Pushers \ {p} : pc[o] \notin {"reindex", "unlink"}
      BY <1>3, Alone DEF IndexPack, IndexRepacked, Working
    <2>2. CASE IndexPack(p)
      BY <2>1, <2>2 DEF IndexPack
    <2>3. CASE IndexRepacked(p)
      BY <2>1, <2>3 DEF IndexRepacked
    <2> QED
      BY <1>3, <2>2, <2>3
  <1>4. ASSUME NEW p \in Pushers, UnpackFails(p) \/ RepackFails(p)
        PROVE WholeInv'
    <2>1. \A o \in Pushers \ {p} : pc[o] \notin {"reindex", "unlink"}
      BY <1>4, Alone DEF UnpackFails, RepackFails, SomeApplied, Working
    <2> QED
      BY <1>4, <2>1
      DEF UnpackFails, RepackFails, SomeApplied, MayHaveIndexed
  <1>5. ASSUME NEW p \in Pushers, RejectPack(p) \/ NoneApplied(p)
        PROVE WholeInv'
    <2>1. /\ doomed' = [doomed EXCEPT ![p] = RemovableIncoming(p)]
          /\ was[p].idxs \subseteq was[p].packs
          /\ pc' = [pc EXCEPT ![p] = "unlink"]
          /\ UNCHANGED <<packs, idxs, was, fresh>>
      BY <1>5 DEF RejectPack, NoneApplied
    <2>2. RemovableIncoming(p).packs \subseteq RemovableIncoming(p).idxs
      BY <2>1 DEF RemovableIncoming, KnownFiles
    <2> QED
      BY <2>1, <2>2 DEF RemovableIncoming
  <1>6. ASSUME NEW p \in Pushers, NEW i \in Positions,
               CheckRef(p, i) \/ UpdateRef(p, i) \/ CommandThrows(p, i)
        PROVE WholeInv'
    BY <1>6 DEF CheckRef, UpdateRef, CommandThrows
  <1>7. ASSUME NEW p \in Pushers, NEW n \in Packs, Repack(p, n)
        PROVE WholeInv'
    BY <1>7 DEF Repack, Stale
  <1>8. ASSUME NEW p \in Pushers, NEW q \in Packs, UnlinkIndex(p, q)
        PROVE WholeInv'
    <2>1. \A o \in Pushers \ {p} : pc[o] \notin {"reindex", "unlink"}
      BY <1>8, Alone DEF UnlinkIndex, Working
    <2> QED
      BY <1>8, <2>1 DEF UnlinkIndex
  <1>9. ASSUME NEW p \in Pushers, NEW q \in Packs, UnlinkPack(p, q)
        PROVE WholeInv'
    <2>1. \A o \in Pushers \ {p} : pc[o] \notin {"index", "reindex"}
      BY <1>9, Alone DEF UnlinkPack, Working
    <2>2. q \notin idxs
      BY <1>9 DEF UnlinkPack, PackTurn
    <2> QED
      BY <1>9, <2>1, <2>2 DEF UnlinkPack
  <1>10. ASSUME NEW p \in Pushers, AcceptPack(p) \/ KeepPacks(p) \/ Finish(p)
         PROVE WholeInv'
    BY <1>10 DEF AcceptPack, KeepPacks, Finish
  <1>11. ASSUME NEW p \in Pushers, Crash(p) \/ Return(p) PROVE WholeInv'
    <2>1. /\ pc' = [pc EXCEPT ![p] = "idle"]
          /\ UNCHANGED <<packs, idxs>>
          /\ was' = [was EXCEPT ![p] = NoFiles]
          /\ fresh' = [fresh EXCEPT ![p] = None]
          /\ doomed' = [doomed EXCEPT ![p] = NoFiles]
      BY <1>11 DEF Crash, Return, Forget
    <2> QED
      BY <2>1
  <1>12. ASSUME NEW q \in Packs, Expire(q) PROVE WholeInv'
    BY <1>12 DEF Expire
  <1>13. CASE UNCHANGED vars
    BY <1>13 DEF vars
  <1> QED
    BY <1>1, <1>2, <1>3, <1>4, <1>5, <1>6, <1>7, <1>8, <1>9, <1>10, <1>11,
       <1>12, <1>13 DEF Next, Push

LEMMA SafeInit == Init => Exclusive /\ WholeInv
  BY InitAssumption, PushAssumption
  DEF Init, Exclusive, WholeInv, Working, NoFiles

\* As long as no unlink fails, a reader never finds an index without its
\* pack, whatever else fails and whenever an instance dies.
THEOREM PacksStayWhole == "unlink" \notin Faults => (Spec => []WholePacks)
  <1> SUFFICES ASSUME "unlink" \notin Faults PROVE Spec => []WholePacks
    OBVIOUS
  <1>1. WholeInv => WholePacks
    BY DEF WholeInv, WholePacks
  <1>2. Types /\ Exclusive /\ WholeInv /\ [Next]_vars
            => (Types /\ Exclusive /\ WholeInv)'
    BY TypesNext, ExclusiveNext, WholeNext
  <1>3. Init => Types /\ Exclusive /\ WholeInv
    BY TypesInit, SafeInit
  <1> QED
    BY <1>1, <1>2, <1>3, PTL DEF Spec

-------------------------------------------------------------------------------
(* Refs.  The theorems below hold as long as a push that fails leaves no   *)
(* command running (NoLeaks) and pack listings succeed (the fault "list"): *)
(* the run push_leak shows what a leaked command does, and a push that     *)
(* failed to list may take a pack that was stored before it for its own.   *)

\* No storage call of a command fails, or every push has one command only.
NoLeaks ==
    \/ "apply" \notin Faults
    \/ \A q \in Requests : \A i, j \in DOMAIN q.cmds : i = j

Calm == NoLeaks /\ "list" \notin Faults

CompleteIn(V) == \A n \in Names : ref[n] # None => Complete(ref[n], V)

\* RefsComplete is not inductive either.  Each command on its way must carry
\* a complete tip, to a ref that still has its claimed value; and what is
\* left once every doomed file is gone must hold every history: the files
\* listed at the start when a push is refused, the consolidated pack when it
\* is repacked.
OnItsWay(p) ==
    /\ \A i \in Positions : phase[p][i] \in {"cas", "write"} =>
          /\ pc[p] = "apply"
          /\ Command(p, i).new # None => Complete(Command(p, i).new, Visible)
    /\ \A i \in Positions : phase[p][i] \in {"accepted", "write"} =>
          ref[Command(p, i).name] = Command(p, i).old
    /\ \A i, j \in Positions :
          /\ i # j
          /\ phase[p][i] \in {"accepted", "cas", "write"}
          /\ phase[p][j] \in {"accepted", "cas", "write"}
          => Command(p, i).name # Command(p, j).name

Spared(p) ==
    /\ listed[p]
    /\ was[p].packs \subseteq packs /\ was[p].idxs \subseteq idxs
    /\ CompleteIn(Stored(was[p].packs \cap was[p].idxs))

Consolidated(p) ==
    /\ fresh[p] \in packs
    /\ fresh[p] \notin doomed[p].packs \cup doomed[p].idxs
    /\ CompleteIn(Content[fresh[p]])

Remaining(p) == (packs \ doomed[p].packs) \cap (idxs \ doomed[p].idxs)

PushInv(p) ==
    /\ OnItsWay(p)
    /\ \/ pc[p] \in {"store", "index", "connect"}
       \/ pc[p] = "apply" /\ InPhase(p, "ok") = {}
       => Spared(p)
    /\ pc[p] = "reindex" => Consolidated(p)
    /\ pc[p] = "unlink" => CompleteIn(Stored(Remaining(p)))

RefsInv == RefsComplete /\ \A p \in Pushers : PushInv(p)

LEMMA StoredMonotone ==
    ASSUME NEW A, NEW B, A \subseteq B
    PROVE  Stored(A) \subseteq Stored(B)
  BY DEF Stored

LEMMA CompleteInMonotone ==
    ASSUME NEW V, NEW W, V \subseteq W, CompleteIn(V)
    PROVE  CompleteIn(W)
  BY CompleteMonotone DEF CompleteIn

\* More is stored, and no ref moves.
LEMMA Grows ==
    ASSUME RefsComplete, packs \subseteq packs', idxs \subseteq idxs', ref' = ref
    PROVE  RefsComplete' /\ Visible \subseteq Visible'
  <1>1. Visible \subseteq Visible'
    BY StoredMonotone DEF Visible, Stored
  <1> QED
    BY <1>1, CompleteMonotone DEF RefsComplete

\* A step of the push that holds the lock leaves the others, which have no
\* command on its way and nothing to unlink, as they are.
LEMMA Bystander ==
    ASSUME Types, Exclusive, RefsInv,
           NEW p \in Pushers, pc[p] \in Working,
           NEW o \in Pushers, o # p,
           pc'[o] = pc[o], phase'[o] = phase[o]
    PROVE  PushInv(o)'
  <1>1. pc[o] \notin Working
    BY Alone
  <1>2. \A i \in Positions : phase[o][i] \notin {"accepted", "cas", "write"}
    BY <1>1 DEF Exclusive, RefsInv, PushInv, OnItsWay, Working
  <1> QED
    BY <1>1, <1>2 DEF PushInv, OnItsWay, Working

LEMMA RefsInit == Init => RefsInv
  <1> SUFFICES ASSUME Init PROVE RefsInv
    OBVIOUS
  <1>1. RefsComplete
    <2>1. Visible = Stored(InitPacks)
      BY DEF Init, Visible, Stored
    <2> QED
      BY <2>1, InitAssumption DEF Init, RefsComplete
  <1>2. \A p \in Pushers : PushInv(p)
    BY DEF Init, PushInv, OnItsWay
  <1> QED
    BY <1>1, <1>2 DEF RefsInv

LEMMA PrimedComplete ==
    \A p \in Pushers, i \in Positions :
        Complete(Command(p, i).new, Visible)'
            = Complete(Command(p, i)'.new, Visible')
  BY DEF Complete, WalkComplete

LEMMA PreflightKeeps ==
    ASSUME "list" \notin Faults, Types, RefsInv,
           NEW p \in Pushers, Preflight(p)
    PROVE  PushInv(p)'
  <1> USE DEF Types, TypeOK
  <1>1. /\ pc'[p] = "store" /\ listed'[p] = TRUE
        /\ was'[p] = [packs |-> packs, idxs |-> idxs]
        /\ UNCHANGED <<ref, packs, idxs, req>>
    BY DEF Preflight, Go, store
  <1>2. \A i \in Positions :
            /\ phase'[p][i] \notin {"cas", "write"}
            /\ phase'[p][i] = "accepted" => i \in Sent(p) /\ Passes(p, i)
    BY DEF Preflight
  <1>3. \A i \in Positions : Command(p, i)' = Command(p, i)
    BY <1>1 DEF Command
  <1>4. OnItsWay(p)'
    <2>1. \A i \in Positions : phase'[p][i] = "accepted" =>
              ref'[Command(p, i)'.name] = Command(p, i)'.old
      BY <1>1, <1>2, <1>3 DEF Passes
    <2>2. ASSUME NEW i \in Positions, NEW j \in Positions, i # j,
                 phase'[p][i] = "accepted", phase'[p][j] = "accepted"
          PROVE  Command(p, i)'.name # Command(p, j)'.name
      <3>1. i \in Nat /\ j \in Nat
        BY RequestAssumption DEF Positions
      <3>2. i < j \/ j < i
        BY <2>2, <3>1
      <3> QED
        BY <1>2, <1>3, <2>2, <3>2 DEF Passes
    <2> QED
      BY <1>2, <2>1, <2>2 DEF OnItsWay
  <1>5. Spared(p)'
    BY <1>1 DEF Spared, RefsInv, RefsComplete, CompleteIn, Visible, Stored
  <1> QED
    BY <1>1, <1>4, <1>5 DEF PushInv

LEMMA AcceptKeeps ==
    ASSUME Types, Exclusive, RefsInv, NEW p \in Pushers, AcceptPack(p)
    PROVE  PushInv(p)'
  <1> USE DEF Types, TypeOK
  <1>1. /\ pc[p] = "connect" /\ pc'[p] = "apply"
        /\ UNCHANGED <<ref, packs, idxs, req, was, listed>>
    BY DEF AcceptPack, Go, store
  <1>2. \A i \in Positions :
            /\ phase'[p][i] \in {"cas", "write"} => phase[p][i] = "accepted"
            /\ phase'[p][i] \notin {"accepted", "write"}
    BY <1>1 DEF AcceptPack, RefsInv, PushInv, OnItsWay
  <1>3. \A i \in Positions : Command(p, i)' = Command(p, i)
    BY <1>1 DEF Command
  <1>4. \A h \in HaveOids(p) : Complete(h, Visible)
    <2> SUFFICES ASSUME NEW h \in HaveOids(p) PROVE Complete(h, Visible)
      OBVIOUS
    <2>1. PICK n \in Names : ref[n] = h
      <3>1. CASE \E n \in Pushable : h = ref[n]
        BY <3>1, PushAssumption
      <3>2. CASE \E i \in InPhase(p, "accepted") : h = Command(p, i).old
        <4>1. PICK i \in Positions :
                  phase[p][i] = "accepted" /\ h = Command(p, i).old
          BY <3>2 DEF InPhase
        <4>2. Command(p, i).name \in Names
          BY <4>1, CommandTypes
        <4> QED
          BY <4>1, <4>2 DEF RefsInv, PushInv, OnItsWay
      <3> QED
        BY <3>1, <3>2 DEF HaveOids
    <2> QED
      BY <2>1 DEF HaveOids, RefsInv, RefsComplete
  <1>5. \A o \in NewTips(p) : Complete(o, Visible)
    BY <1>4, WalkFromHaves DEF AcceptPack, Connected
  <1>6. Visible' = Visible
    BY <1>1 DEF Visible
  <1>7. OnItsWay(p)'
    <2>1. ASSUME NEW i \in Positions, phase'[p][i] \in {"cas", "write"},
                 Command(p, i)'.new # None
          PROVE  Complete(Command(p, i)'.new, Visible')
      <3>1. Command(p, i).new \in NewTips(p)
        BY <1>2, <1>3, <2>1 DEF NewTips, InPhase
      <3> QED
        BY <1>3, <1>5, <1>6, <3>1
    <2>2. \A i, j \in Positions :
              /\ i # j
              /\ phase'[p][i] \in {"accepted", "cas", "write"}
              /\ phase'[p][j] \in {"accepted", "cas", "write"}
              => Command(p, i)'.name # Command(p, j)'.name
      BY <1>2, <1>3 DEF RefsInv, PushInv, OnItsWay
    <2> QED
      BY <1>1, <1>2, <2>1, <2>2, PrimedComplete DEF OnItsWay
  <1>8. Spared(p)'
    BY <1>1 DEF RefsInv, PushInv, Spared, CompleteIn, Stored
  <1> QED
    BY <1>1, <1>7, <1>8 DEF PushInv

LEMMA CheckKeeps ==
    ASSUME Types, Exclusive, RefsInv,
           NEW p \in Pushers, NEW i \in Positions, CheckRef(p, i)
    PROVE  PushInv(p)'
  <1> USE DEF Types, TypeOK
  <1>1. /\ pc[p] = "apply" /\ phase[p][i] = "cas"
        /\ UNCHANGED <<ref, packs, idxs, req, was, listed, pc>>
    BY DEF CheckRef, RefsInv, PushInv, OnItsWay, store
  <1>2. \A j \in Positions : j # i => phase'[p][j] = phase[p][j]
    BY DEF CheckRef
  <1>3. /\ phase'[p][i] \in {"ng", "write"}
        /\ phase'[p][i] = "write" => ref[Command(p, i).name] = Command(p, i).old
    BY DEF CheckRef, CasFails
  <1>4. \A j \in Positions : Command(p, j)' = Command(p, j)
    BY <1>1 DEF Command
  <1>5. Visible' = Visible
    BY <1>1 DEF Visible
  <1>6. \A j \in Positions :
            Complete(Command(p, j).new, Visible)' = Complete(Command(p, j).new, Visible)
    BY <1>4, <1>5, PrimedComplete
  <1>7. OnItsWay(p)'
    <2>1. OnItsWay(p)
      BY DEF RefsInv, PushInv
    <2>2. \A j \in Positions : phase'[p][j] \in {"cas", "write"} =>
              (Command(p, j)'.new # None => Complete(Command(p, j).new, Visible)')
      BY <1>1, <1>2, <1>4, <1>6, <2>1 DEF OnItsWay
    <2>3. \A j \in Positions : phase'[p][j] \in {"accepted", "write"} =>
              ref'[Command(p, j)'.name] = Command(p, j)'.old
      BY <1>1, <1>2, <1>3, <1>4, <2>1 DEF OnItsWay
    <2>4. \A j, k \in Positions :
              /\ j # k
              /\ phase'[p][j] \in {"accepted", "cas", "write"}
              /\ phase'[p][k] \in {"accepted", "cas", "write"}
              => Command(p, j)'.name # Command(p, k)'.name
      BY <1>1, <1>2, <1>3, <1>4, <2>1 DEF OnItsWay
    <2> QED
      BY <1>1, <2>2, <2>3, <2>4 DEF OnItsWay
  <1>8. InPhase(p, "ok")' = InPhase(p, "ok")
    BY <1>1, <1>2, <1>3 DEF InPhase
  <1>9. Spared(p)' = Spared(p)
    BY <1>1 DEF Spared, CompleteIn, Stored
  <1> QED
    BY <1>1, <1>7, <1>8, <1>9 DEF RefsInv, PushInv

LEMMA UpdateKeeps ==
    ASSUME Types, Exclusive, RefsInv,
           NEW p \in Pushers, NEW i \in Positions, UpdateRef(p, i)
    PROVE  RefsComplete' /\ PushInv(p)'
  <1> USE DEF Types, TypeOK
  <1> DEFINE n == Command(p, i).name
             new == Command(p, i).new
  <1>1. /\ pc[p] = "apply" /\ phase[p][i] = "write"
        /\ ref' = [ref EXCEPT ![n] = new]
        /\ UNCHANGED <<packs, idxs, req, pc>>
    BY DEF UpdateRef, RefsInv, PushInv, OnItsWay, store
  <1>2. n \in Names /\ (new # None => Complete(new, Visible))
    BY <1>1, CommandTypes DEF RefsInv, PushInv, OnItsWay
  <1>3. /\ phase'[p][i] = "ok"
        /\ \A j \in Positions : j # i => phase'[p][j] = phase[p][j]
    BY DEF UpdateRef
  <1>4. \A j \in Positions : Command(p, j)' = Command(p, j)
    BY <1>1 DEF Command
  <1>5. Visible' = Visible
    BY <1>1 DEF Visible
  <1>6. RefsComplete'
    <2>1. \A m \in Names : ref'[m] = new \/ ref'[m] = ref[m]
      BY <1>1
    <2> QED
      BY <1>2, <1>5, <2>1 DEF RefsInv, RefsComplete
  <1>7. OnItsWay(p)'
    <2>1. \A j \in Positions : phase'[p][j] \in {"accepted", "write"} =>
              /\ j # i
              /\ ref'[Command(p, j).name] = Command(p, j).old
      <3> SUFFICES ASSUME NEW j \in Positions,
                          phase'[p][j] \in {"accepted", "write"}
                   PROVE  /\ j # i
                          /\ ref'[Command(p, j).name] = Command(p, j).old
        OBVIOUS
      <3>1. j # i /\ phase[p][j] \in {"accepted", "write"}
        BY <1>3
      <3>2. Command(p, j).name # n /\ ref[Command(p, j).name] = Command(p, j).old
        BY <1>1, <3>1 DEF RefsInv, PushInv, OnItsWay
      <3>3. Command(p, j).name \in Names
        BY <3>1, CommandTypes
      <3> QED
        BY <1>1, <3>1, <3>2, <3>3
    <2>2. \A j \in Positions :
              Complete(Command(p, j).new, Visible)' = Complete(Command(p, j).new, Visible)
      BY <1>4, <1>5, PrimedComplete
    <2>3. OnItsWay(p)
      BY DEF RefsInv, PushInv
    <2>4. \A j \in Positions : phase'[p][j] \in {"cas", "write"} =>
              (Command(p, j)'.new # None => Complete(Command(p, j).new, Visible)')
      BY <1>3, <1>4, <2>2, <2>3 DEF OnItsWay
    <2>5. \A j, k \in Positions :
              /\ j # k
              /\ phase'[p][j] \in {"accepted", "cas", "write"}
              /\ phase'[p][k] \in {"accepted", "cas", "write"}
              => Command(p, j)'.name # Command(p, k)'.name
      BY <1>3, <1>4, <2>3 DEF OnItsWay
    <2>6. \A j \in Positions : phase'[p][j] \in {"accepted", "write"} =>
              ref'[Command(p, j)'.name] = Command(p, j)'.old
      BY <1>4, <2>1
    <2> QED
      BY <1>1, <2>4, <2>5, <2>6 DEF OnItsWay
  <1>8. InPhase(p, "ok")' # {}
    BY <1>3 DEF InPhase
  <1> QED
    BY <1>1, <1>6, <1>7, <1>8 DEF PushInv

LEMMA ThrowKeeps ==
    ASSUME NoLeaks, Types, Exclusive, RefsInv,
           NEW p \in Pushers, NEW i \in Positions, CommandThrows(p, i)
    PROVE  RefsComplete' /\ PushInv(p)'
  <1> USE DEF Types, TypeOK
  <1> DEFINE n == Command(p, i).name
             new == Command(p, i).new
  <1>1. /\ pc[p] = "apply" /\ pc'[p] = "thrown"
        /\ phase[p][i] \in {"cas", "write"}
        /\ ref' = ref \/ ref' = [ref EXCEPT ![n] = new]
        /\ UNCHANGED <<packs, idxs, req>>
    BY DEF CommandThrows, RefsInv, PushInv, OnItsWay, store, Go
  <1>2. n \in Names /\ (new # None => Complete(new, Visible))
    BY <1>1, CommandTypes DEF RefsInv, PushInv, OnItsWay
  <1>3. \A j \in Positions : phase'[p][j] \notin {"accepted", "cas", "write"}
    <2> SUFFICES ASSUME NEW j \in Positions,
                        phase'[p][j] \in {"accepted", "cas", "write"}
                 PROVE  FALSE
      OBVIOUS
    <2>1. j # i /\ phase[p][j] \in {"accepted", "cas", "write"}
      BY DEF CommandThrows
    <2>2. /\ req[p] \in Requests
          /\ i \in DOMAIN req[p].cmds /\ j \in DOMAIN req[p].cmds
      BY <1>1, <2>1 DEF Serving
    <2>3. "apply" \in Faults
      BY DEF CommandThrows
    <2> QED
      BY <2>1, <2>2, <2>3 DEF NoLeaks
  <1>4. Visible' = Visible
    BY <1>1 DEF Visible
  <1>5. RefsComplete'
    <2>1. \A m \in Names : ref'[m] = new \/ ref'[m] = ref[m]
      BY <1>1
    <2> QED
      BY <1>2, <1>4, <2>1 DEF RefsInv, RefsComplete
  <1> QED
    BY <1>1, <1>3, <1>5 DEF PushInv, OnItsWay

\* A refused push takes out its own files only: what was listed at the start
\* holds every history.
LEMMA RefusalKeeps ==
    ASSUME Types, Exclusive, RefsInv,
           NEW p \in Pushers, RejectPack(p) \/ NoneApplied(p)
    PROVE  PushInv(p)'
  <1> USE DEF Types, TypeOK
  <1>1. /\ pc'[p] = "unlink" /\ doomed'[p] = RemovableIncoming(p)
        /\ UNCHANGED <<ref, packs, idxs>>
        /\ Spared(p)
    BY DEF RejectPack, NoneApplied, Go, store, RefsInv, PushInv
  <1>2. \A j \in Positions : phase'[p][j] \notin {"accepted", "cas", "write"}
    <2>1. CASE RejectPack(p)
      BY <2>1 DEF RejectPack, Refuse, RefsInv, PushInv, OnItsWay, Phases
    <2>2. CASE NoneApplied(p)
      BY <2>2 DEF NoneApplied, Settled, InPhase, Exclusive
    <2> QED
      BY <2>1, <2>2
  <1>3. was[p].packs \cap was[p].idxs \subseteq Remaining(p)'
    BY <1>1 DEF Spared, Remaining, RemovableIncoming, KnownFiles
  <1>4. CompleteIn(Stored(Remaining(p)'))
    BY <1>1, <1>3, StoredMonotone, CompleteInMonotone DEF Spared
  <1>5. CompleteIn(Stored(Remaining(p)))'
    BY <1>1, <1>4 DEF CompleteIn, Stored
  <1> QED
    BY <1>1, <1>2, <1>5 DEF PushInv, OnItsWay

LEMMA RepackKeeps ==
    ASSUME Types, Exclusive, RefsInv,
           NEW p \in Pushers, NEW n \in Packs, Repack(p, n)
    PROVE  PushInv(p)'
  <1> USE DEF Types, TypeOK
  <1>1. /\ pc'[p] = "reindex" /\ doomed'[p] = Stale(n) /\ fresh'[p] = n
        /\ packs' = packs \cup {n}
        /\ UNCHANGED <<ref, phase, req>>
        /\ Settled(p) /\ pc[p] = "apply"
        /\ WalkComplete(RepackTips, {}, Content[n])
    BY DEF Repack, SomeApplied, Consolidates, Go
  <1>2. \A j \in Positions : phase'[p][j] \notin {"accepted", "cas", "write"}
    BY <1>1 DEF Settled, InPhase, Exclusive
  <1>3. CompleteIn(Content[n])
    BY <1>1, WalkShowsTips DEF CompleteIn, RepackTips
  <1>4. CompleteIn(Content[fresh[p]])'
    BY <1>1, <1>3 DEF CompleteIn
  <1>5. Consolidated(p)'
    BY <1>1, <1>4 DEF Consolidated, Stale
  <1> QED
    BY <1>1, <1>2, <1>5 DEF PushInv, OnItsWay

LEMMA IndexRepackedKeeps ==
    ASSUME Types, Exclusive, RefsInv, NEW p \in Pushers, IndexRepacked(p)
    PROVE  PushInv(p)'
  <1> USE DEF Types, TypeOK
  <1>1. /\ pc[p] = "reindex" /\ pc'[p] = "unlink"
        /\ idxs' = idxs \cup {fresh[p]}
        /\ UNCHANGED <<ref, phase, packs, fresh, doomed>>
        /\ Consolidated(p)
    BY DEF IndexRepacked, Go, RefsInv, PushInv
  <1>2. \A j \in Positions : phase'[p][j] \notin {"accepted", "cas", "write"}
    BY <1>1 DEF Exclusive, RefsInv, PushInv, OnItsWay
  <1>3. Content[fresh[p]] \subseteq Stored(Remaining(p)')
    BY <1>1 DEF Consolidated, Remaining, Stored
  <1>4. CompleteIn(Stored(Remaining(p)'))
    BY <1>1, <1>3, CompleteInMonotone DEF Consolidated
  <1>5. CompleteIn(Stored(Remaining(p)))'
    BY <1>1, <1>4 DEF CompleteIn, Stored
  <1> QED
    BY <1>1, <1>2, <1>5 DEF PushInv, OnItsWay

LEMMA UnlinkKeeps ==
    ASSUME Types, Exclusive, RefsInv, NEW p \in Pushers, NEW q \in Packs,
           UnlinkIndex(p, q) \/ UnlinkPack(p, q)
    PROVE  RefsComplete' /\ PushInv(p)'
  <1> USE DEF Types, TypeOK
  <1>1. /\ pc[p] = "unlink" /\ pc'[p] = "unlink"
        /\ UNCHANGED <<ref, phase>>
        /\ CompleteIn(Stored(Remaining(p)))
    BY DEF UnlinkIndex, UnlinkPack, RefsInv, PushInv
  <1>2. \A j \in Positions : phase'[p][j] \notin {"accepted", "cas", "write"}
    BY <1>1 DEF Exclusive, RefsInv, PushInv, OnItsWay
  <1>3. Remaining(p) \subseteq Remaining(p)'
    <2>1. doomed[p] \in Files
      OBVIOUS
    <2>2. CASE UnlinkIndex(p, q)
      <3>1. doomed'[p] = [packs |-> doomed[p].packs, idxs |-> doomed[p].idxs \ {q}]
        BY <2>1, <2>2, FilesExcept DEF UnlinkIndex
      <3> QED
        BY <2>2, <3>1 DEF UnlinkIndex, Remaining
    <2>3. CASE UnlinkPack(p, q)
      <3>1. doomed'[p] = [packs |-> doomed[p].packs \ {q}, idxs |-> doomed[p].idxs]
        BY <2>1, <2>3, FilesExcept DEF UnlinkPack
      <3> QED
        BY <2>3, <3>1 DEF UnlinkPack, Remaining
    <2> QED
      BY <2>2, <2>3
  <1>4. CompleteIn(Stored(Remaining(p)'))
    BY <1>1, <1>3, StoredMonotone, CompleteInMonotone
  <1>5. CompleteIn(Stored(Remaining(p)))'
    BY <1>1, <1>4 DEF CompleteIn, Stored
  <1>6. RefsComplete'
    <2>1. Remaining(p)' \subseteq packs' \cap idxs'
      BY DEF Remaining
    <2>2. Stored(Remaining(p)') \subseteq Visible'
      BY <2>1, StoredMonotone DEF Visible, Stored
    <2>3. CompleteIn(Visible')
      BY <1>4, <2>2, CompleteInMonotone
    <2> QED
      BY <1>1, <2>3 DEF CompleteIn, RefsComplete, Complete, WalkComplete
  <1> QED
    BY <1>1, <1>2, <1>5, <1>6 DEF PushInv, OnItsWay

\* Nothing of the storage changes, and no command of p is on its way.
LEMMA QuietKeeps ==
    ASSUME Types, RefsInv, NEW p \in Pushers,
           UNCHANGED <<ref, packs, idxs>>,
           \A o \in Pushers \ {p} :
               /\ pc'[o] = pc[o] /\ phase'[o] = phase[o] /\ req'[o] = req[o]
               /\ was'[o] = was[o] /\ listed'[o] = listed[o]
               /\ fresh'[o] = fresh[o] /\ doomed'[o] = doomed[o],
           pc'[p] \in {"idle", "preflight", "done"},
           \A j \in Positions : phase'[p][j] \notin {"accepted", "cas", "write"}
    PROVE  RefsInv'
  <1>1. RefsComplete'
    BY Grows DEF RefsInv
  <1>2. PushInv(p)'
    BY DEF PushInv, OnItsWay
  <1>3. ASSUME NEW o \in Pushers, o # p PROVE PushInv(o)'
    <2>1. PushInv(o)
      BY DEF RefsInv
    <2>2. \A j \in Positions : Command(o, j)' = Command(o, j)
      BY <1>3 DEF Command
    <2>3. Visible' = Visible
      BY DEF Visible
    <2>4. OnItsWay(o)'
      BY <1>3, <2>1, <2>2, <2>3, PrimedComplete DEF PushInv, OnItsWay
    <2>5. Spared(o)' = Spared(o)
      BY <1>3 DEF Spared, CompleteIn, Stored
    <2>6. Consolidated(o)' = Consolidated(o)
      BY <1>3 DEF Consolidated, CompleteIn
    <2>7. CompleteIn(Stored(Remaining(o)))' = CompleteIn(Stored(Remaining(o)))
      BY <1>3 DEF Remaining, CompleteIn, Stored
    <2>8. InPhase(o, "ok")' = InPhase(o, "ok")
      BY <1>3 DEF InPhase
    <2> QED
      BY <1>3, <2>1, <2>4, <2>5, <2>6, <2>7, <2>8 DEF PushInv
  <1> QED
    BY <1>1, <1>2, <1>3 DEF RefsInv

\* The pack of a push, or the consolidated one, is stored or indexed.
LEMMA StoringKeeps ==
    ASSUME Types, Exclusive, RefsInv, NEW p \in Pushers,
           StorePack(p) \/ SkipPack(p) \/ IndexPack(p)
    PROVE  PushInv(p)'
  <1> USE DEF Types, TypeOK
  <1>1. /\ pc[p] \in {"store", "index"} /\ pc'[p] \in {"index", "connect"}
        /\ packs \subseteq packs' /\ idxs \subseteq idxs'
        /\ UNCHANGED <<ref, phase, req, was, listed>>
    BY DEF StorePack, SkipPack, IndexPack, Go, store
  <1>2. \A j \in Positions : phase[p][j] \notin {"cas", "write"}
    BY <1>1 DEF RefsInv, PushInv, OnItsWay
  <1>3. OnItsWay(p)'
    BY <1>1, <1>2 DEF RefsInv, PushInv, OnItsWay, Command
  <1>4. Spared(p)
    BY <1>1 DEF RefsInv, PushInv
  <1>5. Spared(p)'
    BY <1>1, <1>4 DEF Spared, CompleteIn, Stored
  <1> QED
    BY <1>1, <1>3, <1>5 DEF PushInv

LEMMA RefsNext ==
    ASSUME Calm, Types, Exclusive, RefsInv, [Next]_vars
    PROVE  RefsInv'
  <1> USE DEF Calm, Types, TypeOK, Go, store
  <1>1. ASSUME NEW p \in Pushers, NEW q \in Requests, Begin(p, q)
        PROVE RefsInv'
    <2>1. \A j \in Positions : phase[p][j] = "none"
      BY <1>1 DEF Begin, Serving
    <2> QED
      BY <1>1, <2>1, QuietKeeps DEF Begin
  <1>2. ASSUME NEW p \in Pushers, Preflight(p) PROVE RefsInv'
    <2>1. \A o \in Pushers : o # p => PushInv(o)'
      BY <1>2, Bystander DEF Preflight, Working
    <2>2. RefsComplete'
      BY <1>2, Grows DEF Preflight, RefsInv
    <2> QED
      BY <1>2, <2>1, <2>2, PreflightKeeps DEF RefsInv
  <1>3. ASSUME NEW p \in Pushers,
               StorePack(p) \/ SkipPack(p) \/ IndexPack(p)
        PROVE RefsInv'
    <2>1. \A o \in Pushers : o # p => PushInv(o)'
      BY <1>3, Bystander DEF StorePack, SkipPack, IndexPack, Working
    <2>2. RefsComplete'
      BY <1>3, Grows DEF StorePack, SkipPack, IndexPack, RefsInv
    <2> QED
      BY <1>3, <2>1, <2>2, StoringKeeps DEF RefsInv
  <1>4. ASSUME NEW p \in Pushers, UnpackFails(p) PROVE RefsInv'
    <2>1. /\ pc[p] \in {"store", "index"} /\ pc'[p] = "done"
          /\ packs' = packs /\ idxs \subseteq idxs' /\ ref' = ref
          /\ \A o \in Pushers \ {p} : pc'[o] = pc[o] /\ phase'[o] = phase[o]
      BY <1>4 DEF UnpackFails, MayHaveIndexed, Refuse
    <2>2. \A j \in Positions : phase'[p][j] \notin {"accepted", "cas", "write"}
      BY <1>4 DEF UnpackFails, Refuse, RefsInv, PushInv, OnItsWay, Phases
    <2>3. \A o \in Pushers : o # p => PushInv(o)'
      BY <2>1, Bystander DEF Working
    <2>4. RefsComplete'
      BY <2>1, Grows DEF RefsInv
    <2> QED
      BY <2>1, <2>2, <2>3, <2>4 DEF RefsInv, PushInv, OnItsWay
  <1>5. ASSUME NEW p \in Pushers, RejectPack(p) \/ NoneApplied(p)
        PROVE RefsInv'
    <2>1. \A o \in Pushers : o # p => PushInv(o)'
      BY <1>5, Bystander DEF RejectPack, NoneApplied, Refuse, Working
    <2>2. RefsComplete'
      BY <1>5, Grows DEF RejectPack, NoneApplied, RefsInv
    <2> QED
      BY <1>5, <2>1, <2>2, RefusalKeeps DEF RefsInv
  <1>6. ASSUME NEW p \in Pushers, AcceptPack(p) PROVE RefsInv'
    <2>1. \A o \in Pushers : o # p => PushInv(o)'
      BY <1>6, Bystander DEF AcceptPack, Working
    <2>2. RefsComplete'
      BY <1>6, Grows DEF AcceptPack, RefsInv
    <2> QED
      BY <1>6, <2>1, <2>2, AcceptKeeps DEF RefsInv
  <1>7. ASSUME NEW p \in Pushers, NEW i \in Positions,
               CheckRef(p, i) \/ UpdateRef(p, i) \/ CommandThrows(p, i)
        PROVE RefsInv'
    <2>1. pc[p] \in Working
      BY <1>7 DEF CheckRef, UpdateRef, CommandThrows, RefsInv, PushInv,
                  OnItsWay, Working
    <2>2. \A o \in Pushers \ {p} : pc'[o] = pc[o] /\ phase'[o] = phase[o]
      BY <1>7 DEF CheckRef, UpdateRef, CommandThrows
    <2>3. \A o \in Pushers : o # p => PushInv(o)'
      BY <2>1, <2>2, Bystander
    <2>4. CheckRef(p, i) => RefsComplete'
      BY Grows DEF CheckRef, RefsInv
    <2> QED
      BY <1>7, <2>3, <2>4, CheckKeeps, UpdateKeeps, ThrowKeeps DEF RefsInv
  <1>8. ASSUME NEW p \in Pushers, KeepPacks(p) PROVE RefsInv'
    <2>1. \A j \in Positions : phase[p][j] \notin {"accepted", "cas", "write"}
      BY <1>8 DEF KeepPacks, SomeApplied, Settled, InPhase, Exclusive
    <2> QED
      BY <1>8, <2>1, QuietKeeps DEF KeepPacks
  <1>9. ASSUME NEW p \in Pushers, NEW n \in Packs, Repack(p, n)
        PROVE RefsInv'
    <2>1. \A o \in Pushers : o # p => PushInv(o)'
      BY <1>9, Bystander DEF Repack, SomeApplied, Working
    <2>2. RefsComplete'
      BY <1>9, Grows DEF Repack, RefsInv
    <2> QED
      BY <1>9, <2>1, <2>2, RepackKeeps DEF RefsInv
  <1>10. ASSUME NEW p \in Pushers, IndexRepacked(p) PROVE RefsInv'
    <2>1. \A o \in Pushers : o # p => PushInv(o)'
      BY <1>10, Bystander DEF IndexRepacked, Working
    <2>2. RefsComplete'
      BY <1>10, Grows DEF IndexRepacked, RefsInv
    <2> QED
      BY <1>10, <2>1, <2>2, IndexRepackedKeeps DEF RefsInv
  <1>11. ASSUME NEW p \in Pushers, RepackFails(p) PROVE RefsInv'
    <2>1. /\ pc[p] \in {"apply", "reindex"} /\ pc'[p] = "done"
          /\ packs' = packs /\ idxs \subseteq idxs' /\ ref' = ref
          /\ phase' = phase
          /\ \A o \in Pushers \ {p} : pc'[o] = pc[o]
      BY <1>11 DEF RepackFails, SomeApplied, MayHaveIndexed
    <2>2. \A j \in Positions : phase[p][j] \notin {"accepted", "cas", "write"}
      BY <1>11, <2>1 DEF RepackFails, SomeApplied, Settled, InPhase, Exclusive,
                         RefsInv, PushInv, OnItsWay
    <2>3. \A o \in Pushers : o # p => PushInv(o)'
      BY <2>1, Bystander DEF Working
    <2>4. RefsComplete'
      BY <2>1, Grows DEF RefsInv
    <2> QED
      BY <2>1, <2>2, <2>3, <2>4 DEF RefsInv, PushInv, OnItsWay
  <1>12. ASSUME NEW p \in Pushers, NEW q \in Packs,
                UnlinkIndex(p, q) \/ UnlinkPack(p, q)
         PROVE RefsInv'
    <2>1. \A o \in Pushers : o # p => PushInv(o)'
      BY <1>12, Bystander DEF UnlinkIndex, UnlinkPack, Working
    <2> QED
      BY <1>12, <2>1, UnlinkKeeps DEF RefsInv
  <1>13. ASSUME NEW p \in Pushers, Finish(p) PROVE RefsInv'
    <2>1. \A j \in Positions : phase[p][j] \notin {"accepted", "cas", "write"}
      BY <1>13 DEF Finish, Exclusive, RefsInv, PushInv, OnItsWay
    <2> QED
      BY <1>13, <2>1, QuietKeeps DEF Finish
  <1>14. ASSUME NEW p \in Pushers, Crash(p) \/ Return(p) PROVE RefsInv'
    <2>1. /\ pc' = [pc EXCEPT ![p] = "idle"]
          /\ phase' = [phase EXCEPT ![p] = [i \in Positions |-> "none"]]
          /\ req' = [req EXCEPT ![p] = None]
          /\ was' = [was EXCEPT ![p] = NoFiles]
          /\ listed' = [listed EXCEPT ![p] = FALSE]
          /\ fresh' = [fresh EXCEPT ![p] = None]
          /\ doomed' = [doomed EXCEPT ![p] = NoFiles]
          /\ UNCHANGED <<ref, packs, idxs>>
      BY <1>14 DEF Crash, Return, Forget
    <2> QED
      BY <2>1, QuietKeeps
  <1>15. CASE UNCHANGED vars \/ \E q \in Packs : Expire(q)
    <2>1. UNCHANGED <<ref, packs, idxs, pc, req, phase, was, listed, fresh, doomed>>
      BY <1>15 DEF vars, Expire
    <2>2. RefsComplete'
      BY <2>1, Grows DEF RefsInv
    <2>3. ASSUME NEW o \in Pushers PROVE PushInv(o)'
      <3>1. PushInv(o)
        BY DEF RefsInv
      <3>2. \A j \in Positions : Command(o, j)' = Command(o, j)
        BY <2>1 DEF Command
      <3>3. Visible' = Visible
        BY <2>1 DEF Visible
      <3>4. OnItsWay(o)'
        BY <2>1, <3>1, <3>2, <3>3, PrimedComplete DEF PushInv, OnItsWay
      <3>5. Spared(o)' = Spared(o)
        BY <2>1 DEF Spared, CompleteIn, Stored
      <3>6. Consolidated(o)' = Consolidated(o)
        BY <2>1 DEF Consolidated, CompleteIn
      <3>7. CompleteIn(Stored(Remaining(o)))' = CompleteIn(Stored(Remaining(o)))
        BY <2>1 DEF Remaining, CompleteIn, Stored
      <3>8. InPhase(o, "ok")' = InPhase(o, "ok")
        BY <2>1 DEF InPhase
      <3> QED
        BY <2>1, <3>1, <3>4, <3>5, <3>6, <3>7, <3>8 DEF PushInv
    <2> QED
      BY <2>2, <2>3 DEF RefsInv
  <1> QED
    BY <1>1, <1>2, <1>3, <1>4, <1>5, <1>6, <1>7, <1>8, <1>9, <1>10, <1>11,
       <1>12, <1>13, <1>14, <1>15 DEF Next, Push

Inv == Types /\ Exclusive /\ RefsInv

LEMMA InvHolds == Calm => (Spec => []Inv)
  <1> SUFFICES ASSUME Calm PROVE Spec => []Inv
    OBVIOUS
  <1>1. Init => Inv
    BY TypesInit, SafeInit, RefsInit DEF Inv
  <1>2. Inv /\ [Next]_vars => Inv'
    BY TypesNext, ExclusiveNext, RefsNext DEF Inv
  <1> QED
    BY <1>1, <1>2, PTL DEF Spec

\* Every ref can be read with its whole history at every moment, whatever
\* writes and unlinks fail and whenever an instance dies.
THEOREM RefsStayComplete == Calm => (Spec => []RefsComplete)
  <1>1. Inv => RefsComplete
    BY DEF Inv, RefsInv
  <1> QED
    BY <1>1, InvHolds, PTL

-------------------------------------------------------------------------------
(* The abstract repository.                                                *)

\* A step that moves a ref is the write of a command to that ref;
LEMMA RefWrites ==
    ASSUME [Next]_vars, ref' # ref
    PROVE  \E p \in Pushers, i \in Positions :
              /\ phase[p][i] = "write"
              /\ ref' = [ref EXCEPT ![Command(p, i).name] = Command(p, i).new]
              /\ UNCHANGED <<packs, idxs>>
  <1>1. PICK p \in Pushers, i \in Positions :
            UpdateRef(p, i) \/ CommandThrows(p, i)
    BY DEF Next, Push, vars, store, Begin, Preflight, StorePack, SkipPack,
           IndexPack, UnpackFails, RejectPack, AcceptPack, CheckRef,
           NoneApplied, KeepPacks, Repack, IndexRepacked, RepackFails,
           UnlinkIndex, UnlinkPack, Finish, Crash, Return, Expire
  <1> QED
    BY <1>1 DEF UpdateRef, CommandThrows, store

\* its claim still holds, and what it names is there.
LEMMA MovesAreClaimed ==
    ASSUME Inv, [Next]_vars, ref' # ref
    PROVE  \E p \in Pushers, i \in Positions :
              /\ phase[p][i] = "write"
              /\ Command(p, i) \in Commands
              /\ ref[Command(p, i).name] = Command(p, i).old
              /\ Command(p, i).new # None => Complete(Command(p, i).new, Visible)
              /\ ref' = [ref EXCEPT ![Command(p, i).name] = Command(p, i).new]
              /\ UNCHANGED <<packs, idxs>>
  <1>1. PICK p \in Pushers, i \in Positions :
            /\ phase[p][i] = "write"
            /\ ref' = [ref EXCEPT ![Command(p, i).name] = Command(p, i).new]
            /\ UNCHANGED <<packs, idxs>>
    BY RefWrites
  <1>2. Command(p, i) \in Commands
    BY <1>1, CommandTypes DEF Inv
  <1>3. /\ ref[Command(p, i).name] = Command(p, i).old
        /\ Command(p, i).new # None => Complete(Command(p, i).new, Visible)
    BY <1>1 DEF Inv, RefsInv, PushInv, OnItsWay
  <1> QED
    BY <1>1, <1>2, <1>3

LEMMA SameWalk ==
    \A o, V : Refs!Complete(o, V) = Complete(o, V)
  BY DEF Refs!Complete, Refs!WalkComplete, Complete, WalkComplete

LEMMA VisibleType == Types => Visible \subseteq Objects
  BY PushAssumption DEF Types, TypeOK, Visible, Stored

\* Pushes, repacks, failures and crashes implement refs that move one at a
\* time between complete histories.
THEOREM ImplementsAtomicRefs == Calm => (Spec => RefsAreAtomic)
  <1> SUFFICES ASSUME Calm PROVE Spec => Refs!Spec
    BY DEF RefsAreAtomic
  <1>1. ASSUME Inv PROVE Refs!AllComplete(ref, Visible)
    BY <1>1, SameWalk DEF Refs!AllComplete, Inv, RefsInv, RefsComplete
  <1>2. Init => Refs!Init
    <2> SUFFICES ASSUME Init PROVE Refs!Init
      OBVIOUS
    <2>1. Inv
      BY TypesInit, SafeInit, RefsInit DEF Inv
    <2>2. ref \in [Names -> Objects \cup {None}] /\ Visible \subseteq Objects
      BY <2>1, VisibleType DEF Inv, Types, TypeOK
    <2> QED
      BY <1>1, <2>1, <2>2 DEF Refs!Init
  <1>3. ASSUME Inv, Inv', [Next]_vars PROVE [Refs!Next]_(Refs!vars)
    <2>1. Refs!AllComplete(ref', Visible')
      BY <1>3, SameWalk
      DEF Refs!AllComplete, Inv, RefsInv, RefsComplete, Complete, WalkComplete
    <2>2. CASE ref' = ref
      <3>1. Visible' \subseteq Objects
        BY <1>3, PushAssumption DEF Inv, Types, TypeOK, Visible, Stored
      <3> QED
        BY <2>1, <2>2, <3>1 DEF Refs!Next, Refs!Rearrange
    <2>3. CASE ref' # ref
      <3>1. PICK p \in Pushers, i \in Positions :
                /\ phase[p][i] = "write"
                /\ Command(p, i) \in Commands
                /\ ref[Command(p, i).name] = Command(p, i).old
                /\ ref' = [ref EXCEPT ![Command(p, i).name] = Command(p, i).new]
                /\ UNCHANGED <<packs, idxs>>
        BY <1>3, <2>3, MovesAreClaimed
      <3>2. Visible' = Visible
        BY <3>1 DEF Visible
      <3>3. /\ Command(p, i).name \in Names
            /\ Command(p, i).new \in Objects \cup {None}
            /\ Command(p, i) = [name |-> Command(p, i).name,
                                old |-> ref[Command(p, i).name],
                                new |-> Command(p, i).new]
        BY <3>1 DEF Commands
      <3>4. Command(p, i) \in Sendable
        BY <1>3, <3>1 DEF Inv, Types, Serving, Command, Sendable
      <3>5. [name |-> Command(p, i).name, old |-> ref[Command(p, i).name],
             new |-> Command(p, i).new] \in Sendable
        BY <3>3, <3>4
      <3>6. Refs!Swap(Command(p, i).name, Command(p, i).new)
        BY <2>1, <3>1, <3>2, <3>5 DEF Refs!Swap
      <3> QED
        BY <3>3, <3>6 DEF Refs!Next
    <2> QED
      BY <2>2, <2>3
  <1> QED
    BY <1>2, <1>3, InvHolds, PTL DEF Spec, Refs!Spec

-------------------------------------------------------------------------------
(* Packs that are kept.  A refused push may unlink its pack because it was *)
(* not listed; that the pack is not kept either holds because every kept   *)
(* pack was stored when the push listed, so it was listed.                 *)

KeptInv ==
    /\ kept \subseteq packs
    /\ \A p \in Pushers :
          /\ pc[p] \in {"store", "index", "connect", "apply"}
                => listed[p] /\ kept \subseteq was[p].packs
          /\ pc[p] \in {"reindex", "unlink"} => doomed[p].packs \cap kept = {}

LEMMA KeptInit == Init => KeptInv
  BY InitAssumption DEF Init, KeptInv

LEMMA KeptNext ==
    ASSUME "list" \notin Faults, Types, KeptInv, [Next]_vars
    PROVE  KeptInv'
  <1> USE DEF Types, TypeOK, PCs, Files, NoFiles, KeptInv, Go, store
  <1>1. ASSUME NEW p \in Pushers, NEW q \in Requests, Begin(p, q)
        PROVE KeptInv'
    BY <1>1 DEF Begin
  <1>2. ASSUME NEW p \in Pushers, Preflight(p) PROVE KeptInv'
    BY <1>2 DEF Preflight
  <1>3. ASSUME NEW p \in Pushers,
               StorePack(p) \/ SkipPack(p) \/ IndexPack(p) \/ AcceptPack(p)
        PROVE KeptInv'
    BY <1>3 DEF StorePack, SkipPack, IndexPack, AcceptPack
  <1>4. ASSUME NEW p \in Pushers,
               UnpackFails(p) \/ KeepPacks(p) \/ RepackFails(p) \/ Finish(p)
        PROVE KeptInv'
    BY <1>4 DEF UnpackFails, KeepPacks, RepackFails, Finish
  <1>5. ASSUME NEW p \in Pushers, RejectPack(p) \/ NoneApplied(p)
        PROVE KeptInv'
    <2>1. /\ listed[p] /\ kept \subseteq was[p].packs
          /\ pc' = [pc EXCEPT ![p] = "unlink"]
          /\ doomed' = [doomed EXCEPT ![p] = RemovableIncoming(p)]
          /\ UNCHANGED <<packs, kept, was, listed>>
      BY <1>5 DEF RejectPack, NoneApplied
    <2>2. RemovableIncoming(p).packs \cap kept = {}
      BY <2>1 DEF RemovableIncoming, KnownFiles
    <2> QED
      BY <2>1, <2>2 DEF RemovableIncoming
  <1>6. ASSUME NEW p \in Pushers, NEW i \in Positions,
               CheckRef(p, i) \/ UpdateRef(p, i) \/ CommandThrows(p, i)
        PROVE KeptInv'
    BY <1>6 DEF CheckRef, UpdateRef, CommandThrows
  <1>7. ASSUME NEW p \in Pushers, NEW n \in Packs, Repack(p, n)
        PROVE KeptInv'
    BY <1>7 DEF Repack, Stale
  <1>8. ASSUME NEW p \in Pushers, IndexRepacked(p) PROVE KeptInv'
    BY <1>8 DEF IndexRepacked
  <1>9. ASSUME NEW p \in Pushers, NEW q \in Packs,
               UnlinkIndex(p, q) \/ UnlinkPack(p, q)
        PROVE KeptInv'
    <2>0. \/ doomed'[p] = [doomed[p] EXCEPT !.idxs = @ \ {q}]
          \/ doomed'[p] = [doomed[p] EXCEPT !.packs = @ \ {q}]
      BY <1>9 DEF UnlinkIndex, UnlinkPack
    <2>1. \A o \in Pushers : doomed'[o].packs \subseteq doomed[o].packs
      <3>1. doomed'[p].packs \subseteq doomed[p].packs
        <4>1. \/ doomed'[p] = [packs |-> doomed[p].packs, idxs |-> doomed[p].idxs \ {q}]
              \/ doomed'[p] = [packs |-> doomed[p].packs \ {q}, idxs |-> doomed[p].idxs]
          <5>1. doomed[p] \in Files
            OBVIOUS
          <5> QED
            BY <2>0, <5>1, FilesExcept
        <4> QED
          BY <4>1
      <3>2. \A o \in Pushers \ {p} : doomed'[o] = doomed[o]
        BY <1>9 DEF UnlinkIndex, UnlinkPack
      <3> QED
        BY <3>1, <3>2
    <2>2. kept \subseteq packs'
      BY <1>9 DEF UnlinkIndex, UnlinkPack
    <2>3. UNCHANGED <<kept, pc, was, listed>>
      BY <1>9 DEF UnlinkIndex, UnlinkPack
    <2> QED
      BY <2>1, <2>2, <2>3
  <1>10. ASSUME NEW p \in Pushers, Crash(p) \/ Return(p) PROVE KeptInv'
    BY <1>10 DEF Crash, Return, Forget
  <1>11. ASSUME NEW q \in Packs, Expire(q) PROVE KeptInv'
    BY <1>11 DEF Expire
  <1>12. CASE UNCHANGED vars
    BY <1>12 DEF vars
  <1> QED
    BY <1>1, <1>2, <1>3, <1>4, <1>5, <1>6, <1>7, <1>8, <1>9, <1>10, <1>11,
       <1>12 DEF Next, Push

\* Only an unlink takes a pack away, and only one that is doomed.
LEMMA PacksGoByUnlink ==
    ASSUME [Next]_vars, NEW q \in packs, q \notin packs'
    PROVE  \E p \in Pushers : pc[p] = "unlink" /\ q \in doomed[p].packs
  <1>1. PICK p \in Pushers, r \in Packs : UnlinkPack(p, r)
    BY DEF Next, Push, vars, store, Begin, Preflight, StorePack, SkipPack,
           IndexPack, UnpackFails, RejectPack, AcceptPack, CheckRef, UpdateRef,
           CommandThrows, NoneApplied, KeepPacks, Repack, IndexRepacked,
           RepackFails, UnlinkIndex, Finish, Crash, Return, Expire
  <1> QED
    BY <1>1 DEF UnlinkPack

\* As long as pack listings succeed, no repack and no clean-up after a refused
\* push takes away a pack that a .keep protects.
THEOREM KeptPacksAreSafe == "list" \notin Faults => (Spec => KeptPacksStay)
  <1> SUFFICES ASSUME "list" \notin Faults PROVE Spec => KeptPacksStay
    OBVIOUS
  <1>1. Types /\ KeptInv /\ [Next]_vars => (Types /\ KeptInv)'
    BY TypesNext, KeptNext
  <1>2. KeptInv /\ [Next]_vars => [packs \cap kept \cap kept' \subseteq packs']_vars
    BY PacksGoByUnlink DEF KeptInv
  <1> QED
    BY <1>1, <1>2, TypesInit, KeptInit, PTL DEF Spec, KeptPacksStay

-------------------------------------------------------------------------------
(* What a refused push leaves and spares.  Both properties speak of the    *)
(* step that answers; Clean follows the files of a push from the listing   *)
(* to that step: until the refusal nothing is stored but the listed files  *)
(* and the pack of the push, and then what is not doomed is what was       *)
(* listed.  One direction needs listings that succeed, the other unlinks   *)
(* that do.                                                                *)

Refusing(p) == pc[p] = "unlink" /\ InPhase(p, "ok") = {}

OnlyIncoming(p) ==
    /\ was[p].packs \subseteq packs /\ packs \subseteq was[p].packs \cup {fresh[p]}
    /\ was[p].idxs \subseteq idxs /\ idxs \subseteq was[p].idxs \cup {fresh[p]}

SparesListed(p) ==
    /\ was[p].packs \subseteq packs \ doomed[p].packs
    /\ was[p].idxs \subseteq idxs \ doomed[p].idxs

LeavesListed(p) ==
    /\ packs \ doomed[p].packs \subseteq was[p].packs
    /\ idxs \ doomed[p].idxs \subseteq was[p].idxs

Clean(p) ==
    /\ pc[p] = "store" => packs = was[p].packs /\ idxs = was[p].idxs
    /\ pc[p] \in {"index", "connect", "apply"} => OnlyIncoming(p)
    /\ pc[p] \in {"store", "index", "connect", "apply"} =>
          ("list" \notin Faults => listed[p])
    /\ pc[p] = "reindex" => InPhase(p, "ok") # {}
    /\ Refusing(p) =>
          /\ "list" \notin Faults => SparesListed(p)
          /\ "unlink" \notin Faults => LeavesListed(p)

CleanInv == \A p \in Pushers : Clean(p)

\* A push that has not listed, or has answered, has nothing to account for,
LEMMA CleanAway ==
    ASSUME NEW p \in Pushers,
           pc'[p] \in {"idle", "preflight", "done", "thrown"}
    PROVE  Clean(p)'
  BY DEF Clean, Refusing

\* nor has one that does not hold the lock.
LEMMA CleanBystander ==
    ASSUME Exclusive, NEW p \in Pushers, pc[p] \in Working,
           NEW o \in Pushers, o # p, pc'[o] = pc[o]
    PROVE  Clean(o)'
  <1>1. pc[o] \notin Working
    BY Alone
  <1> QED
    BY <1>1 DEF Clean, Refusing, Working

\* Commands may succeed meanwhile.
LEMMA CleanStill ==
    ASSUME NEW p \in Pushers, Clean(p), UNCHANGED <<packs, idxs>>,
           pc'[p] = pc[p], was'[p] = was[p], listed'[p] = listed[p],
           fresh'[p] = fresh[p], doomed'[p] = doomed[p],
           \A i \in Positions : phase[p][i] = "ok" => phase'[p][i] = "ok"
    PROVE  Clean(p)'
  <1>1. InPhase(p, "ok") # {} => InPhase(p, "ok")' # {}
    BY DEF InPhase
  <1> QED
    BY <1>1 DEF Clean, Refusing, OnlyIncoming, SparesListed, LeavesListed

\* A push that stores its pack adds that pack only.
LEMMA StoringClean ==
    ASSUME Types, NEW p \in Pushers, Clean(p),
           \/ Preflight(p) \/ StorePack(p) \/ SkipPack(p) \/ IndexPack(p)
           \/ AcceptPack(p)
    PROVE  Clean(p)'
  <1> USE DEF Types, TypeOK, Go, store
  <1>1. CASE Preflight(p)
    BY <1>1 DEF Preflight, Clean, Refusing
  <1>2. CASE StorePack(p)
    <2>1. /\ pc[p] = "store" /\ pc'[p] = "index"
          /\ packs' = packs \cup {req[p].pack} /\ fresh'[p] = req[p].pack
          /\ UNCHANGED <<idxs, was, listed>>
      BY <1>2 DEF StorePack
    <2> QED
      BY <2>1 DEF Clean, OnlyIncoming, Refusing
  <1>3. CASE SkipPack(p) \/ AcceptPack(p)
    <2>1. /\ pc[p] \in {"store", "connect"} /\ pc'[p] \in {"connect", "apply"}
          /\ UNCHANGED <<packs, idxs, was, listed, fresh>>
      BY <1>3 DEF SkipPack, AcceptPack
    <2> QED
      BY <2>1 DEF Clean, OnlyIncoming, Refusing
  <1>4. CASE IndexPack(p)
    <2>1. /\ pc[p] = "index" /\ pc'[p] = "connect"
          /\ idxs' = idxs \cup {fresh[p]}
          /\ UNCHANGED <<packs, was, listed, fresh>>
      BY <1>4 DEF IndexPack
    <2> QED
      BY <2>1 DEF Clean, OnlyIncoming, Refusing
  <1> QED
    BY <1>1, <1>2, <1>3, <1>4

\* A refused push dooms its pack, unless that was listed.
LEMMA RefusalClean ==
    ASSUME Types, NEW p \in Pushers, Clean(p), RejectPack(p) \/ NoneApplied(p)
    PROVE  Clean(p)'
  <1> USE DEF Types, TypeOK, Go, store
  <1>1. /\ pc[p] \in {"connect", "apply"} /\ pc'[p] = "unlink"
        /\ doomed'[p] = RemovableIncoming(p)
        /\ UNCHANGED <<packs, idxs, was, listed, fresh>>
    BY DEF RejectPack, NoneApplied
  <1>2. OnlyIncoming(p)
    BY <1>1 DEF Clean
  <1>3. None \notin packs \cup idxs
    BY PushAssumption
  <1>4. LeavesListed(p)'
    BY <1>1, <1>2, <1>3
    DEF OnlyIncoming, LeavesListed, RemovableIncoming, KnownFiles, NoFiles
  <1>5. "list" \notin Faults => SparesListed(p)'
    BY <1>1, <1>2
    DEF Clean, OnlyIncoming, SparesListed, RemovableIncoming, KnownFiles
  <1> QED
    BY <1>1, <1>4, <1>5 DEF Clean, Refusing

\* A repack follows a command that succeeded.
LEMMA RepackClean ==
    ASSUME Types, NEW p \in Pushers, Clean(p),
           IndexRepacked(p) \/ \E n \in Packs : Repack(p, n)
    PROVE  Clean(p)'
  <1> USE DEF Types, TypeOK, Go, store
  <1>1. /\ pc'[p] \in {"reindex", "unlink"} /\ phase' = phase
        /\ InPhase(p, "ok") # {}
    BY DEF IndexRepacked, Repack, SomeApplied, Clean
  <1>2. InPhase(p, "ok")' # {}
    BY <1>1 DEF InPhase
  <1> QED
    BY <1>1, <1>2 DEF Clean, Refusing

\* An unlink takes a doomed file away, or fails to.
LEMMA UnlinkClean ==
    ASSUME Types, NEW p \in Pushers, NEW q \in Packs, Clean(p),
           UnlinkIndex(p, q) \/ UnlinkPack(p, q)
    PROVE  Clean(p)'
  <1> USE DEF Types, TypeOK
  <1>1. /\ pc[p] = "unlink" /\ pc'[p] = "unlink"
        /\ UNCHANGED <<phase, was>>
    BY DEF UnlinkIndex, UnlinkPack
  <1>2. InPhase(p, "ok")' = InPhase(p, "ok")
    BY <1>1 DEF InPhase
  <1>3. ASSUME SparesListed(p) PROVE SparesListed(p)'
    <2>1. CASE UnlinkIndex(p, q)
      <3>1. doomed'[p] = [packs |-> doomed[p].packs, idxs |-> doomed[p].idxs \ {q}]
        BY <2>1, FilesExcept DEF UnlinkIndex
      <3> QED
        BY <1>3, <2>1, <3>1 DEF UnlinkIndex, SparesListed
    <2>2. CASE UnlinkPack(p, q)
      <3>1. doomed'[p] = [packs |-> doomed[p].packs \ {q}, idxs |-> doomed[p].idxs]
        BY <2>2, FilesExcept DEF UnlinkPack
      <3> QED
        BY <1>3, <2>2, <3>1 DEF UnlinkPack, SparesListed
    <2> QED
      BY <2>1, <2>2
  <1>4. ASSUME "unlink" \notin Faults, LeavesListed(p) PROVE LeavesListed(p)'
    <2>1. CASE UnlinkIndex(p, q)
      <3>1. doomed'[p] = [packs |-> doomed[p].packs, idxs |-> doomed[p].idxs \ {q}]
        BY <2>1, FilesExcept DEF UnlinkIndex
      <3> QED
        BY <1>4, <2>1, <3>1 DEF UnlinkIndex, LeavesListed
    <2>2. CASE UnlinkPack(p, q)
      <3>1. doomed'[p] = [packs |-> doomed[p].packs \ {q}, idxs |-> doomed[p].idxs]
        BY <2>2, FilesExcept DEF UnlinkPack
      <3> QED
        BY <1>4, <2>2, <3>1 DEF UnlinkPack, LeavesListed
    <2> QED
      BY <2>1, <2>2
  <1> QED
    BY <1>1, <1>2, <1>3, <1>4 DEF Clean, Refusing

LEMMA CleanNext ==
    ASSUME Types, Exclusive, CleanInv, [Next]_vars
    PROVE  CleanInv'
  <1> USE DEF Types, TypeOK, PCs, CleanInv, Go, store
  <1>1. ASSUME NEW p \in Pushers,
               \/ Preflight(p) \/ StorePack(p) \/ SkipPack(p) \/ IndexPack(p)
               \/ AcceptPack(p)
        PROVE  CleanInv'
    <2>1. pc[p] \in Working /\ \A o \in Pushers \ {p} : pc'[o] = pc[o]
      BY <1>1
      DEF Preflight, StorePack, SkipPack, IndexPack, AcceptPack, Working
    <2> QED
      BY <1>1, <2>1, CleanBystander, StoringClean
  <1>2. ASSUME NEW p \in Pushers, RejectPack(p) \/ NoneApplied(p)
        PROVE  CleanInv'
    <2>1. pc[p] \in Working /\ \A o \in Pushers \ {p} : pc'[o] = pc[o]
      BY <1>2 DEF RejectPack, NoneApplied, Working
    <2> QED
      BY <1>2, <2>1, CleanBystander, RefusalClean
  <1>3. ASSUME NEW p \in Pushers,
               IndexRepacked(p) \/ \E n \in Packs : Repack(p, n)
        PROVE  CleanInv'
    <2>1. pc[p] \in Working /\ \A o \in Pushers \ {p} : pc'[o] = pc[o]
      BY <1>3 DEF IndexRepacked, Repack, SomeApplied, Working
    <2> QED
      BY <1>3, <2>1, CleanBystander, RepackClean
  <1>4. ASSUME NEW p \in Pushers, NEW q \in Packs,
               UnlinkIndex(p, q) \/ UnlinkPack(p, q)
        PROVE  CleanInv'
    <2>1. pc[p] \in Working /\ \A o \in Pushers \ {p} : pc'[o] = pc[o]
      BY <1>4 DEF UnlinkIndex, UnlinkPack, Working
    <2> QED
      BY <1>4, <2>1, CleanBystander, UnlinkClean
  <1>5. ASSUME NEW p \in Pushers,
               UnpackFails(p) \/ KeepPacks(p) \/ RepackFails(p) \/ Finish(p)
        PROVE  CleanInv'
    <2>1. /\ pc[p] \in Working /\ pc'[p] = "done"
          /\ \A o \in Pushers \ {p} : pc'[o] = pc[o]
      BY <1>5 DEF UnpackFails, KeepPacks, RepackFails, Finish, SomeApplied, Working
    <2> QED
      BY <2>1, CleanBystander, CleanAway
  <1>6. ASSUME NEW p \in Pushers, NEW i \in Positions,
               CheckRef(p, i) \/ UpdateRef(p, i) \/ CommandThrows(p, i)
        PROVE  CleanInv'
    <2>1. \A o \in Pushers, j \in Positions :
              phase[o][j] = "ok" => phase'[o][j] = "ok"
      BY <1>6 DEF CheckRef, UpdateRef, CommandThrows
    <2>2. UNCHANGED <<packs, idxs, was, listed, fresh, doomed>>
      BY <1>6 DEF CheckRef, UpdateRef, CommandThrows
    <2>3. \/ pc' = pc
          \/ pc'[p] = "thrown" /\ \A o \in Pushers \ {p} : pc'[o] = pc[o]
      BY <1>6 DEF CheckRef, UpdateRef, CommandThrows
    <2> QED
      BY <2>1, <2>2, <2>3, CleanAway, CleanStill
  <1>7. ASSUME NEW p \in Pushers,
               Crash(p) \/ Return(p) \/ \E q \in Requests : Begin(p, q)
        PROVE  CleanInv'
    <2>1. pc'[p] \in {"idle", "preflight"} /\ UNCHANGED <<packs, idxs>>
      BY <1>7 DEF Crash, Return, Begin, Forget
    <2>2. \A o \in Pushers \ {p} :
              /\ pc'[o] = pc[o] /\ was'[o] = was[o] /\ listed'[o] = listed[o]
              /\ fresh'[o] = fresh[o] /\ doomed'[o] = doomed[o]
              /\ phase'[o] = phase[o]
      BY <1>7 DEF Crash, Return, Begin, Forget
    <2> QED
      BY <2>1, <2>2, CleanAway, CleanStill
  <1>8. CASE UNCHANGED vars \/ \E q \in Packs : Expire(q)
    <2>1. UNCHANGED <<packs, idxs, pc, phase, was, listed, fresh, doomed>>
      BY <1>8 DEF vars, Expire
    <2> QED
      BY <2>1, CleanStill
  <1> QED
    BY <1>1, <1>2, <1>3, <1>4, <1>5, <1>6, <1>7, <1>8 DEF Next, Push

\* The push that answers with every command refused comes from its clean-up,
\* or never got its pack indexed.
LEMMA AnswersRefused ==
    ASSUME Types, CleanInv, [Next]_vars, NEW p \in Pushers,
           pc[p] # "done", Rejected(p)'
    PROVE  \/ UnpackFails(p)
           \/ Refusing(p) /\ doomed[p] = NoFiles /\ UNCHANGED <<packs, idxs, was>>
  <1> USE DEF Types, TypeOK, Go, store
  <1>1. \/ UnpackFails(p) \/ KeepPacks(p) \/ RepackFails(p) \/ Finish(p)
    <2>1. pc'[p] = "done"
      BY DEF Rejected
    <2> QED
      BY <2>1
      DEF Next, Push, vars, Begin, Preflight, StorePack, SkipPack, IndexPack,
          UnpackFails, RejectPack, AcceptPack, CheckRef, UpdateRef,
          CommandThrows, NoneApplied, KeepPacks, Repack, IndexRepacked,
          RepackFails, UnlinkIndex, UnlinkPack, Finish, Crash, Return, Forget,
          Expire
  <1>2. CASE KeepPacks(p) \/ RepackFails(p)
    <2>1. phase' = phase /\ InPhase(p, "ok") # {}
      BY <1>2 DEF KeepPacks, RepackFails, SomeApplied, CleanInv, Clean
    <2> QED
      BY <2>1 DEF Rejected, InPhase
  <1>3. CASE Finish(p)
    BY <1>3 DEF Finish, Refusing, Rejected, InPhase
  <1> QED
    BY <1>1, <1>2, <1>3

LEMMA CleanHolds == Spec => [](Types /\ Exclusive /\ CleanInv)
  <1>1. Init => CleanInv
    BY DEF Init, CleanInv, Clean, Refusing
  <1>2. Types /\ Exclusive /\ CleanInv /\ [Next]_vars
            => (Types /\ Exclusive /\ CleanInv)'
    BY TypesNext, ExclusiveNext, CleanNext
  <1> QED
    BY <1>1, <1>2, TypesInit, SafeInit, PTL DEF Spec

\* As long as unlinks succeed, a push that is unpacked and changes nothing
\* leaves no file of its pack behind.
THEOREM RefusedPushesLeaveNothing ==
    "unlink" \notin Faults => (Spec => RejectedPushLeavesNoPack)
  <1> SUFFICES ASSUME "unlink" \notin Faults
               PROVE  Spec => RejectedPushLeavesNoPack
    OBVIOUS
  <1> DEFINE Leaves == \A p \in Pushers :
                pc[p] \notin {"store", "index", "done"} /\ Rejected(p)' =>
                    packs' \subseteq was[p].packs /\ idxs' \subseteq was[p].idxs
  <1>1. Types /\ CleanInv /\ [Next]_vars => [Leaves]_vars
    <2> SUFFICES ASSUME Types, CleanInv, [Next]_vars, NEW p \in Pushers,
                        pc[p] \notin {"store", "index", "done"}, Rejected(p)'
                 PROVE  packs' \subseteq was[p].packs /\ idxs' \subseteq was[p].idxs
      OBVIOUS
    <2>1. Refusing(p) /\ doomed[p] = NoFiles /\ UNCHANGED <<packs, idxs>>
      BY AnswersRefused DEF UnpackFails
    <2> QED
      BY <2>1 DEF CleanInv, Clean, LeavesListed, NoFiles
  <1> QED
    BY <1>1, CleanHolds, PTL DEF Spec, RejectedPushLeavesNoPack

\* As long as pack listings succeed, a push that changes nothing takes no file
\* away that was stored before it, even when its pack is the same as one of
\* those.
THEOREM RefusedPushesTakeNothing ==
    "list" \notin Faults => (Spec => StoredPackSurvives)
  <1> SUFFICES ASSUME "list" \notin Faults PROVE Spec => StoredPackSurvives
    OBVIOUS
  <1> DEFINE Spares == \A p \in Pushers : pc[p] # "done" /\ Rejected(p)' =>
                was[p].packs \subseteq packs' /\ was[p].idxs \subseteq idxs'
  <1>1. Types /\ CleanInv /\ [Next]_vars => [Spares]_vars
    <2> SUFFICES ASSUME Types, CleanInv, [Next]_vars, NEW p \in Pushers,
                        pc[p] # "done", Rejected(p)'
                 PROVE  was[p].packs \subseteq packs' /\ was[p].idxs \subseteq idxs'
      OBVIOUS
    <2>1. CASE UnpackFails(p)
      <3>1. /\ pc[p] \in {"store", "index"}
            /\ packs' = packs /\ idxs \subseteq idxs'
        BY <2>1 DEF UnpackFails, MayHaveIndexed
      <3> QED
        BY <3>1 DEF CleanInv, Clean, OnlyIncoming
    <2>2. CASE Refusing(p) /\ doomed[p] = NoFiles /\ UNCHANGED <<packs, idxs>>
      BY <2>2 DEF CleanInv, Clean, SparesListed
    <2> QED
      BY <2>1, <2>2, AnswersRefused
  <1> QED
    BY <1>1, CleanHolds, PTL DEF Spec, StoredPackSurvives

-------------------------------------------------------------------------------
(* Ref names that cannot exist together.  A command looks for them when it *)
(* re-reads its ref, and writes some steps later: CollisionInv says that   *)
(* the refs that exist and those about to be written are together free of  *)
(* collisions, and that the names the next check consults hold them all.   *)
(* A command of a failed push that runs on would write after another push  *)
(* took its names, so NoLeaks is needed; that listings succeed is not.     *)

Existing == {n \in Names : ref[n] # None}
Coming(p) ==
    {Command(p, i).name : i \in {j \in InPhase(p, "write") : Command(p, j).new # None}}
CollisionFree(some) == \A n, m \in some : m \notin Collides[n]

CollisionInv ==
    /\ NoCollision
    /\ \A p \in Pushers, i \in Positions :
          phase[p][i] \in {"cas", "write"} => pc[p] = "apply"
    /\ \A p \in Pushers : pc[p] = "apply" =>
          /\ CollisionFree(Existing \cup Coming(p))
          /\ Existing \cup Coming(p) \subseteq taken[p]

LEMMA CollisionInit == Init => CollisionInv
  BY InitAssumption DEF Init, CollisionInv, NoCollision

LEMMA FreeRefs ==
    ASSUME NEW S, CollisionFree(S), Existing' \subseteq S
    PROVE  NoCollision'
  <1>1. \A n \in Names : ref'[n] # None => n \in S
    BY DEF Existing
  <1>2. \A n \in Names : \A m \in Collides[n] : m \in Names
    BY PushAssumption
  <1> QED
    BY <1>1, <1>2 DEF NoCollision, CollisionFree

\* No ref moves, and each push goes on as it was or has no command on its way.
LEMMA SteadyCollisions ==
    ASSUME CollisionInv, ref' = ref,
           \A o \in Pushers :
              \/ /\ pc'[o] = pc[o] /\ phase'[o] = phase[o]
                 /\ req'[o] = req[o] /\ taken'[o] = taken[o]
              \/ /\ pc'[o] # "apply"
                 /\ \A j \in Positions : phase'[o][j] \notin {"cas", "write"}
    PROVE  CollisionInv'
  <1>1. Existing' = Existing /\ (NoCollision => NoCollision')
    BY DEF Existing, NoCollision
  <1>2. ASSUME NEW o \in Pushers, pc'[o] = "apply"
        PROVE  /\ CollisionFree(Existing \cup Coming(o))'
               /\ (Existing \cup Coming(o))' \subseteq taken'[o]
    <2>1. /\ pc'[o] = pc[o] /\ phase'[o] = phase[o]
          /\ req'[o] = req[o] /\ taken'[o] = taken[o]
      BY <1>2
    <2>2. Coming(o)' = Coming(o)
      BY <2>1 DEF Coming, Command, InPhase
    <2>3. CollisionFree(Existing \cup Coming(o))'
              = CollisionFree(Existing \cup Coming(o))
      BY <1>1, <2>2 DEF CollisionFree
    <2> QED
      BY <1>1, <1>2, <2>1, <2>2, <2>3 DEF CollisionInv
  <1> QED
    BY <1>1, <1>2 DEF CollisionInv

\* A step of the push that applies its commands concerns no other push.
LEMMA ApplyingAlone ==
    ASSUME Types, Exclusive, CollisionInv, NEW p \in Pushers,
           pc[p] \in {"connect", "apply"}, NoCollision',
           \A o \in Pushers \ {p} : pc'[o] = pc[o] /\ phase'[o] = phase[o],
           \A i \in Positions :
              phase'[p][i] \in {"cas", "write"} => pc'[p] = "apply",
           pc'[p] = "apply" =>
              /\ CollisionFree(Existing \cup Coming(p))'
              /\ (Existing \cup Coming(p))' \subseteq taken'[p]
    PROVE  CollisionInv'
  <1>1. \A o \in Pushers \ {p} : pc[o] # "apply"
    BY Alone DEF Working
  <1> QED
    BY <1>1 DEF CollisionInv

LEMMA AcceptFree ==
    ASSUME Types, Exclusive, CollisionInv, NEW p \in Pushers, AcceptPack(p)
    PROVE  CollisionInv'
  <1> USE DEF Types, TypeOK, Go, store
  <1>1. /\ pc[p] = "connect" /\ pc' = [pc EXCEPT ![p] = "apply"]
        /\ ref' = ref /\ taken'[p] = Existing
        /\ \A o \in Pushers \ {p} : phase'[o] = phase[o]
    BY DEF AcceptPack, Existing
  <1>2. \A i \in Positions : phase'[p][i] # "write"
    BY <1>1 DEF AcceptPack, CollisionInv
  <1>3. Coming(p)' = {} /\ Existing' = Existing /\ NoCollision'
    BY <1>1, <1>2 DEF Coming, InPhase, Existing, CollisionInv, NoCollision
  <1>4. CollisionFree(Existing)
    BY DEF CollisionInv, NoCollision, CollisionFree, Existing
  <1>5. CollisionFree(Existing \cup Coming(p))'
    BY <1>3, <1>4 DEF CollisionFree
  <1> QED
    BY <1>1, <1>3, <1>5, ApplyingAlone

LEMMA CheckFree ==
    ASSUME Types, Exclusive, CollisionInv,
           NEW p \in Pushers, NEW i \in Positions, CheckRef(p, i)
    PROVE  CollisionInv'
  <1> USE DEF Types, TypeOK, store
  <1> DEFINE cmd == Command(p, i)
             S == Existing \cup Coming(p)
  <1>1. /\ pc[p] = "apply" /\ phase[p][i] = "cas"
        /\ UNCHANGED <<ref, pc, req>>
        /\ phase' = [phase EXCEPT ![p][i] =
               IF CasFails(p, i) \/ Collision(p, i) \/ WrongType(p, i)
               THEN "ng" ELSE "write"]
        /\ taken'[p] = taken[p] \cup Claimed(p, i)
    BY DEF CheckRef, CollisionInv
  <1>2. CollisionFree(S) /\ S \subseteq taken[p]
    BY <1>1 DEF CollisionInv
  <1>3. cmd.name \in Names /\ \A j \in Positions : Command(p, j)' = Command(p, j)
    BY <1>1, CommandTypes DEF Command
  <1>4. Existing' = Existing /\ NoCollision'
    BY <1>1 DEF Existing, CollisionInv, NoCollision
  <1>5. CollisionFree(S)' /\ S' \subseteq taken'[p]
    <2>1. CASE phase'[p][i] = "write" /\ cmd.new # None
      <3>1. ~CasFails(p, i) /\ ~Collision(p, i)
        BY <1>1, <2>1
      <3>2. S' = S \cup {cmd.name}
        <4>1. InPhase(p, "write")' = InPhase(p, "write") \cup {i}
          BY <1>1, <2>1 DEF InPhase
        <4>2. \A j \in InPhase(p, "write")' : j \in Positions
          BY DEF InPhase
        <4>3. Coming(p)' \subseteq Coming(p) \cup {cmd.name}
          BY <1>3, <4>1, <4>2 DEF Coming
        <4>4. Coming(p) \cup {cmd.name} \subseteq Coming(p)'
          BY <1>3, <2>1, <4>1, <4>2 DEF Coming
        <4> QED
          BY <1>4, <4>3, <4>4
      <3>3. CASE Creates(p, i)
        <4>1. S \cap Collides[cmd.name] = {} /\ cmd.name \in taken'[p]
          BY <1>1, <1>2, <3>1, <3>3 DEF Collision, Claimed
        <4>2. S \subseteq Names
          BY <1>1, <1>2
        <4>3. \A n \in S : cmd.name \notin Collides[n]
          BY <1>3, <4>1, <4>2, PushAssumption
        <4>4. cmd.name \notin Collides[cmd.name]
          BY <1>3, PushAssumption
        <4> QED
          BY <1>1, <1>2, <3>2, <4>1, <4>3, <4>4 DEF CollisionFree
      <3>4. CASE ~Creates(p, i)
        <4>1. cmd.name \in Existing
          BY <1>3, <2>1, <3>1, <3>4 DEF CasFails, Creates, Existing
        <4> QED
          BY <1>1, <1>2, <3>2, <4>1 DEF CollisionFree
      <3> QED
        BY <3>3, <3>4
    <2>2. CASE ~(phase'[p][i] = "write" /\ cmd.new # None)
      <3>1. S' \subseteq S
        <4>1. InPhase(p, "write")' \subseteq InPhase(p, "write") \cup {i}
          BY <1>1 DEF InPhase
        <4>2. Coming(p)' \subseteq Coming(p)
          BY <1>3, <2>2, <4>1 DEF Coming, InPhase
        <4> QED
          BY <1>4, <4>2
      <3> QED
        BY <1>1, <1>2, <3>1 DEF CollisionFree
    <2> QED
      BY <2>1, <2>2
  <1>6. \A o \in Pushers \ {p} : phase'[o] = phase[o]
    BY <1>1
  <1> QED
    BY <1>1, <1>4, <1>5, <1>6, ApplyingAlone

\* A write brings nothing that was not coming.
LEMMA WriteFree ==
    ASSUME NoLeaks, Types, Exclusive, CollisionInv,
           NEW p \in Pushers, NEW i \in Positions,
           UpdateRef(p, i) \/ CommandThrows(p, i)
    PROVE  CollisionInv'
  <1> USE DEF Types, TypeOK, store
  <1> DEFINE cmd == Command(p, i)
             S == Existing \cup Coming(p)
  <1>1. /\ phase[p][i] \in {"cas", "write"} /\ req' = req /\ taken' = taken
        /\ phase'[p][i] \in {"ok", "io"}
        /\ \A j \in Positions \ {i} : phase'[p][j] = phase[p][j]
        /\ \A o \in Pushers \ {p} : pc'[o] = pc[o] /\ phase'[o] = phase[o]
        /\ \/ ref' = ref
           \/ phase[p][i] = "write" /\ ref' = [ref EXCEPT ![cmd.name] = cmd.new]
    BY DEF UpdateRef, CommandThrows, Go
  <1>2. pc[p] = "apply" /\ CollisionFree(S) /\ S \subseteq taken[p]
    BY <1>1 DEF CollisionInv
  <1>3. \A j \in Positions : Command(p, j)' = Command(p, j)
    BY <1>1 DEF Command
  <1>4. Existing' \subseteq S
    BY <1>1 DEF Existing, Coming, InPhase
  <1>5. Coming(p)' \subseteq Coming(p)
    <2>1. InPhase(p, "write")' \subseteq InPhase(p, "write")
      BY <1>1 DEF InPhase
    <2> QED
      BY <1>3, <2>1 DEF Coming, InPhase
  <1>6. NoCollision'
    BY <1>2, <1>4, FreeRefs
  <1>7. CollisionFree(S)' /\ S' \subseteq taken'[p]
    BY <1>1, <1>2, <1>4, <1>5 DEF CollisionFree
  <1>8. ASSUME NEW j \in Positions, phase'[p][j] \in {"cas", "write"}
        PROVE  pc'[p] = "apply"
    <2>1. CASE UpdateRef(p, i)
      BY <1>2, <2>1 DEF UpdateRef
    <2>2. CASE CommandThrows(p, i)
      <3>1. j # i /\ phase[p][j] \in {"cas", "write"}
        BY <1>1, <1>8
      <3>2. /\ req[p] \in Requests
            /\ i \in DOMAIN req[p].cmds /\ j \in DOMAIN req[p].cmds
        BY <1>1, <3>1 DEF Serving
      <3>3. "apply" \in Faults
        BY <2>2 DEF CommandThrows
      <3> QED
        BY <3>1, <3>2, <3>3 DEF NoLeaks
    <2> QED
      BY <2>1, <2>2
  <1> QED
    BY <1>1, <1>2, <1>6, <1>7, <1>8, ApplyingAlone

LEMMA CollisionNext ==
    ASSUME NoLeaks, Types, Exclusive, CollisionInv, [Next]_vars
    PROVE  CollisionInv'
  <1> USE DEF Types, TypeOK, PCs, Phases, Go, store
  <1>1. ASSUME NEW p \in Pushers, NEW q \in Requests, Begin(p, q)
        PROVE  CollisionInv'
    <2>1. \A j \in Positions : phase'[p][j] = "none"
      BY <1>1 DEF Begin, Serving
    <2> QED
      BY <1>1, <2>1, SteadyCollisions DEF Begin
  <1>2. ASSUME NEW p \in Pushers, Preflight(p) PROVE CollisionInv'
    <2>1. \A j \in Positions : phase'[p][j] \notin {"cas", "write"}
      BY <1>2 DEF Preflight
    <2> QED
      BY <1>2, <2>1, SteadyCollisions DEF Preflight
  <1>3. ASSUME NEW p \in Pushers,
               StorePack(p) \/ SkipPack(p) \/ IndexPack(p)
        PROVE  CollisionInv'
    <2>1. \A j \in Positions : phase[p][j] \notin {"cas", "write"}
      BY <1>3 DEF StorePack, SkipPack, IndexPack, CollisionInv
    <2> QED
      BY <1>3, <2>1, SteadyCollisions DEF StorePack, SkipPack, IndexPack
  <1>4. ASSUME NEW p \in Pushers, UnpackFails(p) \/ RejectPack(p)
        PROVE  CollisionInv'
    <2>1. \A j \in Positions : phase[p][j] \notin {"cas", "write"}
      BY <1>4 DEF UnpackFails, RejectPack, CollisionInv
    <2>2. \A j \in Positions : phase'[p][j] \in {"ng", phase[p][j]}
      BY <1>4 DEF UnpackFails, RejectPack, Refuse
    <2>3. \A j \in Positions : phase'[p][j] \notin {"cas", "write"}
      BY <2>1, <2>2
    <2> QED
      BY <1>4, <2>3, SteadyCollisions DEF UnpackFails, RejectPack, Refuse
  <1>5. ASSUME NEW p \in Pushers,
               \/ NoneApplied(p) \/ KeepPacks(p)
               \/ \E n \in Packs : Repack(p, n)
               \/ RepackFails(p) \/ IndexRepacked(p) \/ Finish(p)
        PROVE  CollisionInv'
    <2>1. \A j \in Positions : phase[p][j] \notin {"cas", "write"}
      BY <1>5 DEF NoneApplied, KeepPacks, Repack, RepackFails, SomeApplied,
                  Settled, InPhase, IndexRepacked, Finish, CollisionInv
    <2>2. /\ phase' = phase /\ ref' = ref /\ req' = req /\ taken' = taken
          /\ \A o \in Pushers \ {p} : pc'[o] = pc[o]
          /\ pc'[p] # "apply"
      BY <1>5 DEF NoneApplied, KeepPacks, Repack, RepackFails, SomeApplied,
                  IndexRepacked, Finish
    <2> QED
      BY <2>1, <2>2, SteadyCollisions
  <1>6. ASSUME NEW p \in Pushers, AcceptPack(p) PROVE CollisionInv'
    BY <1>6, AcceptFree
  <1>7. ASSUME NEW p \in Pushers, NEW i \in Positions,
               CheckRef(p, i) \/ UpdateRef(p, i) \/ CommandThrows(p, i)
        PROVE  CollisionInv'
    BY <1>7, CheckFree, WriteFree
  <1>8. ASSUME NEW p \in Pushers, Crash(p) \/ Return(p) PROVE CollisionInv'
    <2>1. pc'[p] = "idle" /\ \A j \in Positions : phase'[p][j] = "none"
      BY <1>8 DEF Crash, Return, Forget
    <2>2. /\ ref' = ref
          /\ \A o \in Pushers \ {p} :
                /\ pc'[o] = pc[o] /\ phase'[o] = phase[o]
                /\ req'[o] = req[o] /\ taken'[o] = taken[o]
      BY <1>8 DEF Crash, Return, Forget
    <2> QED
      BY <2>1, <2>2, SteadyCollisions
  <1>9. ASSUME UNCHANGED <<ref, pc, phase, req, taken>> PROVE CollisionInv'
    BY <1>9, SteadyCollisions
  <1> QED
    BY <1>1, <1>2, <1>3, <1>4, <1>5, <1>6, <1>7, <1>8, <1>9
    DEF Next, Push, UnlinkIndex, UnlinkPack, Expire, vars

\* As long as no failed push leaves a command running, two refs that cannot
\* exist together never do, though they are created by commands of one push
\* that run side by side.
THEOREM RefsDoNotCollide == NoLeaks => (Spec => []NoCollision)
  <1> SUFFICES ASSUME NoLeaks PROVE Spec => []NoCollision
    OBVIOUS
  <1>1. Types /\ Exclusive /\ CollisionInv /\ [Next]_vars
            => (Types /\ Exclusive /\ CollisionInv)'
    BY TypesNext, ExclusiveNext, CollisionNext
  <1>2. CollisionInv => NoCollision
    BY DEF CollisionInv
  <1> QED
    BY <1>1, <1>2, TypesInit, SafeInit, CollisionInit, PTL DEF Spec

-------------------------------------------------------------------------------
(* Compare-and-swap does not rest on listings, nor on what is stored: what *)
(* a command re-read stays as it is until it writes, because the commands  *)
(* of a push that are on their way have different refs, and no other push  *)
(* has commands on their way.                                              *)

Active == {"accepted", "cas", "write"}

ClaimInv ==
    /\ \A p \in Pushers : \A i, j \in Positions :
          i # j /\ phase[p][i] \in Active /\ phase[p][j] \in Active
          => Command(p, i).name # Command(p, j).name
    /\ \A p \in Pushers, i \in Positions :
          phase[p][i] = "write" => ref[Command(p, i).name] = Command(p, i).old

\* Commands only go on, or end, and those about to write find what they re-read.
LEMMA ClaimsGoOn ==
    ASSUME ClaimInv,
           \A o \in Pushers, j \in Positions : phase'[o][j] \in Active =>
              /\ phase[o][j] \in Active
              /\ Command(o, j)' = Command(o, j)
              /\ phase'[o][j] = "write"
                    => ref'[Command(o, j).name] = Command(o, j).old
    PROVE  ClaimInv'
  BY DEF ClaimInv, Active

\* In particular when no ref moves, and each push keeps or drops its commands.
LEMMA ClaimsStay ==
    ASSUME ClaimInv, ref' = ref,
           \A o \in Pushers :
              \/ req'[o] = req[o] /\ \A j \in Positions :
                    phase'[o][j] \in Active => phase'[o][j] = phase[o][j]
              \/ \A j \in Positions : phase'[o][j] \notin Active
    PROVE  ClaimInv'
  <1>1. ASSUME NEW o \in Pushers, NEW j \in Positions, phase'[o][j] \in Active
        PROVE  phase'[o][j] = phase[o][j] /\ Command(o, j)' = Command(o, j)
    BY <1>1 DEF Command
  <1> QED
    BY <1>1, ClaimsGoOn DEF ClaimInv

LEMMA PreflightClaims ==
    ASSUME Types, Exclusive, CollisionInv, ClaimInv, NEW p \in Pushers, Preflight(p)
    PROVE  ClaimInv'
  <1> USE DEF Types, TypeOK, store
  <1>1. /\ ref' = ref /\ req' = req /\ req[p] \in Requests
        /\ \A o \in Pushers \ {p} : phase'[o] = phase[o]
        /\ \A i \in Positions : phase'[p][i] \in Active
              => i \in Sent(p) /\ Passes(p, i) /\ phase'[p][i] = "accepted"
    BY DEF Preflight, Serving, Active
  <1>2. \A o \in Pushers, i \in Positions : Command(o, i)' = Command(o, i)
    BY <1>1 DEF Command
  <1>3. ASSUME NEW i \in Positions, NEW j \in Positions, i # j,
               phase'[p][i] \in Active, phase'[p][j] \in Active
        PROVE  Command(p, i).name # Command(p, j).name
    <2>1. i < j \/ j < i
      BY <1>3, RequestAssumption DEF Positions
    <2>2. /\ i \in Sent(p) /\ j \in Sent(p)
          /\ Passes(p, i) /\ Passes(p, j)
      BY <1>1, <1>3
    <2> QED
      BY <2>1, <2>2 DEF Passes
  <1>4. \A i \in Positions : phase'[p][i] # "write"
    BY <1>1 DEF Active
  <1>5. ASSUME NEW o \in Pushers, NEW i \in Positions, NEW j \in Positions, i # j,
               phase'[o][i] \in Active, phase'[o][j] \in Active
        PROVE  Command(o, i)'.name # Command(o, j)'.name
    <2>1. CASE o = p
      BY <1>2, <1>3, <1>5, <2>1
    <2>2. CASE o # p
      <3>1. phase[o][i] \in Active /\ phase[o][j] \in Active
        BY <1>1, <1>5, <2>2
      <3>2. Command(o, i).name # Command(o, j).name
        BY <1>5, <3>1 DEF ClaimInv
      <3> QED
        BY <1>2, <3>2
    <2> QED
      BY <2>1, <2>2
  <1>6. ASSUME NEW o \in Pushers, NEW i \in Positions, phase'[o][i] = "write"
        PROVE  ref'[Command(o, i)'.name] = Command(o, i)'.old
    <2>1. phase[o][i] = "write"
      BY <1>1, <1>4, <1>6
    <2>2. ref[Command(o, i).name] = Command(o, i).old
      BY <2>1 DEF ClaimInv
    <2> QED
      BY <1>1, <1>2, <2>2
  <1> QED
    BY <1>5, <1>6 DEF ClaimInv

\* A command that writes, or fails, leaves the refs of all others alone.
LEMMA WriteClaims ==
    ASSUME Types, Exclusive, CollisionInv, ClaimInv,
           NEW p \in Pushers, NEW i \in Positions,
           UpdateRef(p, i) \/ CommandThrows(p, i)
    PROVE  ClaimInv'
  <1> USE DEF Types, TypeOK, store
  <1>1. /\ phase[p][i] \in {"cas", "write"} /\ req' = req
        /\ phase'[p][i] \in {"ok", "io"}
        /\ \A j \in Positions \ {i} : phase'[p][j] = phase[p][j]
        /\ \A o \in Pushers \ {p} : phase'[o] = phase[o]
        /\ \/ ref' = ref
           \/ ref' = [ref EXCEPT ![Command(p, i).name] = Command(p, i).new]
    BY DEF UpdateRef, CommandThrows
  <1>2. pc[p] = "apply"
    BY <1>1 DEF CollisionInv
  <1>3. ASSUME NEW o \in Pushers, NEW j \in Positions, phase'[o][j] \in Active
        PROVE  phase[o][j] = phase'[o][j] /\ (o = p => j # i)
    BY <1>1, <1>3 DEF Active
  <1>4. \A o \in Pushers, j \in Positions : Command(o, j)' = Command(o, j)
    BY <1>1 DEF Command
  <1>5. ASSUME NEW o \in Pushers, NEW j \in Positions, phase'[o][j] = "write"
        PROVE  ref'[Command(o, j).name] = Command(o, j).old
    <2>1. phase[o][j] = "write" /\ (o = p => j # i)
      BY <1>3, <1>5 DEF Active
    <2>2. o = p
      <3>1. pc[o] = "apply"
        BY <2>1 DEF CollisionInv
      <3> QED
        BY <1>2, <3>1, Alone DEF Working
    <2>3. Command(o, j).name # Command(p, i).name
      BY <1>1, <2>1, <2>2 DEF ClaimInv, Active
    <2>4. Command(o, j).name \in Names
      BY <2>1, CommandTypes
    <2>5. ref'[Command(o, j).name] = ref[Command(o, j).name]
      BY <1>1, <2>3, <2>4
    <2> QED
      BY <2>1, <2>5 DEF ClaimInv
  <1> QED
    BY <1>3, <1>4, <1>5, ClaimsGoOn

LEMMA CheckClaims ==
    ASSUME Types, ClaimInv, NEW p \in Pushers, NEW i \in Positions, CheckRef(p, i)
    PROVE  ClaimInv'
  <1> USE DEF Types, TypeOK, store
  <1>1. /\ ref' = ref /\ req' = req /\ phase[p][i] = "cas"
        /\ phase'[p][i] = "write" => ~CasFails(p, i)
        /\ \A o \in Pushers, j \in Positions :
              <<o, j>> # <<p, i>> => phase'[o][j] = phase[o][j]
    BY DEF CheckRef
  <1>2. \A o \in Pushers, j \in Positions : Command(o, j)' = Command(o, j)
    BY <1>1 DEF Command
  <1>3. ASSUME NEW o \in Pushers, NEW j \in Positions, phase'[o][j] \in Active
        PROVE  /\ phase[o][j] \in Active
               /\ phase'[o][j] = "write"
                     => ref'[Command(o, j).name] = Command(o, j).old
    BY <1>1, <1>3 DEF ClaimInv, CasFails, Active
  <1> QED
    BY <1>2, <1>3, ClaimsGoOn

LEMMA ClaimNext ==
    ASSUME NoLeaks, Types, Exclusive, CollisionInv, ClaimInv, [Next]_vars
    PROVE  ClaimInv'
  <1> USE DEF Types, TypeOK, Go, store
  <1>1. ASSUME NEW p \in Pushers, NEW q \in Requests, Begin(p, q)
        PROVE  ClaimInv'
    <2>1. /\ ref' = ref /\ phase' = phase
          /\ \A o \in Pushers \ {p} : req'[o] = req[o]
          /\ \A j \in Positions : phase[p][j] = "none"
      BY <1>1 DEF Begin, Serving
    <2>2. \A j \in Positions : phase'[p][j] \notin Active
      BY <2>1 DEF Active
    <2> QED
      BY <2>1, <2>2, ClaimsStay
  <1>2. ASSUME NEW p \in Pushers, Preflight(p) PROVE ClaimInv'
    BY <1>2, PreflightClaims
  <1>3. ASSUME NEW p \in Pushers, AcceptPack(p) PROVE ClaimInv'
    <2>1. /\ ref' = ref /\ req' = req
          /\ \A o \in Pushers, j \in Positions :
                \/ phase'[o][j] = phase[o][j]
                \/ phase[o][j] = "accepted" /\ phase'[o][j] = "cas"
      BY <1>3 DEF AcceptPack
    <2>2. \A o \in Pushers, j \in Positions : Command(o, j)' = Command(o, j)
      BY <2>1 DEF Command
    <2>3. \A o \in Pushers, j \in Positions : phase'[o][j] \in Active =>
             /\ phase[o][j] \in Active
             /\ phase'[o][j] = "write"
                   => ref'[Command(o, j).name] = Command(o, j).old
      BY <2>1 DEF Active, ClaimInv
    <2> QED
      BY <2>2, <2>3, ClaimsGoOn
  <1>4. ASSUME NEW p \in Pushers, NEW i \in Positions,
               CheckRef(p, i) \/ UpdateRef(p, i) \/ CommandThrows(p, i)
        PROVE  ClaimInv'
    BY <1>4, CheckClaims, WriteClaims
  <1>5. ASSUME NEW p \in Pushers, UnpackFails(p) \/ RejectPack(p)
        PROVE  ClaimInv'
    <2>1. /\ ref' = ref /\ req' = req
          /\ \A o \in Pushers \ {p} : phase'[o] = phase[o]
      BY <1>5 DEF UnpackFails, RejectPack, Refuse
    <2>2. \A j \in Positions : phase'[p][j] \in {"ng", phase[p][j]}
      BY <1>5 DEF UnpackFails, RejectPack, Refuse
    <2>3. \A o \in Pushers, j \in Positions :
             phase'[o][j] \in Active => phase'[o][j] = phase[o][j]
      BY <2>1, <2>2 DEF Active
    <2> QED
      BY <2>1, <2>3, ClaimsStay
  <1>6. ASSUME NEW p \in Pushers, Crash(p) \/ Return(p) PROVE ClaimInv'
    <2>1. /\ ref' = ref
          /\ \A j \in Positions : phase'[p][j] = "none"
          /\ \A o \in Pushers \ {p} : req'[o] = req[o] /\ phase'[o] = phase[o]
      BY <1>6 DEF Crash, Return, Forget
    <2>2. \A j \in Positions : phase'[p][j] \notin Active
      BY <2>1 DEF Active
    <2> QED
      BY <2>1, <2>2, ClaimsStay
  <1>7. ASSUME UNCHANGED <<ref, req, phase>> PROVE ClaimInv'
    BY <1>7, ClaimsStay
  <1>8. ASSUME NEW p \in Pushers,
               \/ StorePack(p) \/ SkipPack(p) \/ IndexPack(p) \/ NoneApplied(p)
               \/ KeepPacks(p) \/ (\E n \in Packs : Repack(p, n))
               \/ IndexRepacked(p) \/ RepackFails(p) \/ Finish(p)
               \/ \E q \in Packs : UnlinkIndex(p, q) \/ UnlinkPack(p, q)
        PROVE  UNCHANGED <<ref, req, phase>>
    BY <1>8 DEF StorePack, SkipPack, IndexPack, NoneApplied, KeepPacks, Repack,
                IndexRepacked, RepackFails, Finish, UnlinkIndex, UnlinkPack
  <1> QED
    BY <1>1, <1>2, <1>3, <1>4, <1>5, <1>6, <1>7, <1>8
    DEF Next, Push, Expire, vars

\* A ref moves only from the value its client claimed, as long as no failed
\* push leaves a command running: between the re-read and the forced write of
\* a command no other command reaches its ref, whatever listings, writes and
\* unlinks fail.
THEOREM RefsMoveAsClaimed == NoLeaks => (Spec => CompareAndSwap)
  <1> SUFFICES ASSUME NoLeaks PROVE Spec => CompareAndSwap
    OBVIOUS
  <1>1. Types /\ Exclusive /\ CollisionInv /\ ClaimInv /\ [Next]_vars
            => (Types /\ Exclusive /\ CollisionInv /\ ClaimInv)'
    BY TypesNext, ExclusiveNext, CollisionNext, ClaimNext
  <1>2. Init => ClaimInv
    BY DEF Init, ClaimInv, Active
  <1>3. Types /\ ClaimInv /\ [Next]_vars => [MovesFromClaim]_vars
    <2> SUFFICES ASSUME Types, ClaimInv, [Next]_vars,
                        NEW n \in Names, ref'[n] # ref[n]
                 PROVE  \E p \in Pushers, i \in Positions :
                            /\ phase[p][i] = "write"
                            /\ Command(p, i)
                                 = [name |-> n, old |-> ref[n], new |-> ref'[n]]
      BY DEF MovesFromClaim
    <2>1. PICK p \in Pushers, i \in Positions :
              /\ phase[p][i] = "write"
              /\ ref' = [ref EXCEPT ![Command(p, i).name] = Command(p, i).new]
      BY RefWrites
    <2>2. Command(p, i) \in Commands /\ ref[Command(p, i).name] = Command(p, i).old
      BY <2>1, CommandTypes DEF ClaimInv
    <2>3. ref \in [Names -> Objects \cup {None}]
      BY DEF Types, TypeOK
    <2>4. n = Command(p, i).name
      BY <2>1, <2>3
    <2>5. ref'[n] = Command(p, i).new
      BY <2>1, <2>3, <2>4
    <2>6. Command(p, i) = [name |-> n, old |-> ref[n], new |-> ref'[n]]
      BY <2>2, <2>4, <2>5 DEF Commands
    <2> QED
      BY <2>1, <2>6
  <1> QED
    BY <1>1, <1>2, <1>3, TypesInit, SafeInit, CollisionInit, PTL
    DEF Spec, CompareAndSwap

===============================================================================
