---------------------------- MODULE RepoLifecycle ----------------------------
(***************************************************************************)
(* Creating, forking, renaming, transferring and deleting repositories,    *)
(* and pushes meanwhile: repository-create.ts, repository-fork.ts,         *)
(* repository-settings.ts, git-repo.ts and git-http.ts of apps/web.        *)
(*                                                                         *)
(* A repository is a row of the database, which says where it is, and what *)
(* the object store holds below that name.  The database keeps two rows    *)
(* from one name; nothing but the repository locks and the order of the    *)
(* steps keeps the store in line with the rows.  A lock belongs to a name, *)
(* which a request takes from the row it read before it waits.             *)
(*                                                                         *)
(* store[p] is the set of repositories whose content is below p: after a   *)
(* fork also those it descends from.  Locks are taken at once, as RepoLock *)
(* allows; release assets move with the git data.                          *)
(***************************************************************************)
EXTENDS Naturals, Null

CONSTANTS
    Repos,          \* repository ids; the database never uses one twice
    Paths,          \* owner and name
    Slots,          \* each serves one request at a time
    InitRow,        \* rows to begin with
    Renames,        \* <<repository, path>>: the renames owners ask for
    Killable,       \* kinds of requests that may be killed half way
    Faults,         \* what may fail: "storage" calls, but none after a move has
                    \* copied all; those too ("late"); changes of a "row"
    Races,          \* what may happen: that "requests" on one repository overlap,
                    \* or come before its creation was answered; that owners
                    \* rename to "names" others ask for
    New, Gone       \* a row that is not there yet, or no longer

Kinds == {"create", "fork", "rename", "transfer", "delete", "push"}
Jobs == [kind : Kinds, repo : Repos, from : Paths, to : Paths,
         parent : Repos \cup {None}]

ASSUME LifecycleAssumption ==
    /\ None \notin Slots \cup Repos \cup Jobs
    /\ {New, Gone} \cap Paths = {} /\ New # Gone
    /\ InitRow \in [Repos -> Paths \cup {New}]
    /\ \A r, s \in Repos : InitRow[r] = InitRow[s] => r = s \/ InitRow[r] = New
    /\ Renames \subseteq Repos \X Paths
    /\ Killable \subseteq Kinds
    /\ Faults \subseteq {"storage", "late", "row"}
    /\ Races \subseteq {"requests", "names"}

VARIABLES
    row,            \* row[r]: where the database says r is
    store,          \* store[p]: whose content is stored below p
    lock,           \* lock[p]: the slot that holds p's lock, or None
    job,            \* job[s]: the request s serves
    does,           \* what it does next
    ready,          \* history: repositories whose creation was answered
    lineage         \* history: lineage[r], r and what it was forked from

repoVars == <<row, store, lock, job, does, ready, lineage>>

Steps == {"idle", "lock", "check", "clear", "init", "undo", "copy", "insert",
          "remove", "update", "back", "drop", "wipe", "land"}

RepoTypeOK ==
    /\ row \in [Repos -> Paths \cup {New, Gone}]
    /\ store \in [Paths -> SUBSET Repos]
    /\ lock \in [Paths -> Slots \cup {None}]
    /\ job \in [Slots -> Jobs \cup {None}]
    /\ does \in [Slots -> Steps]
    /\ ready \in SUBSET Repos
    /\ lineage \in [Repos -> SUBSET Repos]

RepoInit ==
    /\ row = InitRow
    /\ store = [p \in Paths |-> {r \in Repos : InitRow[r] = p}]
    /\ lock = [p \in Paths |-> None]
    /\ job = [s \in Slots |-> None] /\ does = [s \in Slots |-> "idle"]
    /\ ready = {r \in Repos : InitRow[r] # New}
    /\ lineage = [r \in Repos |-> {r}]

-----------------------------------------------------------------------------

Named(p) == \E r \in Repos : row[r] = p
Reserved(p) == "names" \notin Races /\ \E r \in Repos : <<r, p>> \in Renames
Busy(r) == \E s \in Slots : job[s] # None /\ job[s].repo = r

Ask(s, kind, r, from, to, parent) ==
    /\ job[s] = None
    /\ Busy(r) => kind \notin {"create", "fork"} /\ "requests" \in Races
    /\ job' = [job EXCEPT ![s] = [kind |-> kind, repo |-> r, from |-> from,
                                  to |-> to, parent |-> parent]]
    /\ does' = [does EXCEPT ![s] = "lock"]
    /\ UNCHANGED <<store, lock, ready, lineage>>

\* Whether p is free is for the unique index to say.
Create(s, r, p) ==
    /\ row[r] = New /\ ~Named(p) /\ ~Reserved(p)
    /\ Ask(s, "create", r, p, p, None)
    /\ row' = [row EXCEPT ![r] = p]

Fork(s, r, parent, p) ==
    /\ row[r] = New /\ row[parent] \in Paths \ {p} /\ ~Reserved(p)
    /\ parent \in ready \/ "requests" \in Races
    /\ Ask(s, "fork", r, row[parent], p, parent)
    /\ UNCHANGED row

Rename(s, r, p) ==
    /\ <<r, p>> \in Renames /\ row[r] \in Paths \ {p}
    /\ Ask(s, "rename", r, row[r], p, None)
    /\ UNCHANGED row

Transfer(s, r, p) ==
    /\ row[r] \in Paths \ {p} /\ ~Reserved(p)
    /\ Ask(s, "transfer", r, row[r], p, None)
    /\ UNCHANGED row

Delete(s, r) ==
    /\ row[r] \in Paths
    /\ Ask(s, "delete", r, row[r], row[r], None)
    /\ UNCHANGED row

Push(s, r) ==
    /\ row[r] \in Paths
    /\ Ask(s, "push", r, row[r], row[r], None)
    /\ UNCHANGED row

\* A rename locks the old name alone.
Locks(s) == IF job[s].kind = "rename" THEN {job[s].from}
                                      ELSE {job[s].from, job[s].to}

First(kind) ==
    CASE kind = "create" -> "clear"
      [] kind \in {"fork", "transfer"} -> "check"
      [] kind = "rename" -> "copy"
      [] kind = "delete" -> "drop"
      [] kind = "push" -> "land"

Lock(s) ==
    /\ does[s] = "lock" /\ \A p \in Locks(s) : lock[p] = None
    /\ lock' = [p \in Paths |-> IF p \in Locks(s) THEN s ELSE lock[p]]
    /\ does' = [does EXCEPT ![s] = First(job[s].kind)]
    /\ UNCHANGED <<row, store, job, ready, lineage>>

\* A wait for a lock gives up; a create then takes its row back.
GiveUp(s) ==
    /\ does[s] = "lock" /\ \E p \in Locks(s) : lock[p] # None
    /\ does' = [does EXCEPT ![s] = IF job[s].kind = "create" THEN "undo" ELSE "idle"]
    /\ job' = [job EXCEPT ![s] = IF @.kind = "create" THEN @ ELSE None]
    /\ UNCHANGED <<row, store, lock, ready, lineage>>

-----------------------------------------------------------------------------
(* How steps end                                                           *)

Unlock(s) == lock' = [p \in Paths |-> IF lock[p] = s THEN None ELSE lock[p]]

Go(s, step) ==
    /\ does' = [does EXCEPT ![s] = step]
    /\ UNCHANGED <<lock, job>>

\* Answer the request and release its locks.
Answer(s) ==
    /\ Unlock(s)
    /\ job' = [job EXCEPT ![s] = None] /\ does' = [does EXCEPT ![s] = "idle"]

\* Every key below p goes, or only some, and the call fails.
Cleared(p) == store' = [store EXCEPT ![p] = {}]
PartlyCleared(p) ==
    /\ "storage" \in Faults
    /\ \E rest \in SUBSET store[p] : store' = [store EXCEPT ![p] = rest]

PartlyCopied(p, q) ==
    /\ "storage" \in Faults
    /\ \E part \in SUBSET store[p] : store' = [store EXCEPT ![q] = @ \cup part]

-----------------------------------------------------------------------------
(* Under the locks                                                         *)

\* Mutant of MayFork: the parent is not read again under its lock.
MayForkBlind(s) == ~Named(job[s].to)

\* The parent is still where it was, and the name is free.
MayFork(s) == row[job[s].parent] = job[s].from /\ ~Named(job[s].to)

Check(s) ==
    /\ does[s] = "check"
    /\ IF IF job[s].kind = "fork" THEN MayFork(s) ELSE ~Named(job[s].to)
       THEN Go(s, "clear") ELSE Answer(s)
    /\ UNCHANGED <<row, store, ready, lineage>>

AfterClear(s) == IF job[s].kind = "create" THEN "init" ELSE "copy"

\* Mutant of Clear: what is left below the name is not cleared.
ClearNothing(s) ==
    /\ does[s] = "clear"
    /\ Go(s, AfterClear(s))
    /\ UNCHANGED <<row, store, ready, lineage>>

\* What a delete or a failed copy left below the name must not merge in.
Clear(s) ==
    /\ does[s] = "clear"
    /\ Cleared(job[s].to)
    /\ Go(s, AfterClear(s))
    /\ UNCHANGED <<row, ready, lineage>>

InitStore(s) ==
    /\ does[s] = "init"
    /\ store' = [store EXCEPT ![job[s].to] = @ \cup {job[s].repo}]
    /\ ready' = ready \cup {job[s].repo}
    /\ Answer(s)
    /\ UNCHANGED <<row, lineage>>

\* Creating the storage fails: the lock is released, then the row goes.
CreateFails(s) ==
    /\ job[s] # None /\ job[s].kind = "create" /\ does[s] \in {"clear", "init"}
    /\ PartlyCleared(job[s].to)
    /\ Unlock(s)
    /\ does' = [does EXCEPT ![s] = "undo"]
    /\ UNCHANGED <<row, job, ready, lineage>>

\* Mutant of Undo: the row stays, with no name.
UndoBlank(s) ==
    /\ does[s] = "undo"
    /\ row' = [row EXCEPT ![job[s].repo] = None]
    /\ Answer(s)
    /\ UNCHANGED <<store, ready, lineage>>

Undo(s) ==
    /\ does[s] = "undo"
    /\ row' = [row EXCEPT ![job[s].repo] = Gone]
    /\ Answer(s)
    /\ UNCHANGED <<store, ready, lineage>>

\* A fork gets a HEAD of its own; a copy of nothing is refused.
Copied(s) == store[job[s].from]
             \cup (IF job[s].kind = "fork" THEN {job[s].repo} ELSE {})

Copy(s) ==
    /\ does[s] = "copy"
    /\ job[s].kind = "fork" => store[job[s].from] # {}
    /\ store' = [store EXCEPT ![job[s].to] = @ \cup Copied(s)]
    /\ Go(s, IF job[s].kind = "fork" THEN "insert" ELSE "remove")
    /\ UNCHANGED <<row, ready, lineage>>

\* A fork's copy fails: what was copied is removed, unless that fails too.
ForkFails(s) ==
    /\ job[s] # None /\ job[s].kind = "fork" /\ does[s] \in {"clear", "copy"}
    /\ \/ does[s] = "clear" /\ PartlyCleared(job[s].to)
       \/ does[s] = "copy" /\ ("storage" \in Faults \/ store[job[s].from] = {})
                         /\ Cleared(job[s].to)
       \/ does[s] = "copy" /\ PartlyCopied(job[s].from, job[s].to)
    /\ Answer(s)
    /\ UNCHANGED <<row, ready, lineage>>

\* A move fails before anything is removed: some of it stays where it goes.
MoveFails(s) ==
    /\ job[s] # None /\ job[s].kind \in {"rename", "transfer"}
    /\ \/ does[s] = "clear" /\ PartlyCleared(job[s].to)
       \/ does[s] = "copy" /\ PartlyCopied(job[s].from, job[s].to)
    /\ Answer(s)
    /\ UNCHANGED <<row, ready, lineage>>

\* The fork's row goes in when its storage is complete, unless the name was
\* taken meanwhile.
Insert(s) ==
    /\ does[s] = "insert" /\ ~Named(job[s].to)
    /\ LET r == job[s].repo IN
       /\ row' = [row EXCEPT ![r] = job[s].to]
       /\ lineage' = [lineage EXCEPT ![r] = @ \cup lineage[job[s].parent]]
       /\ ready' = ready \cup {r}
    /\ Answer(s)
    /\ UNCHANGED store

InsertFails(s) ==
    /\ does[s] = "insert" /\ (Named(job[s].to) \/ "row" \in Faults)
    /\ Cleared(job[s].to) \/ PartlyCleared(job[s].to)
    /\ Answer(s)
    /\ UNCHANGED <<row, ready, lineage>>

\* The old keys go when all are copied; a failure on the way is not undone.
Remove(s) ==
    /\ does[s] = "remove"
    /\ \/ Cleared(job[s].from) /\ Go(s, "update")
       \/ "late" \in Faults /\ PartlyCleared(job[s].from) /\ Answer(s)
    /\ UNCHANGED <<row, ready, lineage>>

Update(s) ==
    /\ does[s] = "update" /\ ~Named(job[s].to)
    /\ row' = [row EXCEPT ![job[s].repo] = IF @ = Gone THEN Gone ELSE job[s].to]
    /\ Answer(s)
    /\ UNCHANGED <<store, ready, lineage>>

UpdateFails(s) ==
    /\ does[s] = "update" /\ (Named(job[s].to) \/ "row" \in Faults)
    /\ Go(s, "back")
    /\ UNCHANGED <<row, store, ready, lineage>>

\* The row stayed where it was, so the storage goes back.
Back(s) ==
    /\ does[s] = "back"
    /\ \/ store' = [store EXCEPT ![job[s].from] = @ \cup store[job[s].to],
                                 ![job[s].to] = {}]
       \/ "late" \in Faults /\ PartlyCopied(job[s].to, job[s].from)
    /\ Answer(s)
    /\ UNCHANGED <<row, ready, lineage>>

Drop(s) ==
    /\ does[s] = "drop"
    /\ \/ row' = [row EXCEPT ![job[s].repo] = Gone] /\ Go(s, "wipe")
       \/ "row" \in Faults /\ Answer(s) /\ UNCHANGED row
    /\ UNCHANGED <<store, ready, lineage>>

\* A failure to delete the storage is only logged.
Wipe(s) ==
    /\ does[s] = "wipe"
    /\ Cleared(job[s].from) \/ PartlyCleared(job[s].from)
    /\ Answer(s)
    /\ UNCHANGED <<row, ready, lineage>>

LandPush(s) ==
    /\ does[s] = "land"
    /\ store' = [store EXCEPT ![job[s].to] = @ \cup {job[s].repo}]
    /\ Answer(s)
    /\ UNCHANGED <<row, ready, lineage>>

\* The instance is killed; its locks expire.
Kill(s) ==
    /\ job[s] # None /\ job[s].kind \in Killable
    /\ Answer(s)
    /\ UNCHANGED <<row, store, ready, lineage>>

Request(s) ==
    \E r \in Repos :
       \/ \E p \in Paths : Create(s, r, p) \/ Rename(s, r, p) \/ Transfer(s, r, p)
       \/ \E p \in Paths, q \in Repos : Fork(s, r, q, p)
       \/ Delete(s, r) \/ Push(s, r)

Step(s) ==
    \/ Lock(s) \/ GiveUp(s) \/ Check(s) \/ Clear(s) \/ InitStore(s) \/ CreateFails(s) \/ Undo(s)
    \/ Copy(s) \/ ForkFails(s) \/ MoveFails(s) \/ Insert(s) \/ InsertFails(s)
    \/ Remove(s) \/ Update(s) \/ UpdateFails(s) \/ Back(s)
    \/ Drop(s) \/ Wipe(s) \/ LandPush(s) \/ Kill(s)

RepoNext == \E s \in Slots : Request(s) \/ Step(s)

RepoSpec == RepoInit /\ [][RepoNext]_repoVars

-----------------------------------------------------------------------------
(* Properties, of the repositories nobody has locked                       *)

AtRest(r) == r \in ready /\ row[r] \in Paths /\ lock[row[r]] = None

\* All that a repository was created and forked with is below its name: no
\* request on this name, or on another, loses it half way or by undoing itself
\* (repository-settings.ts, repository-fork.ts).
KeepsContent == \A r \in Repos : AtRest(r) => lineage[r] \subseteq store[row[r]]

\* Nothing of another repository is: what a delete or a failed copy left below
\* the name was cleared before the row could be read (repository-create.ts).
OnlyOwnContent == \A r \in Repos : AtRest(r) => store[row[r]] \subseteq lineage[r]

\* Nothing is stored below a name that no repository has and no request uses:
\* a deleted repository's storage is deleted with it (deleteRepositoryAndStorage).
\* A push that waits behind the deletion breaks this where "requests" overlap.
NothingUnnamed ==
    \A p \in Paths :
       ~Named(p) /\ (\A s \in Slots : job[s] # None => p \notin {job[s].from, job[s].to})
       => store[p] = {}
=============================================================================
