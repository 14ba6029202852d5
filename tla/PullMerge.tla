------------------------------ MODULE PullMerge ------------------------------
(***************************************************************************)
(* One pull request and the requests about it: merges, edits of its        *)
(* status, deletions of its head branch, and pushes meanwhile.  This is    *)
(* pull-request-store.ts and mergeBranches of git-write.ts (apps/web),     *)
(* called from pull-requests.ts, api/pulls.ts and git-http.ts.             *)
(*                                                                         *)
(* git's side of a merge is one step, under the repository lock.  The      *)
(* database's side is several statements without a transaction, on rows    *)
(* each handler read before: the row of the issue says open or closed, the *)
(* row of the pull request says what merged it.                            *)
(*                                                                         *)
(* The head branch is the number of its commits, 0 once deleted; it is     *)
(* never forced back.  The target is what was added to it above the merge  *)
(* base: the head's own commits ("forward"), a merge commit of them        *)
(* ("merge"), copies of them squashed or rebased ("copy"), or other work   *)
(* ("own").  Drafts, reviews and access are settled before a merge starts. *)
(***************************************************************************)
EXTENDS Naturals, Sequences, Null

CONSTANTS
    Mergers,        \* requests to merge
    Closers,        \* requests to close the pull request
    Reopeners,      \* requests to reopen it
    Deleters,       \* requests to delete the head branch
    Expected,       \* Expected[q]: the head merger q names, or None
    Methods,        \* merge methods the repository allows
    MaxHead,        \* bound: commits on the head branch
    MaxOwn,         \* bound: other work on the target
    Trouble         \* what may happen: "conflict", a "record" or "follow-up" that
                    \* fails, one that lands and fails ("late"), a request "killed"

ASSUME PullAssumption ==
    /\ MaxHead \in Nat \ {0} /\ MaxOwn \in Nat
    /\ Expected \in [Mergers -> (1..MaxHead) \cup {None}]
    /\ Methods \subseteq {"merge", "squash", "rebase"}
    /\ Mergers \cap (Closers \cup Reopeners \cup Deleters) = {}
    /\ Closers \cap (Reopeners \cup Deleters) = {} /\ Reopeners \cap Deleters = {}
    /\ None \notin Mergers \cup Closers \cup Reopeners \cup Deleters
    /\ None \notin Nat /\ None \notin [commit : Nat, head : Nat]
    /\ Trouble \subseteq {"conflict", "record", "follow-up", "late", "killed"}

Requests == Mergers \cup Closers \cup Reopeners \cup Deleters

VARIABLES
    head,           \* commits on the head branch
    target,         \* what was added to the target branch
    status,         \* of the issue row: "open" or "closed"
    closedBy,       \* who closed it, or None
    merged,         \* of the pull request row: None, or the commit and head
    linked,         \* the issues that the body closes: "open" or "closed"
    stage,          \* stage[q]: what request q does next
    outcome,        \* outcome[q]: what git told merger q
    overtaken       \* history: a reopening was under way when a merge was claimed,
                    \* or began, or took the claim back, before it was recorded

pullVars == <<head, target, status, closedBy, merged, linked, stage, outcome, overtaken>>
rows == <<status, closedBy, merged, linked, overtaken>>
branches == <<head, target>>

Additions == [how : {"own", "forward", "merge", "copy"}, upto : 0..MaxHead,
              by : Mergers \cup {None}]
Merges == [commit : Nat, head : 1..MaxHead]

PullTypeOK ==
    /\ head \in 0..MaxHead
    /\ target \in Seq(Additions)
    /\ status \in {"open", "closed"}
    /\ closedBy \in Requests \cup {None}
    /\ merged \in Merges \cup {None}
    /\ linked \in {"open", "closed"}
    /\ stage \in [Requests -> {"new", "git", "claim", "record", "reopen", "follow",
                               "list", "find", "write", "done", "lost"}]
    /\ outcome \in [Mergers -> Merges \cup {None}]
    /\ overtaken \in BOOLEAN

PullInit ==
    /\ head = 1 /\ target = <<>>
    /\ status = "open" /\ closedBy = None /\ merged = None /\ linked = "open"
    /\ stage = [q \in Requests |-> "new"]
    /\ outcome = [q \in Mergers |-> None]
    /\ overtaken = FALSE

-----------------------------------------------------------------------------
(* Reading                                                                 *)

\* Mutant of View: only the issue row is read.
ViewOfIssue == status

\* A pull request reads as merged once a merge is recorded, whatever its issue
\* row says (pullRequestOf).
View == IF merged # None THEN "merged" ELSE status

\* The target has the head's commits themselves.
HasHead(h) == \E i \in 1..Len(target) :
                  target[i].how \in {"forward", "merge"} /\ target[i].upto >= h

\* The head has all of the target.
Ahead == \A i \in 1..Len(target) : target[i].how = "forward"

Goes(q, step) == stage' = [stage EXCEPT ![q] = step]

\* What git told a merger is forgotten with it, or once it is recorded.
Forgets(q) == outcome' = [m \in Mergers |-> IF m = q THEN None ELSE outcome[m]]

Opens == status' = "open" /\ closedBy' = None

\* A merge that is claimed may have been, or may be, recorded.
Claimed(q) == stage[q] \in {"record", "reopen"}

-----------------------------------------------------------------------------
(* Pushes                                                                  *)

PushHead ==
    /\ head \in 1..(MaxHead - 1)
    /\ head' = head + 1
    /\ UNCHANGED <<target, rows, stage, outcome>>

PushTarget ==
    /\ Len(SelectSeq(target, LAMBDA added : added.how = "own")) < MaxOwn
    /\ target' = Append(target, [how |-> "own", upto |-> 0, by |-> None])
    /\ UNCHANGED <<head, rows, stage, outcome>>

-----------------------------------------------------------------------------
(* Merging                                                                 *)

\* The pull request is open as the handler reads it, and its head is the one
\* the request names, if it names one.
StartMerge(q) ==
    /\ stage[q] = "new" /\ View = "open"
    /\ Expected[q] \in {None, head}
    /\ Goes(q, "git")
    /\ UNCHANGED <<branches, rows, outcome>>

\* Mutant of SameHead: the head is not compared again under the lock.
AnyHead(q) == head > 0

\* Mutant of SameHead: a head that is deleted is not missed.
SameHeadOrGone(q) == Expected[q] \in {None, head}

\* Under the lock the head is there, and still the one the request names.
SameHead(q) == head > 0 /\ Expected[q] \in {None, head}

\* What merging by m adds.  A squash is a commit of its own even where the
\* target could be forwarded.
Adds(q, m) ==
    [how |-> IF m # "squash" /\ Ahead THEN "forward"
             ELSE IF m = "merge" THEN "merge" ELSE "copy",
     upto |-> head, by |-> q]

\* A target that has the head already is left as it is.
MergeInto(q, m) ==
    target' = IF HasHead(head) THEN target ELSE Append(target, Adds(q, m))

GitMerge(q, m) ==
    /\ stage[q] = "git" /\ SameHead(q)
    /\ MergeInto(q, m)
    /\ outcome' = [outcome EXCEPT ![q] = [commit |-> Len(target'), head |-> head]]
    /\ Goes(q, "claim")
    /\ UNCHANGED <<head, rows>>

\* The head moved or is gone, or the trees conflict: nothing is written.
GitRefuses(q) ==
    /\ stage[q] = "git"
    /\ ~SameHead(q) \/ ("conflict" \in Trouble /\ ~HasHead(head))
    /\ Goes(q, "done")
    /\ UNCHANGED <<branches, rows, outcome>>

\* The target moves, and the request fails all the same.
GitMergeLate(q, m) ==
    /\ "late" \in Trouble
    /\ stage[q] = "git" /\ SameHead(q)
    /\ MergeInto(q, m)
    /\ Goes(q, "lost")
    /\ UNCHANGED <<head, rows, outcome>>

\* Mutant of MayClaim: the claim does not ask that the issue is open.
MayClaimAny == TRUE

MayClaim == status = "open"

\* Closing the issue, where it is open still, claims the merge; another
\* request may have claimed it, or closed the pull request.
Claim(q) ==
    /\ stage[q] = "claim" /\ MayClaim
    /\ status' = "closed" /\ closedBy' = q
    /\ overtaken' = (overtaken \/ \E r \in Reopeners : stage[r] = "write")
    /\ Goes(q, "record")
    /\ UNCHANGED <<branches, merged, linked, outcome>>

ClaimTaken(q) ==
    /\ stage[q] = "claim" /\ ~MayClaim
    /\ Goes(q, "done") /\ Forgets(q)
    /\ UNCHANGED <<branches, rows>>

RecordMerge(q) ==
    /\ stage[q] = "record"
    /\ merged' = outcome[q]
    /\ Goes(q, "follow") /\ Forgets(q)
    /\ UNCHANGED <<branches, status, closedBy, linked, overtaken>>

\* Mutant of RecordFails: the claim is not taken back.
RecordFailsClosed(q) ==
    /\ stage[q] = "record" /\ "record" \in Trouble
    /\ Goes(q, "done") /\ Forgets(q)
    /\ UNCHANGED <<branches, rows>>

RecordFails(q) ==
    /\ stage[q] = "record"
    /\ \/ "record" \in Trouble /\ UNCHANGED merged
       \/ "late" \in Trouble /\ merged' = outcome[q]
    /\ Goes(q, "reopen") /\ Forgets(q)
    /\ UNCHANGED <<branches, status, closedBy, linked, overtaken>>

\* The claim is taken back, whoever closed the issue since.
TakeBack(q) ==
    /\ stage[q] = "reopen"
    /\ Opens
    /\ overtaken' = (overtaken \/ merged # None)
    /\ Goes(q, "done")
    /\ UNCHANGED <<branches, merged, linked, outcome>>

\* The follow-ups of a recorded merge are tried once and may fail.
CloseLinkedIssues(q) ==
    /\ stage[q] = "follow"
    /\ linked' = "closed" \/ ("follow-up" \in Trouble /\ UNCHANGED linked)
    /\ Goes(q, "done")
    /\ UNCHANGED <<branches, status, closedBy, merged, outcome, overtaken>>

-----------------------------------------------------------------------------
(* Edits, and the head branch                                              *)

\* An edit that changes nothing, or that a merge refuses, writes no status.
ReadToClose(q) ==
    /\ stage[q] = "new" /\ View = "open"
    /\ Goes(q, "write")
    /\ UNCHANGED <<branches, rows, outcome>>

ReadToReopen(q) ==
    /\ stage[q] = "new" /\ View = "closed"
    /\ overtaken' = (overtaken \/ \E m \in Mergers : Claimed(m))
    /\ Goes(q, "write")
    /\ UNCHANGED <<branches, status, closedBy, merged, linked, outcome>>

\* The write does not ask whether what was read still holds.
WriteClosed(q) ==
    /\ stage[q] = "write"
    /\ status' = "closed" /\ closedBy' = q
    /\ Goes(q, "done")
    /\ UNCHANGED <<branches, merged, linked, outcome, overtaken>>

WriteOpen(q) ==
    /\ stage[q] = "write"
    /\ Opens
    /\ Goes(q, "done")
    /\ UNCHANGED <<branches, merged, linked, outcome, overtaken>>

DeleteHead(q) ==
    /\ stage[q] = "new" /\ head > 0
    /\ head' = 0
    /\ Goes(q, "list")
    /\ UNCHANGED <<target, rows, outcome>>

\* The open pull requests of the branch are listed, and each is read again
\* before it is closed.
ListHeads(q) ==
    /\ stage[q] = "list"
    /\ Goes(q, IF status = "open" THEN "find" ELSE "done")
    /\ UNCHANGED <<branches, rows, outcome>>

FindOpen(q) ==
    /\ stage[q] = "find"
    /\ Goes(q, IF View = "open" THEN "write" ELSE "done")
    /\ UNCHANGED <<branches, rows, outcome>>

\* The instance is killed; nothing resumes the request.
Killed(q) ==
    /\ "killed" \in Trouble /\ stage[q] \notin {"new", "done", "lost"}
    /\ Goes(q, "lost") /\ Forgets(q)
    /\ UNCHANGED <<branches, rows>>

MergeStep(q) ==
    \/ StartMerge(q)
    \/ \E m \in Methods : GitMerge(q, m) \/ GitMergeLate(q, m)
    \/ GitRefuses(q) \/ Claim(q) \/ ClaimTaken(q) \/ RecordMerge(q)
    \/ RecordFails(q) \/ TakeBack(q) \/ CloseLinkedIssues(q)

PullNext ==
    \/ PushHead \/ PushTarget
    \/ \E q \in Mergers : MergeStep(q)
    \/ \E q \in Closers : ReadToClose(q)
    \/ \E q \in Closers \cup Deleters : WriteClosed(q)
    \/ \E q \in Reopeners : ReadToReopen(q) \/ WriteOpen(q)
    \/ \E q \in Deleters : DeleteHead(q) \/ ListHeads(q) \/ FindOpen(q)
    \/ \E q \in Requests : Killed(q)

PullSpec == PullInit /\ [][PullNext]_pullVars

-----------------------------------------------------------------------------
(* Properties                                                              *)

Once == INSTANCE MergeOnce

\* However many requests merge, edit or delete at once, and wherever they
\* fail, the merge is recorded once, by a commit of the target that has the
\* head it names, and linked issues close only then (mergePullRequestBranches).
\* Only a reopening that a merge overtakes lets it be recorded again.
MergesOnce == Once!OnceSpec

\* A recorded merge leaves the issue row closed (thread-store.ts: "the issue
\* itself is then `closed`"), and no edit opens it again, unless it read the row
\* before the merge was recorded, or the record landed and failed.
MergedIsClosed == merged # None /\ ~overtaken => status = "closed"

\* A pull request is closed because its merge is recorded or because a user
\* closed it or deleted its head; a merge whose record failed leaves it open
\* for a retry.  Of requests cut short nothing is said.
NeverClosedUnmerged ==
    (\A q \in Requests : stage[q] \in {"new", "done"}) /\ status = "closed"
    => merged # None \/ closedBy \in Closers \cup Deleters

\* A merge that names the head it was reviewed at lands no other, whatever is
\* pushed between the request and the lock (mergeBranches' expectedHeadSha).
LandsReviewedHead ==
    \A i \in 1..Len(target) :
       target[i].by # None => Expected[target[i].by] \in {None, target[i].upto}

\* The merges of one pull request bring each of its commits to the target
\* once: of two, the other is "a no-op on git's side" (pull-request-store.ts).
LandsOnce ==
    \A i, j \in 1..Len(target) :
       i < j /\ target[i].by # None /\ target[j].by # None
       => target[i].upto < target[j].upto
=============================================================================
