----------------------------- MODULE Web_proofs -----------------------------
(***************************************************************************)
(* Proofs about PullMerge, LoginCodes, RateLimits and ReleaseAssets, for   *)
(* any number of requests, and whatever fails.  Each component has a typing*)
(* lemma and an invariant that says what a request in the middle of its    *)
(* statements may rely on.  Proofs about TreeMerge, for trees of any shape,*)
(* go by induction on how far down the trees reach.                        *)
(***************************************************************************)
EXTENDS Web, TreeMerge, WellFoundedInduction, SequenceTheorems, TLAPS

-----------------------------------------------------------------------------
(* Pull requests                                                           *)

\* What a merge adds is typed, and covers the head from then on.
LEMMA MergeAdds ==
    ASSUME PullTypeOK, NEW q \in Mergers, NEW m \in Methods, SameHead(q),
           MergeInto(q, m)
    PROVE  /\ target' \in Seq(Additions)
           /\ Len(target') >= Len(target)
           /\ \A i \in 1..Len(target) : target'[i] = target[i]
           /\ target' # target => Len(target') > Len(target)
           /\ \A i \in 1..Len(target') :
                 i \in 1..Len(target) \/ (target'[i].by = q /\ target'[i].upto = head)
           /\ Once!Covers(target', Len(target'), head)
<1> USE PullAssumption DEF PullTypeOK
<1>1. head \in 1..MaxHead
  BY DEF SameHead
<1>2. CASE HasHead(head)
  <2>1. target' = target
    BY <1>2 DEF MergeInto
  <2>2. Once!Covers(target', Len(target'), head)
    BY <1>2, <2>1, <1>1 DEF HasHead, Once!Covers
  <2> QED
    BY <2>1, <2>2
<1>3. CASE ~HasHead(head)
  <2> DEFINE added == Adds(q, m)
  <2>1. target' = Append(target, added)
    BY <1>3 DEF MergeInto
  <2>2. /\ added \in Additions /\ added.by = q /\ added.upto = head
        /\ added.how # "own"
    BY <1>1 DEF Adds, Additions
  <2> HIDE DEF added
  <2>3. /\ target' \in Seq(Additions) /\ Len(target') = Len(target) + 1
        /\ target'[Len(target) + 1] = added
        /\ \A i \in 1..Len(target) : target'[i] = target[i]
    BY <2>1, <2>2
  <2>4. Once!Covers(target', Len(target'), head)
    <3>1. Len(target') \in 1..Len(target') /\ target'[Len(target')] = added
      BY <2>3
    <3> QED
      BY <3>1, <2>2, <1>1 DEF Once!Covers
  <2> QED
    BY <2>2, <2>3, <2>4
<1> QED
  BY <1>2, <1>3

\* Rows, branches and requests keep their types.
THEOREM PullTyping == PullSpec => []PullTypeOK
<1> USE PullAssumption
<1>1. PullInit => PullTypeOK
  <2> SUFFICES ASSUME PullInit PROVE PullTypeOK
    OBVIOUS
  <2> USE DEF PullInit
  <2>1. head \in 0..MaxHead /\ target \in Seq(Additions)
    OBVIOUS
  <2>2. /\ status \in {"open", "closed"} /\ linked \in {"open", "closed"}
        /\ closedBy \in Requests \cup {None} /\ merged \in Merges \cup {None}
        /\ overtaken \in BOOLEAN
    OBVIOUS
  <2>3. /\ stage \in [Requests -> {"new", "git", "claim", "record", "reopen", "follow",
                                  "list", "find", "write", "done", "lost"}]
        /\ outcome \in [Mergers -> Merges \cup {None}]
    OBVIOUS
  <2> QED
    BY <2>1, <2>2, <2>3 DEF PullTypeOK
<1>2. PullTypeOK /\ [PullNext]_pullVars => PullTypeOK'
  <2> SUFFICES ASSUME PullTypeOK, [PullNext]_pullVars PROVE PullTypeOK'
    OBVIOUS
  <2> USE DEF Requests, rows, branches, Goes, Forgets
  <2>1. CASE PushHead
    BY <2>1 DEF PushHead, PullTypeOK
  <2>2. CASE PushTarget
    <3>1. [how |-> "own", upto |-> 0, by |-> None] \in Additions
      BY DEF Additions
    <3>2. target' \in Seq(Additions)
      BY <2>2, <3>1 DEF PushTarget, PullTypeOK
    <3> QED
      BY <2>2, <3>2 DEF PushTarget, PullTypeOK
  <2>3. ASSUME NEW q \in Mergers,
               StartMerge(q) \/ GitRefuses(q) \/ Claim(q) \/ ClaimTaken(q)
        PROVE  PullTypeOK'
    <3>1. CASE StartMerge(q) \/ GitRefuses(q)
      BY <3>1 DEF StartMerge, GitRefuses, PullTypeOK
    <3>2. CASE Claim(q)
      <4>1. overtaken' \in BOOLEAN
        BY <3>2 DEF Claim
      <4>2. /\ status' \in {"open", "closed"} /\ closedBy' \in Requests \cup {None}
            /\ UNCHANGED <<branches, merged, linked, outcome>>
        BY <3>2 DEF Claim
      <4>3. stage' \in [Requests -> {"new", "git", "claim", "record", "reopen", "follow",
                                    "list", "find", "write", "done", "lost"}]
        BY <3>2 DEF Claim, PullTypeOK
      <4> QED
        BY <4>1, <4>2, <4>3 DEF PullTypeOK
    <3>3. CASE ClaimTaken(q)
      BY <3>3 DEF ClaimTaken, PullTypeOK
    <3> QED
      BY <2>3, <3>1, <3>2, <3>3
  <2>4. ASSUME NEW q \in Mergers,
               RecordMerge(q) \/ RecordFails(q) \/ TakeBack(q) \/ CloseLinkedIssues(q)
        PROVE  PullTypeOK'
    <3>1. CASE RecordMerge(q) \/ RecordFails(q)
      BY <3>1 DEF RecordMerge, RecordFails, PullTypeOK
    <3>2. CASE TakeBack(q)
      <4>1. overtaken' \in BOOLEAN
        BY <3>2 DEF TakeBack
      <4> QED
        BY <3>2, <4>1 DEF TakeBack, Opens, PullTypeOK
    <3>3. CASE CloseLinkedIssues(q)
      BY <3>3 DEF CloseLinkedIssues, PullTypeOK
    <3> QED
      BY <2>4, <3>1, <3>2, <3>3
  <2>5. ASSUME NEW q \in Mergers, NEW m \in Methods, GitMerge(q, m)
        PROVE  PullTypeOK'
    <3>1. target' \in Seq(Additions)
      BY <2>5, MergeAdds DEF GitMerge
    <3>2. [commit |-> Len(target'), head |-> head] \in Merges
      BY <2>5, <3>1 DEF GitMerge, SameHead, Merges, PullTypeOK
    <3> QED
      BY <2>5, <3>1, <3>2 DEF GitMerge, PullTypeOK
  <2>6. ASSUME NEW q \in Mergers, NEW m \in Methods, GitMergeLate(q, m)
        PROVE  PullTypeOK'
    <3>1. target' \in Seq(Additions)
      BY <2>6, MergeAdds DEF GitMergeLate
    <3> QED
      BY <2>6, <3>1 DEF GitMergeLate, PullTypeOK
  <2>7. ASSUME NEW q \in Requests,
               ReadToClose(q) \/ ReadToReopen(q) \/ WriteClosed(q) \/ WriteOpen(q)
        PROVE  PullTypeOK'
    BY <2>7 DEF ReadToClose, ReadToReopen, WriteClosed, WriteOpen, Opens, PullTypeOK
  <2>8. ASSUME NEW q \in Requests,
               DeleteHead(q) \/ ListHeads(q) \/ FindOpen(q) \/ Killed(q)
        PROVE  PullTypeOK'
    BY <2>8 DEF DeleteHead, ListHeads, FindOpen, Killed, PullTypeOK
  <2>9. CASE UNCHANGED pullVars
    BY <2>9 DEF pullVars, PullTypeOK
  <2> QED
    BY <2>1, <2>2, <2>3, <2>4, <2>5, <2>6, <2>7, <2>8, <2>9 DEF PullNext, MergeStep
<1> QED
  BY <1>1, <1>2, PTL DEF PullSpec

\* What git told a merger holds of the target until it is recorded, and a merge
\* is recorded before its follow-ups.
CoveredInv ==
    \A q \in Mergers :
       /\ stage[q] \in {"claim", "record"} =>
             outcome[q] # None /\ Once!Covers(target, outcome[q].commit, outcome[q].head)
       /\ stage[q] = "follow" => merged # None

LEMMA CoversOn ==
    ASSUME PullTypeOK, target' \in Seq(Additions), Len(target') >= Len(target),
           \A i \in 1..Len(target) : target'[i] = target[i],
           NEW n \in Nat, NEW h \in Nat, Once!Covers(target, n, h)
    PROVE  Once!Covers(target', n, h)
BY DEF Once!Covers, PullTypeOK

LEMMA CoveredInvariant == PullSpec => []CoveredInv
<1> USE PullAssumption
<1>1. PullInit => CoveredInv
  BY DEF PullInit, CoveredInv, Requests
<1>2. PullTypeOK /\ CoveredInv /\ [PullNext]_pullVars => CoveredInv'
  <2> SUFFICES ASSUME PullTypeOK, CoveredInv, [PullNext]_pullVars PROVE CoveredInv'
    OBVIOUS
  <2> USE DEF Requests, rows, branches, Goes, Forgets
  <2>0. ASSUME UNCHANGED merged, UNCHANGED outcome,
               target' \in Seq(Additions), Len(target') >= Len(target),
               \A i \in 1..Len(target) : target'[i] = target[i],
               \A q \in Mergers : stage'[q] \in {"claim", "record"} =>
                                     stage[q] \in {"claim", "record"},
               \A q \in Mergers : stage'[q] = "follow" => stage[q] = "follow"
        PROVE  CoveredInv'
    <3> SUFFICES ASSUME NEW q \in Mergers, stage'[q] \in {"claim", "record"}
                 PROVE  Once!Covers(target', outcome[q].commit, outcome[q].head)
      BY <2>0 DEF CoveredInv
    <3>1. /\ outcome[q] # None
          /\ Once!Covers(target, outcome[q].commit, outcome[q].head)
      BY <2>0 DEF CoveredInv
    <3>2. outcome[q] \in Merges
      BY <3>1 DEF PullTypeOK
    <3>3. outcome[q].commit \in Nat /\ outcome[q].head \in Nat
      BY <3>2 DEF Merges
    <3> QED
      BY <2>0, <3>1, <3>3, CoversOn
  <2>1. CASE PushHead \/ UNCHANGED pullVars
    BY <2>1, <2>0 DEF PushHead, pullVars, PullTypeOK
  <2>2. CASE PushTarget
    <3> DEFINE added == [how |-> "own", upto |-> 0, by |-> None]
    <3>1. added \in Additions
      BY DEF Additions
    <3>2. target' = Append(target, added)
      BY <2>2 DEF PushTarget
    <3> HIDE DEF added
    <3>3. /\ target' \in Seq(Additions) /\ Len(target') >= Len(target)
          /\ \A i \in 1..Len(target) : target'[i] = target[i]
      BY <3>1, <3>2 DEF PullTypeOK
    <3> QED
      BY <2>2, <3>3, <2>0 DEF PushTarget
  <2>3. ASSUME NEW q \in Mergers, StartMerge(q) \/ GitRefuses(q) \/ Claim(q)
        PROVE  CoveredInv'
    BY <2>3, <2>0 DEF StartMerge, GitRefuses, Claim, PullTypeOK
  <2>4. ASSUME NEW q \in Mergers, ClaimTaken(q) \/ RecordMerge(q) \/ RecordFails(q)
        PROVE  CoveredInv'
    BY <2>4 DEF ClaimTaken, RecordMerge, RecordFails, CoveredInv, PullTypeOK
  <2>5. ASSUME NEW q \in Mergers, TakeBack(q) \/ CloseLinkedIssues(q) PROVE CoveredInv'
    BY <2>5, <2>0 DEF TakeBack, CloseLinkedIssues, PullTypeOK
  <2>6. ASSUME NEW q \in Mergers, NEW m \in Methods, GitMergeLate(q, m)
        PROVE  CoveredInv'
    BY <2>6, <2>0, MergeAdds DEF GitMergeLate, PullTypeOK
  <2>7. ASSUME NEW q \in Mergers, NEW m \in Methods, GitMerge(q, m)
        PROVE  CoveredInv'
    <3>1. /\ target' \in Seq(Additions) /\ Len(target') >= Len(target)
          /\ \A i \in 1..Len(target) : target'[i] = target[i]
          /\ Once!Covers(target', Len(target'), head)
      BY <2>7, MergeAdds DEF GitMerge
    <3>2. /\ outcome'[q] = [commit |-> Len(target'), head |-> head]
          /\ stage'[q] = "claim" /\ merged' = merged
          /\ \A r \in Mergers \ {q} : outcome'[r] = outcome[r] /\ stage'[r] = stage[r]
      BY <2>7 DEF GitMerge, PullTypeOK
    <3>3. Len(target') \in Nat /\ head \in Nat
      BY <3>1 DEF PullTypeOK
    <3>4. outcome'[q] # None
      BY <3>2, <3>3
    <3>5. ASSUME NEW r \in Mergers \ {q}, stage[r] \in {"claim", "record"}
          PROVE  Once!Covers(target', outcome[r].commit, outcome[r].head)
      <4>1. /\ outcome[r] # None
            /\ Once!Covers(target, outcome[r].commit, outcome[r].head)
        BY <3>5 DEF CoveredInv
      <4>2. outcome[r] \in Merges
        BY <4>1 DEF PullTypeOK
      <4>3. outcome[r].commit \in Nat /\ outcome[r].head \in Nat
        BY <4>2 DEF Merges
      <4> QED
        BY <3>1, <4>1, <4>3, CoversOn
    <3> QED
      BY <3>1, <3>2, <3>4, <3>5 DEF CoveredInv
  <2>8. ASSUME NEW q \in Requests \ Mergers,
               ReadToClose(q) \/ ReadToReopen(q) \/ WriteClosed(q) \/ WriteOpen(q)
        PROVE  CoveredInv'
    BY <2>8, <2>0 DEF ReadToClose, ReadToReopen, WriteClosed, WriteOpen, PullTypeOK
  <2>9. ASSUME NEW q \in Requests \ Mergers, DeleteHead(q) \/ ListHeads(q) \/ FindOpen(q)
        PROVE  CoveredInv'
    BY <2>9, <2>0 DEF DeleteHead, ListHeads, FindOpen, PullTypeOK
  <2>10. ASSUME NEW q \in Requests, Killed(q) PROVE CoveredInv'
    BY <2>10 DEF Killed, CoveredInv, PullTypeOK
  <2> QED
    BY <2>1, <2>2, <2>3, <2>4, <2>5, <2>6, <2>7, <2>8, <2>9, <2>10 DEF PullNext, MergeStep
<1> QED
  BY <1>1, <1>2, PullTyping, PTL DEF PullSpec

\* Unless it overtook a reopening, a claim is the only one, a reopening under way
\* meets neither a claim nor a record, and the row stays closed once recorded.
OneClaimInv == ~overtaken =>
    /\ \A q \in Mergers : Claimed(q) => status = "closed"
    /\ \A q \in Mergers : stage[q] = "record" => merged = None
    /\ \A q, r \in Mergers : Claimed(q) /\ Claimed(r) => q = r
    /\ \A r \in Reopeners : stage[r] = "write" =>
          merged = None /\ \A q \in Mergers : ~Claimed(q)
    /\ MergedIsClosed

LEMMA OneClaimInvariant == PullSpec => []OneClaimInv
<1> USE PullAssumption
<1>1. PullInit => OneClaimInv
  BY DEF PullInit, OneClaimInv, Requests, Claimed, MergedIsClosed
<1>2. PullTypeOK /\ OneClaimInv /\ [PullNext]_pullVars => OneClaimInv'
  <2> SUFFICES ASSUME PullTypeOK, OneClaimInv, [PullNext]_pullVars, ~overtaken'
               PROVE  OneClaimInv'
    BY DEF OneClaimInv
  <2> USE DEF Requests, rows, branches, Goes, Claimed, MergedIsClosed
  <2>1. CASE PushHead \/ PushTarget \/ UNCHANGED pullVars
    BY <2>1 DEF PushHead, PushTarget, pullVars, OneClaimInv
  <2>2. ASSUME NEW q \in Mergers, StartMerge(q) \/ GitRefuses(q) \/ ClaimTaken(q)
        PROVE  OneClaimInv'
    BY <2>2 DEF StartMerge, GitRefuses, ClaimTaken, OneClaimInv, PullTypeOK
  <2>3. ASSUME NEW q \in Mergers, NEW m \in Methods, GitMerge(q, m) \/ GitMergeLate(q, m)
        PROVE  OneClaimInv'
    BY <2>3 DEF GitMerge, GitMergeLate, OneClaimInv, PullTypeOK
  <2>4. ASSUME NEW q \in Mergers, Claim(q) PROVE OneClaimInv'
    BY <2>4 DEF Claim, MayClaim, OneClaimInv, PullTypeOK
  <2>5. ASSUME NEW q \in Mergers, RecordMerge(q) \/ RecordFails(q) PROVE OneClaimInv'
    BY <2>5 DEF RecordMerge, RecordFails, OneClaimInv, PullTypeOK
  <2>6. ASSUME NEW q \in Mergers, TakeBack(q) PROVE OneClaimInv'
    BY <2>6 DEF TakeBack, Opens, OneClaimInv, PullTypeOK
  <2>7. ASSUME NEW q \in Mergers, CloseLinkedIssues(q) PROVE OneClaimInv'
    BY <2>7 DEF CloseLinkedIssues, OneClaimInv, PullTypeOK
  <2>8. ASSUME NEW q \in Reopeners, ReadToReopen(q) PROVE OneClaimInv'
    BY <2>8 DEF ReadToReopen, View, OneClaimInv, PullTypeOK
  <2>9. ASSUME NEW q \in Reopeners, WriteOpen(q) PROVE OneClaimInv'
    BY <2>9 DEF WriteOpen, Opens, OneClaimInv, PullTypeOK
  <2>10. ASSUME NEW q \in Closers \cup Deleters, ReadToClose(q) \/ WriteClosed(q)
         PROVE  OneClaimInv'
    BY <2>10 DEF ReadToClose, WriteClosed, OneClaimInv, PullTypeOK
  <2>11. ASSUME NEW q \in Deleters, DeleteHead(q) \/ ListHeads(q) \/ FindOpen(q)
         PROVE  OneClaimInv'
    BY <2>11 DEF DeleteHead, ListHeads, FindOpen, OneClaimInv, PullTypeOK
  <2>12. ASSUME NEW q \in Requests, Killed(q) PROVE OneClaimInv'
    BY <2>12 DEF Killed, OneClaimInv, PullTypeOK
  <2> QED
    BY <2>1, <2>2, <2>3, <2>4, <2>5, <2>6, <2>7, <2>8, <2>9, <2>10, <2>11, <2>12
    DEF PullNext, MergeStep
<1> QED
  BY <1>1, <1>2, PullTyping, PTL DEF PullSpec

\* A recorded merge leaves its issue row closed, unless it overtook a reopening.
THEOREM MergedStaysClosed == PullSpec => []MergedIsClosed
<1>1. OneClaimInv => MergedIsClosed
  BY DEF OneClaimInv, MergedIsClosed
<1> QED
  BY <1>1, OneClaimInvariant, PTL

\* Merging implements MergeOnce: one record, of a commit that has the head it
\* names, and linked issues close after it.
THEOREM ImplementsMergeOnce == PullSpec => MergesOnce
<1> USE PullAssumption
<1>1. PullInit => Once!OnceInit
  BY DEF PullInit, Once!OnceInit
<1>2. /\ PullTypeOK /\ PullTypeOK' /\ CoveredInv /\ OneClaimInv
      /\ [PullNext]_pullVars
      => [Once!OnceNext]_(Once!pieces)
  <2> SUFFICES ASSUME PullTypeOK, PullTypeOK', CoveredInv, OneClaimInv,
                      [PullNext]_pullVars
               PROVE  Once!OnceNext \/ UNCHANGED Once!pieces
    OBVIOUS
  <2> USE DEF Requests, rows, branches, Once!OnceNext, Once!pieces
  <2>1. CASE PushHead \/ UNCHANGED pullVars
    BY <2>1 DEF PushHead, pullVars
  <2>2. CASE PushTarget
    BY <2>2 DEF PushTarget, Once!Extend, PullTypeOK
  <2>3. ASSUME NEW q \in Mergers, StartMerge(q) \/ GitRefuses(q) \/ ClaimTaken(q)
        PROVE  UNCHANGED Once!pieces
    BY <2>3 DEF StartMerge, GitRefuses, ClaimTaken
  <2>4. ASSUME NEW q \in Mergers, NEW m \in Methods, GitMerge(q, m) \/ GitMergeLate(q, m)
        PROVE  Once!Extend \/ UNCHANGED Once!pieces
    <3>1. SameHead(q) /\ MergeInto(q, m) /\ UNCHANGED <<merged, overtaken, linked>>
      BY <2>4 DEF GitMerge, GitMergeLate
    <3> QED
      BY <3>1, MergeAdds DEF Once!Extend
  <2>5. ASSUME NEW q \in Mergers, Claim(q) \/ TakeBack(q)
        PROVE  Once!Overtake \/ UNCHANGED Once!pieces
    <3>1. UNCHANGED <<target, merged, linked>>
      BY <2>5 DEF Claim, TakeBack
    <3>2. overtaken' = overtaken \/ overtaken' = TRUE
      <4>1. overtaken => overtaken'
        BY <2>5 DEF Claim, TakeBack
      <4> QED
        BY <4>1 DEF PullTypeOK
    <3> QED
      BY <3>1, <3>2 DEF Once!Overtake
  <2>6. ASSUME NEW q \in Mergers, RecordMerge(q) \/ RecordFails(q)
        PROVE  Once!Record \/ UNCHANGED Once!pieces
    <3>1. /\ outcome[q] # None
          /\ Once!Covers(target, outcome[q].commit, outcome[q].head)
          /\ merged = None \/ overtaken
      BY <2>6 DEF RecordMerge, RecordFails, CoveredInv, OneClaimInv
    <3>2. /\ merged' = outcome[q] \/ merged' = merged
          /\ UNCHANGED <<target, overtaken, linked>>
      BY <2>6 DEF RecordMerge, RecordFails
    <3> QED
      BY <3>1, <3>2 DEF Once!Record
  <2>7. ASSUME NEW q \in Mergers, CloseLinkedIssues(q)
        PROVE  Once!CloseIssues \/ UNCHANGED Once!pieces
    BY <2>7 DEF CloseLinkedIssues, CoveredInv, Once!CloseIssues
  <2>8. ASSUME NEW q \in Reopeners, ReadToReopen(q)
        PROVE  Once!Overtake \/ UNCHANGED Once!pieces
    <3>1. UNCHANGED <<target, merged, linked>>
      BY <2>8 DEF ReadToReopen
    <3>2. overtaken' = overtaken \/ overtaken' = TRUE
      <4>1. overtaken => overtaken'
        BY <2>8 DEF ReadToReopen
      <4> QED
        BY <4>1 DEF PullTypeOK
    <3> QED
      BY <3>1, <3>2 DEF Once!Overtake
  <2>9. ASSUME NEW q \in Requests, WriteOpen(q) \/ ReadToClose(q) \/ WriteClosed(q)
        PROVE  UNCHANGED Once!pieces
    BY <2>9 DEF WriteOpen, Opens, ReadToClose, WriteClosed
  <2>10. ASSUME NEW q \in Requests,
                DeleteHead(q) \/ ListHeads(q) \/ FindOpen(q) \/ Killed(q)
         PROVE  UNCHANGED Once!pieces
    BY <2>10 DEF DeleteHead, ListHeads, FindOpen, Killed
  <2> QED
    BY <2>1, <2>2, <2>3, <2>4, <2>5, <2>6, <2>7, <2>8, <2>9, <2>10
    DEF PullNext, MergeStep
<1> QED
  BY <1>1, <1>2, PullTyping, CoveredInvariant, OneClaimInvariant, PTL
  DEF PullSpec, MergesOnce, Once!OnceSpec

\* Who closed the row: a recorded merge, an edit, or a merge under way or lost.
ClosedInv == status = "closed" =>
    \/ merged # None
    \/ closedBy \in Closers \cup Deleters
    \/ closedBy \in Mergers /\ stage[closedBy] \in {"record", "reopen", "lost"}

\* A failed record leaves no pull request closed and unmerged for good: once
\* requests have ended, none of them cut short, a closed one is merged, or a
\* user closed it.
THEOREM ClosedForAReason == PullSpec => []NeverClosedUnmerged
<1> USE PullAssumption
<1>1. PullInit => ClosedInv
  BY DEF PullInit, ClosedInv
<1>2. PullTypeOK /\ CoveredInv /\ ClosedInv /\ [PullNext]_pullVars => ClosedInv'
  <2> SUFFICES ASSUME PullTypeOK, CoveredInv, ClosedInv, [PullNext]_pullVars
               PROVE  ClosedInv'
    OBVIOUS
  <2> USE DEF Requests, rows, branches, Goes
  <2>1. CASE PushHead \/ PushTarget \/ UNCHANGED pullVars
    BY <2>1 DEF PushHead, PushTarget, pullVars, ClosedInv
  <2>2. ASSUME NEW q \in Mergers, StartMerge(q) \/ GitRefuses(q) \/ ClaimTaken(q)
        PROVE  ClosedInv'
    BY <2>2 DEF StartMerge, GitRefuses, ClaimTaken, ClosedInv, PullTypeOK
  <2>3. ASSUME NEW q \in Mergers, NEW m \in Methods, GitMerge(q, m) \/ GitMergeLate(q, m)
        PROVE  ClosedInv'
    BY <2>3 DEF GitMerge, GitMergeLate, ClosedInv, PullTypeOK
  <2>4. ASSUME NEW q \in Mergers, Claim(q) \/ TakeBack(q) \/ CloseLinkedIssues(q)
        PROVE  ClosedInv'
    BY <2>4 DEF Claim, TakeBack, Opens, CloseLinkedIssues, CoveredInv, ClosedInv, PullTypeOK
  <2>5. ASSUME NEW q \in Mergers, RecordMerge(q) \/ RecordFails(q) PROVE ClosedInv'
    BY <2>5 DEF RecordMerge, RecordFails, CoveredInv, ClosedInv, PullTypeOK
  <2>6. ASSUME NEW q \in Requests \ Mergers, ReadToReopen(q) \/ WriteOpen(q)
        PROVE  ClosedInv'
    BY <2>6 DEF ReadToReopen, WriteOpen, Opens, ClosedInv, PullTypeOK
  <2>7. ASSUME NEW q \in Closers \cup Deleters, ReadToClose(q) \/ WriteClosed(q)
        PROVE  ClosedInv'
    BY <2>7 DEF ReadToClose, WriteClosed, ClosedInv, PullTypeOK
  <2>8. ASSUME NEW q \in Deleters, DeleteHead(q) \/ ListHeads(q) \/ FindOpen(q)
        PROVE  ClosedInv'
    BY <2>8 DEF DeleteHead, ListHeads, FindOpen, ClosedInv, PullTypeOK
  <2>9. ASSUME NEW q \in Requests, Killed(q) PROVE ClosedInv'
    BY <2>9 DEF Killed, ClosedInv, PullTypeOK
  <2> QED
    BY <2>1, <2>2, <2>3, <2>4, <2>5, <2>6, <2>7, <2>8, <2>9 DEF PullNext, MergeStep
<1>3. ClosedInv => NeverClosedUnmerged
  BY DEF ClosedInv, NeverClosedUnmerged, Requests
<1> QED
  BY <1>1, <1>2, <1>3, PullTyping, CoveredInvariant, PTL DEF PullSpec

\* A merge lands the head its request was reviewed at, or nothing.
THEOREM ReviewedHeadLands == PullSpec => []LandsReviewedHead
<1> USE PullAssumption
<1>1. PullInit => LandsReviewedHead
  BY DEF PullInit, LandsReviewedHead
<1>2. PullTypeOK /\ LandsReviewedHead /\ [PullNext]_pullVars => LandsReviewedHead'
  <2> SUFFICES ASSUME PullTypeOK, LandsReviewedHead, [PullNext]_pullVars
               PROVE  LandsReviewedHead'
    OBVIOUS
  <2>1. ASSUME NEW q \in Mergers, NEW m \in Methods, GitMerge(q, m) \/ GitMergeLate(q, m)
        PROVE  LandsReviewedHead'
    <3>1. SameHead(q) /\ MergeInto(q, m)
      BY <2>1 DEF GitMerge, GitMergeLate
    <3> QED
      BY <3>1, MergeAdds DEF SameHead, LandsReviewedHead
  <2>2. CASE PushTarget
    <3> DEFINE added == [how |-> "own", upto |-> 0, by |-> None]
    <3>1. target' = Append(target, added) /\ added.by = None
      BY <2>2 DEF PushTarget
    <3> HIDE DEF added
    <3> QED
      BY <3>1 DEF PullTypeOK, LandsReviewedHead
  <2>3. CASE UNCHANGED target
    BY <2>3 DEF LandsReviewedHead
  <2> QED
    BY <2>1, <2>2, <2>3 DEF PullNext, MergeStep, pullVars, branches, PushHead, StartMerge,
       GitRefuses, Claim, ClaimTaken, RecordMerge, RecordFails, TakeBack, CloseLinkedIssues,
       ReadToClose, ReadToReopen, WriteClosed, WriteOpen, DeleteHead, ListHeads, FindOpen,
       Killed
<1> QED
  BY <1>1, <1>2, PullTyping, PTL DEF PullSpec

\* Of two merges, the later brings nothing that the earlier brought, unless
\* that were copies, which nothing shows to be the head's commits.
OnlyCopiesLandAgain ==
    \A i, j \in 1..Len(target) :
       i < j /\ target[i].by # None /\ target[j].by # None
       => target[i].how = "copy" \/ target[i].upto < target[j].upto

\* What a merge brought is not other work.
MergesBringHead ==
    \A i \in 1..Len(target) : target[i].by # None => target[i].how # "own"

LandInv == MergesBringHead /\ OnlyCopiesLandAgain

LEMMA MergeLands ==
    ASSUME PullTypeOK, LandInv, NEW q \in Mergers, NEW m \in Methods, SameHead(q),
           MergeInto(q, m)
    PROVE  LandInv'
<1> USE PullAssumption DEF PullTypeOK
<1>1. CASE HasHead(head)
  BY <1>1 DEF MergeInto, LandInv, MergesBringHead, OnlyCopiesLandAgain
<1>2. CASE ~HasHead(head)
  <2> DEFINE added == Adds(q, m)
  <2>1. target' = Append(target, added)
    BY <1>2 DEF MergeInto
  <2>2. added.by = q /\ added.upto = head /\ added.how # "own"
    BY DEF Adds
  <2> HIDE DEF added
  <2>3. /\ Len(target') = Len(target) + 1 /\ Len(target) \in Nat
        /\ target'[Len(target) + 1] = added
        /\ \A i \in 1..Len(target) : target'[i] = target[i]
    BY <2>1
  <2>4. MergesBringHead'
    BY <2>2, <2>3 DEF LandInv, MergesBringHead
  <2>5. \A i \in 1..Len(target) :
           target[i].by # None => target[i].how = "copy" \/ target[i].upto < head
    <3> SUFFICES ASSUME NEW i \in 1..Len(target), target[i].by # None
                 PROVE  target[i].how = "copy" \/ target[i].upto < head
      OBVIOUS
    <3>1. target[i] \in Additions /\ target[i].how # "own"
      BY DEF LandInv, MergesBringHead
    <3>2. target[i].how \in {"forward", "merge"} => ~(target[i].upto >= head)
      BY <1>2 DEF HasHead
    <3> QED
      BY <3>1, <3>2 DEF Additions
  <2>6. OnlyCopiesLandAgain'
    <3> SUFFICES ASSUME NEW i \in 1..Len(target'), NEW j \in 1..Len(target'), i < j,
                        target'[i].by # None, target'[j].by # None
                 PROVE  target'[i].how = "copy" \/ target'[i].upto < target'[j].upto
      BY DEF OnlyCopiesLandAgain
    <3>1. i \in 1..Len(target) /\ target'[i] = target[i]
      BY <2>3
    <3>2. CASE j \in 1..Len(target)
      BY <2>3, <3>1, <3>2 DEF LandInv, OnlyCopiesLandAgain
    <3>3. CASE j = Len(target) + 1
      BY <2>2, <2>3, <2>5, <3>1, <3>3
    <3> QED
      BY <2>3, <3>2, <3>3
  <2> QED
    BY <2>4, <2>6 DEF LandInv
<1> QED
  BY <1>1, <1>2

\* How the target grows.
LEMMA TargetSteps ==
    ASSUME [PullNext]_pullVars
    PROVE  \/ UNCHANGED target
           \/ PushTarget
           \/ \E q \in Mergers, m \in Methods :
                 (GitMerge(q, m) \/ GitMergeLate(q, m)) /\ SameHead(q) /\ MergeInto(q, m)
  BY DEF PullNext, MergeStep, pullVars, branches, PushHead, StartMerge, GitMerge,
     GitMergeLate, GitRefuses, Claim, ClaimTaken, RecordMerge, RecordFails, TakeBack,
     CloseLinkedIssues, ReadToClose, ReadToReopen, WriteClosed, WriteOpen, DeleteHead,
     ListHeads, FindOpen, Killed

LEMMA LandInvariant == PullSpec => []LandInv
<1> USE PullAssumption
<1>1. PullInit => LandInv
  BY DEF PullInit, LandInv, MergesBringHead, OnlyCopiesLandAgain
<1>2. PullTypeOK /\ LandInv /\ [PullNext]_pullVars => LandInv'
  <2> SUFFICES ASSUME PullTypeOK, LandInv, [PullNext]_pullVars PROVE LandInv'
    OBVIOUS
  <2>1. CASE \E q \in Mergers, m \in Methods : SameHead(q) /\ MergeInto(q, m)
    BY <2>1, MergeLands
  <2>2. CASE PushTarget
    <3> DEFINE added == [how |-> "own", upto |-> 0, by |-> None]
    <3>1. target' = Append(target, added) /\ added.by = None
      BY <2>2 DEF PushTarget
    <3> HIDE DEF added
    <3>2. /\ Len(target') = Len(target) + 1 /\ Len(target) \in Nat
          /\ target'[Len(target) + 1] = added
          /\ \A i \in 1..Len(target) : target'[i] = target[i]
      BY <3>1 DEF PullTypeOK
    <3>3. \A i \in 1..Len(target') : target'[i].by # None
             => i \in 1..Len(target) /\ target'[i] = target[i]
      BY <3>1, <3>2
    <3> QED
      BY <3>3 DEF LandInv, MergesBringHead, OnlyCopiesLandAgain
  <2>3. CASE UNCHANGED target
    BY <2>3 DEF LandInv, MergesBringHead, OnlyCopiesLandAgain
  <2> QED
    BY <2>1, <2>2, <2>3, TargetSteps
<1> QED
  BY <1>1, <1>2, PullTyping, PTL DEF PullSpec

\* Of two merges of one pull request, in whatever order they and everything
\* else about it go, the later brings what the earlier brought only if that
\* were copies, squashed or rebased: otherwise it is the no-op on git's side
\* that mergePullRequestBranches takes it for.
THEOREM CopiesAloneLandAgain == PullSpec => []OnlyCopiesLandAgain
  BY LandInvariant, PTL DEF LandInv

\* Where only merge commits are allowed, each commit lands once.
THEOREM MergesLandOnce == Methods \subseteq {"merge"} => (PullSpec => []LandsOnce)
<1> SUFFICES ASSUME Methods \subseteq {"merge"} PROVE PullSpec => []LandsOnce
  OBVIOUS
<1> USE PullAssumption
<1> DEFINE NoCopies == \A i \in 1..Len(target) : target[i].how # "copy"
<1>1. PullInit => NoCopies
  BY DEF PullInit
<1>2. PullTypeOK /\ NoCopies /\ [PullNext]_pullVars => NoCopies'
  <2> SUFFICES ASSUME PullTypeOK, NoCopies, [PullNext]_pullVars PROVE NoCopies'
    OBVIOUS
  <2>1. ASSUME NEW added, added.how # "copy", target' = Append(target, added)
        PROVE  NoCopies'
    BY <2>1 DEF PullTypeOK
  <2>2. ASSUME NEW q \in Mergers, NEW m \in Methods, MergeInto(q, m)
        PROVE  NoCopies'
    <3>1. Adds(q, m).how # "copy"
      BY DEF Adds
    <3> QED
      BY <2>1, <2>2, <3>1 DEF MergeInto
  <2>3. CASE PushTarget
    <3>1. [how |-> "own", upto |-> 0, by |-> None].how # "copy"
      OBVIOUS
    <3> QED
      BY <2>1, <2>3, <3>1 DEF PushTarget
  <2>4. CASE UNCHANGED target
    BY <2>4
  <2> QED
    BY <2>2, <2>3, <2>4, TargetSteps
<1>3. NoCopies /\ OnlyCopiesLandAgain => LandsOnce
  BY DEF LandsOnce, OnlyCopiesLandAgain
<1> QED
  BY <1>1, <1>2, <1>3, PullTyping, CopiesAloneLandAgain, PTL DEF PullSpec

-----------------------------------------------------------------------------
(* Login codes                                                             *)

\* Rows, tokens and requests keep their types; a request at work has read the
\* row, and one that consumed it knows its user.
CodeTyped ==
    /\ CodeTypeOK
    /\ \A x \in Exchangers :
          /\ turn[x] # "idle" => seen[x] \in Rows
          /\ turn[x] = "issue" => seen[x].user \in Users
    /\ code # None /\ code.status = "approved" => code.user \in Users

LEMMA CodeTyping == CodeSpec => []CodeTyped
<1> USE CodeAssumption
<1>0. ASSUME NEW s \in {"pending", "approved"}, NEW u \in Users \cup {None}
      PROVE  NewRow(s, u) \in Rows
  BY DEF NewRow, Rows
<1>1. CodeInit => CodeTyped
  <2> SUFFICES ASSUME CodeInit PROVE CodeTyped
    OBVIOUS
  <2>1. /\ code \in Rows /\ kind \in {"device", "app"}
        /\ answered \subseteq [user : Users, approve : BOOLEAN]
        /\ code.status = "approved" => code.user \in Users
    <3>1. CASE CreateDeviceCode
      <4>1. code \in Rows
        BY <3>1, <1>0 DEF CreateDeviceCode
      <4>2. code.status = "pending" /\ kind = "device" /\ answered = {}
        BY <3>1 DEF CreateDeviceCode, NewRow
      <4> QED
        BY <4>1, <4>2
    <3>2. ASSUME NEW u \in Users, IssueAuthorizationCode(u)
          PROVE  /\ code \in Rows /\ kind = "app" /\ code.user \in Users
                 /\ answered \subseteq [user : Users, approve : BOOLEAN]
      <4>1. code = NewRow("approved", u) /\ NewRow("approved", u) \in Rows
        BY <3>2, <1>0 DEF IssueAuthorizationCode
      <4>2. code.user = u
        BY <4>1 DEF NewRow
      <4>3. kind = "app" /\ answered = {[user |-> u, approve |-> TRUE]}
        BY <3>2 DEF IssueAuthorizationCode
      <4>4. [user |-> u, approve |-> TRUE] \in [user : Users, approve : BOOLEAN]
        OBVIOUS
      <4> QED
        BY <4>1, <4>2, <4>3, <4>4
    <3> QED
      BY <3>1, <3>2 DEF CodeInit
  <2> QED
    BY <2>1 DEF CodeInit, CodeTyped, CodeTypeOK
<1>2. CodeTyped /\ [CodeNext]_codeVars => CodeTyped'
  <2> SUFFICES ASSUME CodeTyped, [CodeNext]_codeVars PROVE CodeTyped'
    OBVIOUS
  <2> USE DEF CodeTyped, CodeTypeOK, past, Ended, Turns
  <2>1. CASE Passes \/ UNCHANGED codeVars
    BY <2>1 DEF Passes, codeVars
  <2>2. CASE DropExpired
    BY <2>2 DEF DropExpired
  <2>3. ASSUME NEW u \in Users, NEW approve \in BOOLEAN, DecideDeviceCode(u, approve)
        PROVE  CodeTyped'
    <3> DEFINE s == IF approve THEN "approved" ELSE "denied"
    <3>1. s \in {"pending", "approved", "denied"}
      OBVIOUS
    <3>2. code \in Rows /\ code' = [code EXCEPT !.status = s, !.user = u]
      BY <2>3 DEF DecideDeviceCode, Decidable
    <3> HIDE DEF s
    <3>3. code' \in Rows /\ code'.user = u
      BY <3>1, <3>2 DEF Rows
    <3>4. [user |-> u, approve |-> approve] \in [user : Users, approve : BOOLEAN]
      OBVIOUS
    <3>5. answered' \subseteq [user : Users, approve : BOOLEAN]
      BY <2>3, <3>4 DEF DecideDeviceCode
    <3> QED
      BY <2>3, <3>3, <3>5 DEF DecideDeviceCode
  <2>4. ASSUME NEW x \in Exchangers, ReadCode(x) PROVE CodeTyped'
    BY <2>4 DEF ReadCode
  <2>5. ASSUME NEW x \in Exchangers, Gate(x) \/ GateShut(x) PROVE CodeTyped'
    <3>1. CASE Gate(x)
      <4>1. code \in Rows /\ code' = [code EXCEPT !.polled = clock]
        BY <3>1 DEF Gate
      <4>2. clock \in Nat
        OBVIOUS
      <4>3. code' \in Rows /\ code'.status = code.status /\ code'.user = code.user
        BY <4>1, <4>2 DEF Rows
      <4> QED
        BY <3>1, <4>1, <4>3 DEF Gate
    <3>2. CASE GateShut(x)
      BY <3>2 DEF GateShut
    <3> QED
      BY <2>5, <3>1, <3>2
  <2>6. ASSUME NEW x \in Exchangers, SlowDown(x) PROVE CodeTyped'
    <3>1. CASE code = None
      BY <2>6, <3>1 DEF SlowDown
    <3>2. CASE code # None
      <4>1. /\ code \in Rows
            /\ code' = [code EXCEPT !.polled = clock, !.interval = @ + SlowDownStep]
        BY <2>6, <3>2 DEF SlowDown
      <4>2. clock \in Nat /\ SlowDownStep \in Nat
        OBVIOUS
      <4>3. code.interval \in Nat /\ code.interval + SlowDownStep \in Nat
        BY <4>1, <4>2 DEF Rows
      <4>4. code' \in Rows
        BY <4>1, <4>2, <4>3 DEF Rows
      <4>5. code'.status = code.status /\ code'.user = code.user
        BY <4>1 DEF Rows
      <4> QED
        BY <2>6, <3>2, <4>2, <4>4, <4>5 DEF SlowDown
    <3> QED
      BY <3>1, <3>2
  <2>7. ASSUME NEW x \in Exchangers, Decide(x) PROVE CodeTyped'
    BY <2>7 DEF Decide
  <2>8. ASSUME NEW x \in Exchangers, Consume(x) PROVE CodeTyped'
    <3>1. CASE ~Consumable
      BY <2>8, <3>1 DEF Consume
    <3>2. CASE Consumable
      <4>1. /\ code \in Rows /\ code.user \in Users /\ seen[x] \in Rows
            /\ code' = [code EXCEPT !.used = TRUE]
            /\ seen' = [seen EXCEPT ![x].user = code.user]
        BY <2>8, <3>2 DEF Consume, Consumable
      <4>2. /\ code' \in Rows /\ code'.status = code.status /\ code'.user = code.user
            /\ seen'[x] \in Rows /\ seen'[x].user \in Users
            /\ seen' \in [Exchangers -> Rows \cup {None}]
            /\ \A y \in Exchangers \ {x} : seen'[y] = seen[y]
        BY <4>1 DEF Rows
      <4>3. /\ turn' = [turn EXCEPT ![x] = "issue"]
            /\ UNCHANGED <<clock, tokens, kind, answered, last, soon>>
        BY <2>8, <3>2 DEF Consume
      <4>4. \A y \in Exchangers \ {x} : turn'[y] = turn[y]
        BY <4>3
      <4>5. /\ turn'[x] = "issue"
            /\ turn' \in [Exchangers -> {"idle", "gate", "slow", "decide", "consume", "issue"}]
        BY <4>3
      <4>6. CodeTypeOK'
        BY <4>2, <4>3, <4>5 DEF CodeTypeOK
      <4>7. (\A y \in Exchangers :
                /\ turn[y] # "idle" => seen[y] \in Rows
                /\ turn[y] = "issue" => seen[y].user \in Users)'
        BY <4>2, <4>4, <4>5
      <4>8. (code # None /\ code.status = "approved" => code.user \in Users)'
        BY <4>1, <4>2
      <4> QED
        BY <4>6, <4>7, <4>8
    <3> QED
      BY <3>1, <3>2
  <2>9. ASSUME NEW x \in Exchangers, InsertToken(x) PROVE CodeTyped'
    BY <2>9 DEF InsertToken
  <2>10. ASSUME NEW x \in Exchangers, ExchangeFails(x) PROVE CodeTyped'
    BY <2>10 DEF ExchangeFails
  <2> QED
    BY <2>1, <2>2, <2>3, <2>4, <2>5, <2>6, <2>7, <2>8, <2>9, <2>10 DEF CodeNext
<1> QED
  BY <1>1, <1>2, PTL DEF CodeSpec

\* What the properties rest on.  A pending code has no answer yet; a request
\* about to insert a token is alone, and the code, if it is still there, used.
Approval(u) == [user |-> u, approve |-> TRUE]

DecidedOnce ==
    /\ \A d, e \in answered : d = e
    /\ code # None /\ code.status = "pending" => answered = {}
    /\ code # None /\ code.status = "approved" => Approval(code.user) \in answered

IssuedOnce ==
    /\ \A x \in Exchangers : turn[x] = "issue" =>
          /\ tokens = <<>> /\ (code # None => code.used)
          /\ Approval(seen[x].user) \in answered
    /\ \A x, y \in Exchangers : turn[x] = "issue" /\ turn[y] = "issue" => x = y
    /\ tokens # <<>> =>
          /\ Len(tokens) = 1 /\ (code # None => code.used)
          /\ Approval(tokens[1]) \in answered

\* A code is decided once, and yields one token at most, for the user whose
\* approval was answered with success.
THEOREM TokenForTheApproval == CodeSpec => []OneTokenPerCode
<1> USE CodeAssumption
<1>1. CodeInit => DecidedOnce /\ IssuedOnce
  <2> SUFFICES ASSUME CodeInit PROVE DecidedOnce /\ IssuedOnce
    OBVIOUS
  <2>1. IssuedOnce
    BY DEF CodeInit, IssuedOnce
  <2>2. CASE CreateDeviceCode
    <3>1. code.status = "pending" /\ answered = {}
      BY <2>2 DEF CreateDeviceCode, NewRow
    <3> QED
      BY <2>1, <3>1 DEF DecidedOnce
  <2>3. ASSUME NEW u \in Users, IssueAuthorizationCode(u) PROVE DecidedOnce
    <3>1. code.status = "approved" /\ code.user = u /\ answered = {Approval(u)}
      BY <2>3 DEF IssueAuthorizationCode, NewRow, Approval
    <3> QED
      BY <3>1 DEF DecidedOnce
  <2> QED
    BY <2>1, <2>2, <2>3 DEF CodeInit
<1>2. CodeTyped /\ DecidedOnce /\ IssuedOnce /\ [CodeNext]_codeVars
      => DecidedOnce' /\ IssuedOnce'
  <2> SUFFICES ASSUME CodeTyped, DecidedOnce, IssuedOnce, [CodeNext]_codeVars
               PROVE  DecidedOnce' /\ IssuedOnce'
    OBVIOUS
  <2> USE DEF CodeTyped, CodeTypeOK, DecidedOnce, IssuedOnce, past, Ended, Turns
  <2>1. CASE Passes \/ UNCHANGED codeVars
    BY <2>1 DEF Passes, codeVars
  <2>2. CASE DropExpired
    BY <2>2 DEF DropExpired
  <2>3. ASSUME NEW u \in Users, NEW approve \in BOOLEAN, DecideDeviceCode(u, approve)
        PROVE  DecidedOnce' /\ IssuedOnce'
    <3>1. /\ code \in Rows /\ answered = {}
          /\ answered' = {[user |-> u, approve |-> approve]}
          /\ UNCHANGED <<tokens, seen, turn>>
      BY <2>3 DEF DecideDeviceCode, Decidable
    <3>2. /\ code'.used = code.used /\ code'.user = u
          /\ code'.status = IF approve THEN "approved" ELSE "denied"
      BY <2>3, <3>1 DEF DecideDeviceCode, Rows
    <3>3. tokens = <<>> /\ \A x \in Exchangers : turn[x] # "issue"
      BY <3>1
    <3>4. DecidedOnce'
      BY <3>1, <3>2 DEF Approval
    <3>5. IssuedOnce'
      BY <3>1, <3>3
    <3> QED
      BY <3>4, <3>5
  <2>4. ASSUME NEW x \in Exchangers, ReadCode(x) PROVE DecidedOnce' /\ IssuedOnce'
    BY <2>4 DEF ReadCode
  <2>5. ASSUME NEW x \in Exchangers, Gate(x) \/ SlowDown(x)
        PROVE  DecidedOnce' /\ IssuedOnce'
    <3>1. CASE code = None
      BY <2>5, <3>1 DEF Gate, SlowDown
    <3>2. CASE code # None
      <4>1. /\ code'.status = code.status /\ code'.user = code.user
            /\ code'.used = code.used
        BY <2>5, <3>2 DEF Gate, SlowDown, Rows
      <4>2. /\ UNCHANGED <<tokens, answered>>
            /\ \A y \in Exchangers : turn'[y] = "issue" => turn[y] = "issue" /\ seen'[y] = seen[y]
        BY <2>5 DEF Gate, SlowDown
      <4> QED
        BY <3>2, <4>1, <4>2
    <3> QED
      BY <3>1, <3>2
  <2>6. ASSUME NEW x \in Exchangers, GateShut(x) \/ Decide(x)
        PROVE  DecidedOnce' /\ IssuedOnce'
    BY <2>6 DEF GateShut, Decide
  <2>7. ASSUME NEW x \in Exchangers, Consume(x) PROVE DecidedOnce' /\ IssuedOnce'
    <3>1. CASE ~Consumable
      BY <2>7, <3>1 DEF Consume
    <3>2. CASE Consumable
      <4>1. /\ code \in Rows /\ code.status = "approved" /\ ~code.used
            /\ code' = [code EXCEPT !.used = TRUE] /\ UNCHANGED <<tokens, answered>>
            /\ seen' = [seen EXCEPT ![x].user = code.user] /\ seen[x] \in Rows
            /\ turn' = [turn EXCEPT ![x] = "issue"]
        BY <2>7, <3>2 DEF Consume, Consumable
      <4>2. /\ code'.used /\ code'.user = code.user
            /\ code'.status = "approved"
        BY <4>1 DEF Rows
      <4>3. tokens = <<>> /\ \A y \in Exchangers : turn[y] # "issue"
        BY <4>1, <3>2 DEF Consumable
      <4>4. seen'[x].user = code.user /\ Approval(code.user) \in answered
        BY <4>1, <3>2 DEF Rows, Consumable
      <4>5. \A y \in Exchangers : turn'[y] = "issue" => y = x
        BY <4>1, <4>3
      <4> QED
        BY <4>1, <4>2, <4>3, <4>4, <4>5
    <3> QED
      BY <3>1, <3>2
  <2>8. ASSUME NEW x \in Exchangers, InsertToken(x) PROVE DecidedOnce' /\ IssuedOnce'
    <3>0. /\ tokens = <<>> /\ (code # None => code.used)
          /\ Approval(seen[x].user) \in answered /\ UNCHANGED <<code, answered>>
          /\ tokens' = Append(tokens, seen[x].user)
      BY <2>8 DEF InsertToken
    <3>1. tokens' # <<>> /\ Len(tokens') = 1 /\ tokens'[1] = seen[x].user
      BY <3>0
    <3>2. \A y \in Exchangers : turn'[y] # "issue"
      BY <2>8 DEF InsertToken
    <3> QED
      BY <3>0, <3>1, <3>2
  <2>9. ASSUME NEW x \in Exchangers, ExchangeFails(x) PROVE DecidedOnce' /\ IssuedOnce'
    BY <2>9 DEF ExchangeFails
  <2> QED
    BY <2>1, <2>2, <2>3, <2>4, <2>5, <2>6, <2>7, <2>8, <2>9 DEF CodeNext
<1>3. CodeTyped /\ DecidedOnce /\ IssuedOnce => OneTokenPerCode
  <2> SUFFICES ASSUME CodeTyped, DecidedOnce, IssuedOnce PROVE OneTokenPerCode
    OBVIOUS
  <2>1. CASE tokens = <<>>
    BY <2>1 DEF OneTokenPerCode, DecidedOnce
  <2>2. CASE tokens # <<>>
    <3>1. Len(tokens) = 1 /\ Approval(tokens[1]) \in answered
      BY <2>2 DEF IssuedOnce
    <3>2. \A i \in 1..Len(tokens) : i = 1
      BY <3>1
    <3> QED
      BY <3>1, <3>2 DEF OneTokenPerCode, DecidedOnce, Approval
  <2> QED
    BY <2>1, <2>2
<1> QED
  BY <1>1, <1>2, <1>3, CodeTyping, PTL DEF CodeSpec

\* The row holds when it was polled last, and what all the polls too soon add up to.
PollsCounted == code # None =>
    code.polled = last /\ code.interval = Interval + SlowDownStep * soon

\* Of racing polls one passes the gate an interval after any other, and every
\* slow-down counts.
THEOREM PollsApart == CodeSpec => PollsKeepInterval
<1> USE CodeAssumption
<1>1. CodeInit => PollsCounted
  BY DEF CodeInit, CreateDeviceCode, IssueAuthorizationCode, NewRow, PollsCounted
<1>2. CodeTyped /\ PollsCounted /\ [CodeNext]_codeVars => PollsCounted'
  <2> SUFFICES ASSUME CodeTyped, PollsCounted, [CodeNext]_codeVars PROVE PollsCounted'
    OBVIOUS
  <2> USE DEF CodeTyped, CodeTypeOK, PollsCounted, past, Ended, Turns
  <2>1. CASE Passes \/ DropExpired \/ UNCHANGED codeVars
    BY <2>1 DEF Passes, DropExpired, codeVars
  <2>2. ASSUME NEW u \in Users, NEW approve \in BOOLEAN, DecideDeviceCode(u, approve)
        PROVE  PollsCounted'
    <3>1. /\ code \in Rows /\ UNCHANGED <<last, soon>>
          /\ code'.polled = code.polled /\ code'.interval = code.interval
      BY <2>2 DEF DecideDeviceCode, Decidable, Rows
    <3> QED
      BY <2>2, <3>1 DEF Decidable, DecideDeviceCode
  <2>3. ASSUME NEW x \in Exchangers, Gate(x) PROVE PollsCounted'
    BY <2>3 DEF Gate, Rows
  <2>4. ASSUME NEW x \in Exchangers, SlowDown(x) PROVE PollsCounted'
    <3>1. CASE code = None
      BY <2>4, <3>1 DEF SlowDown
    <3>2. CASE code # None
      <4>1. /\ code \in Rows /\ last' = clock /\ soon' = soon + 1
            /\ code' = [code EXCEPT !.polled = clock, !.interval = @ + SlowDownStep]
        BY <2>4, <3>2 DEF SlowDown
      <4>2. code'.polled = clock /\ code'.interval = code.interval + SlowDownStep
        BY <4>1 DEF Rows
      <4>3. SlowDownStep * (soon + 1) = SlowDownStep * soon + SlowDownStep
        <5>1. SlowDownStep \in Int /\ soon \in Int
          OBVIOUS
        <5> QED
          BY ONLY <5>1
      <4>4. Interval \in Int /\ SlowDownStep \in Int /\ SlowDownStep * soon \in Int
        OBVIOUS
      <4> QED
        BY <3>2, <4>1, <4>2, <4>3, <4>4
    <3> QED
      BY <3>1, <3>2
  <2>5. ASSUME NEW x \in Exchangers, Consume(x) PROVE PollsCounted'
    BY <2>5 DEF Consume, Consumable, Rows
  <2>6. ASSUME NEW x \in Exchangers,
               ReadCode(x) \/ GateShut(x) \/ Decide(x) \/ InsertToken(x) \/ ExchangeFails(x)
        PROVE  PollsCounted'
    BY <2>6 DEF ReadCode, GateShut, Decide, InsertToken, ExchangeFails
  <2> QED
    BY <2>1, <2>2, <2>3, <2>4, <2>5, <2>6 DEF CodeNext
<1>3. CodeTyped /\ PollsCounted /\ [CodeNext]_codeVars =>
        [\A x \in Exchangers :
            turn[x] = "gate" /\ turn'[x] = "decide" /\ last # None
            => clock >= last + Interval + SlowDownStep * soon]_codeVars
  <2> SUFFICES ASSUME CodeTyped, PollsCounted, CodeNext,
                      NEW x \in Exchangers,
                      turn[x] = "gate", turn'[x] = "decide", last # None
               PROVE  clock >= last + Interval + SlowDownStep * soon
    BY DEF codeVars
  <2> USE DEF CodeTyped, CodeTypeOK, past, Ended, Turns
  <2>1. Gate(x)
    <3>1. \A y \in Exchangers : ~Gate(y) /\ turn'[x] = "decide" => turn[x] # "gate" \/ \E z \in Exchangers : Gate(z)
      BY DEF CodeNext, Passes, DropExpired, DecideDeviceCode, ReadCode, GateShut, SlowDown,
         Decide, Consume, InsertToken, ExchangeFails
    <3> QED
      BY <3>1 DEF Gate
  <2>2. code # None /\ code.polled = last /\ code.polled + code.interval <= clock
    BY <2>1 DEF Gate, Admits, PollsCounted
  <2>3. /\ last \in Int /\ clock \in Int /\ Interval \in Int
        /\ SlowDownStep \in Int /\ soon \in Int /\ SlowDownStep * soon \in Int
    BY <2>2
  <2> QED
    BY <2>2, <2>3 DEF PollsCounted
<1> QED
  BY <1>1, <1>2, <1>3, CodeTyping, PTL DEF CodeSpec, PollsKeepInterval

-----------------------------------------------------------------------------
(* Rate limits                                                             *)

CountedRows == [count : Nat, start : Nat]

LEMMA CountedRow ==
    ASSUME NEW row \in Counters, NEW window \in Nat, NEW amount \in Nat, now \in Nat
    PROVE  /\ Counted(row, window, amount) \in CountedRows
           /\ WindowOver(row, window)
              => Counted(row, window, amount) = [count |-> amount, start |-> now]
           /\ ~WindowOver(row, window)
              => /\ Counted(row, window, amount).start = row.start
                 /\ Counted(row, window, amount).count = row.count + amount
<1> USE RateAssumption
<1>1. CASE WindowOver(row, window)
  <2>1. Counted(row, window, amount) = [count |-> amount, start |-> now]
    BY <1>1 DEF Counted, WindowOver
  <2> QED
    BY <1>1, <2>1 DEF CountedRows
<1>2. CASE ~WindowOver(row, window)
  <2>1. /\ row \in CountedRows
        /\ Counted(row, window, amount) = [row EXCEPT !.count = @ + amount]
    BY <1>2 DEF Counted, WindowOver, Counters, CountedRows
  <2>2. row.count + amount \in Nat
    BY <2>1 DEF CountedRows
  <2> QED
    BY <1>2, <2>1, <2>2 DEF CountedRows
<1> QED
  BY <1>1, <1>2

LEMMA CountOne ==
    ASSUME RateTypeOK, NEW k \in RateKeys, NEW amount \in Nat, Count(k, amount)
    PROVE  /\ counter' \in [RateKeys -> Counters] /\ ledger' \in [RateKeys -> Counters]
           /\ counter'[k] = Counted(counter[k], Window[k], amount)
           /\ ledger'[k] = Counted(ledger[k], Window[k], amount)
           /\ counter'[k] \in CountedRows /\ ledger'[k] \in CountedRows
           /\ \A l \in RateKeys \ {k} : counter'[l] = counter[l] /\ ledger'[l] = ledger[l]
           /\ cut' \in SUBSET AuthKeys
<1> USE RateAssumption
<1>1. /\ counter' = [counter EXCEPT ![k] = Counted(counter[k], Window[k], amount)]
      /\ ledger' = [ledger EXCEPT ![k] = Counted(ledger[k], Window[k], amount)]
      /\ cut' \in {cut, cut \ {k}}
  BY DEF Count
<1>2. now \in Nat /\ counter[k] \in Counters /\ ledger[k] \in Counters /\ Window[k] \in Nat
  BY DEF RateTypeOK
<1>3. /\ Counted(counter[k], Window[k], amount) \in CountedRows
      /\ Counted(ledger[k], Window[k], amount) \in CountedRows
  BY <1>2, CountedRow
<1>4. CountedRows \subseteq Counters
  BY DEF CountedRows, Counters
<1> QED
  BY <1>1, <1>3, <1>4 DEF RateTypeOK

\* A prune is sent with what its instance has served by then.
LEMMA PruneIsSent ==
    ASSUME RateTypeOK, NEW i \in Instances, NEW window \in Nat, MayPrune(i, window),
           served' \in [Instances -> SUBSET AuthKeys]
    PROVE  /\ prunedAt' \in [Instances -> Nat \cup {None}]
           /\ pruning' \in [Instances -> Nat \cup {None}]
           /\ sent' \in [Instances -> SUBSET AuthKeys]
           /\ \A j \in Instances \ {i} : pruning'[j] = pruning[j] /\ sent'[j] = sent[j]
           /\ \/ pruning'[i] = pruning[i] /\ sent'[i] = sent[i]
              \/ pruning'[i] = window /\ sent'[i] = served'[i]
<1>1. /\ now \in Nat /\ prunedAt \in [Instances -> Nat \cup {None}]
      /\ pruning \in [Instances -> Nat \cup {None}] /\ sent \in [Instances -> SUBSET AuthKeys]
  BY DEF RateTypeOK
<1>2. \/ UNCHANGED <<prunedAt, pruning, sent>>
      \/ /\ prunedAt' = [prunedAt EXCEPT ![i] = now]
         /\ pruning' = [pruning EXCEPT ![i] = window]
         /\ sent' = [sent EXCEPT ![i] = served'[i]]
  BY DEF MayPrune
<1> QED
  BY <1>1, <1>2

\* Whole seconds, and what rounding to them may add.
LEMMA WholeSeconds ==
    ASSUME NEW time \in Nat
    PROVE  /\ time \div Second \in Nat
           /\ Second * (time \div Second) <= time
           /\ time < Second * (time \div Second) + Second
<1>1. Second \in Nat \ {0}
  BY RateAssumption
<1> QED
  BY <1>1, Z3

LEMMA SecondsGrow ==
    ASSUME NEW a \in Nat, NEW b \in Nat, a <= b
    PROVE  a \div Second <= b \div Second
<1>1. Second \in Nat \ {0}
  BY RateAssumption
<1> DEFINE p == a \div Second
           q == b \div Second
<1>2. /\ p \in Nat /\ q \in Nat
      /\ Second * p <= a /\ b < Second * q + Second
  BY WholeSeconds
<1> HIDE DEF p, q
<1>3. SUFFICES ASSUME q + 1 <= p PROVE FALSE
  BY <1>2 DEF p, q
<1>4. Second * (q + 1) <= Second * p
  BY <1>1, <1>2, <1>3, Z3
<1> QED
  BY <1>1, <1>2, <1>4, Z3

LEMMA RoundedTime ==
    ASSUME NEW a \in Nat
    PROVE  /\ Rounded(a) \in Nat
           /\ \A b \in Nat : a <= b => Rounded(a) <= Rounded(b)
           /\ \A b \in Nat : b \div Second < Rounded(a) => 2 * b < 2 * a + Second
<1> DEFINE half == Second \div 2
<1>1. half \in Nat /\ 2 * half <= Second /\ Second \in Nat
  BY RateAssumption
<1> HIDE DEF half
<1>2. \A b \in Nat : Rounded(b) = (b + half) \div Second /\ b + half \in Nat
  BY <1>1 DEF Rounded, half
<1>3. Rounded(a) \in Nat
  BY <1>2, WholeSeconds
<1>4. ASSUME NEW b \in Nat, a <= b PROVE Rounded(a) <= Rounded(b)
  <2>1. a + half <= b + half
    BY <1>1, <1>4
  <2> QED
    BY <1>2, <2>1, SecondsGrow
<1>5. ASSUME NEW b \in Nat, b \div Second < Rounded(a) PROVE 2 * b < 2 * a + Second
  <2>1. CASE b < a + half
    BY <1>1, <2>1
  <2>2. CASE a + half <= b
    <3>1. Rounded(a) <= b \div Second
      BY <1>2, <2>2, SecondsGrow
    <3> QED
      BY <1>3, <1>5, <3>1, WholeSeconds
  <2> QED
    BY <1>1, <2>1, <2>2
<1> QED
  BY <1>3, <1>4, <1>5

LEMMA RateTyping == RateSpec => []RateTypeOK
<1> USE RateAssumption
<1>1. RateInit => RateTypeOK
  BY DEF RateInit, RateTypeOK, Counters
<1>2. RateTypeOK /\ [RateNext]_rateVars => RateTypeOK'
  <2> SUFFICES ASSUME RateTypeOK, [RateNext]_rateVars PROVE RateTypeOK'
    OBVIOUS
  <2>1. CASE Elapses \/ UNCHANGED rateVars
    <3>1. prunedAt' \in [Instances -> Nat \cup {None}]
      BY <2>1 DEF Elapses, rateVars, RateTypeOK
    <3> QED
      BY <2>1, <3>1 DEF Elapses, rateVars, RateTypeOK
  <2>2. ASSUME NEW i \in Instances, NEW k \in RateKeys, ConsumeAuth(i, k) PROVE RateTypeOK'
    <3>1. HighWater(i, k) \in Nat
      BY DEF HighWater, RateTypeOK
    <3>2. /\ Count(k, 1) /\ MayPrune(i, HighWater(i, k)) /\ UNCHANGED <<now, exhausted, spent>>
          /\ longest' = [longest EXCEPT ![i] = HighWater(i, k)]
          /\ served' = [served EXCEPT ![i] = @ \cup {l \in AuthKeys : Window[l] <= Window[k]}] /\ k \in AuthKeys
      BY <2>2 DEF ConsumeAuth
    <3>3. served' \in [Instances -> SUBSET AuthKeys]
      BY <3>2 DEF RateTypeOK
    <3> QED
      BY <3>1, <3>2, <3>3, PruneIsSent, CountOne DEF RateTypeOK
  <2>3. ASSUME NEW i \in Instances, NEW k \in RateKeys, NEW n \in Amounts, HitRateLimit(i, k, n)
        PROVE  RateTypeOK'
    <3>1. /\ k \in RequestKeys
          /\ Count(k, n) /\ MayPrune(i, longest[i]) /\ UNCHANGED <<now, longest, served>>
          /\ exhausted' = [exhausted EXCEPT ![i][k] =
                              IF counter'[k].count > Limit[k] THEN ResetOf(k) ELSE None]
          /\ spent' = [spent EXCEPT ![k] =
                          IF ledger'[k].count > Limit[k] THEN EndOf(ledger'[k], k) ELSE @]
      BY <2>3 DEF HitRateLimit
    <3>2. counter'[k] \in CountedRows /\ ledger'[k] \in CountedRows /\ Window[k] \in Nat
      BY <3>1, CountOne
    <3>3. EndOf(counter'[k], k) \in Nat /\ EndOf(ledger'[k], k) \in Nat
      BY <3>2 DEF EndOf, CountedRows
    <3>4. ResetOf(k) \in Nat
      BY <3>3, RoundedTime DEF ResetOf
    <3>5. exhausted' \in [Instances -> [RequestKeys -> Nat \cup {None}]]
      BY <3>1, <3>4 DEF RateTypeOK
    <3>6. spent' \in [RequestKeys -> Nat \cup {None}]
      BY <3>1, <3>3 DEF RateTypeOK
    <3>7. longest[i] \in Nat /\ served' \in [Instances -> SUBSET AuthKeys]
      BY <3>1 DEF RateTypeOK
    <3>8. /\ prunedAt' \in [Instances -> Nat \cup {None}]
          /\ pruning' \in [Instances -> Nat \cup {None}]
          /\ sent' \in [Instances -> SUBSET AuthKeys]
      BY <3>1, <3>7, PruneIsSent
    <3>9. /\ counter' \in [RateKeys -> Counters] /\ ledger' \in [RateKeys -> Counters]
          /\ cut' \in SUBSET AuthKeys
      BY <3>1, CountOne
    <3> QED
      BY <3>1, <3>5, <3>6, <3>7, <3>8, <3>9 DEF RateTypeOK
  <2>4. ASSUME NEW i \in Instances, PruneLands(i) \/ PruneFails(i) \/ Restart(i)
        PROVE  RateTypeOK'
    <3>1. CASE PruneLands(i)
      <4>1. \A k \in RateKeys : counter'[k] \in Counters
        BY <3>1 DEF PruneLands, RateTypeOK, Counters
      <4>2. counter' \in [RateKeys -> Counters]
        BY <3>1, <4>1 DEF PruneLands
      <4>3. cut' \in SUBSET AuthKeys /\ sent' \in [Instances -> SUBSET AuthKeys]
        BY <3>1 DEF PruneLands, RateTypeOK
      <4> QED
        BY <3>1, <4>2, <4>3 DEF PruneLands, RateTypeOK
    <3>2. CASE PruneFails(i)
      BY <3>2 DEF PruneFails, RateTypeOK
    <3>3. CASE Restart(i)
      <4>1. [k \in RequestKeys |-> None] \in [RequestKeys -> Nat \cup {None}]
        OBVIOUS
      <4>2. exhausted' \in [Instances -> [RequestKeys -> Nat \cup {None}]]
        BY <3>3, <4>1 DEF Restart, RateTypeOK
      <4>3. /\ longest' \in [Instances -> Nat]
            /\ prunedAt' \in [Instances -> Nat \cup {None}]
            /\ served' \in [Instances -> SUBSET AuthKeys]
        BY <3>3 DEF Restart, RateTypeOK
      <4> QED
        BY <3>3, <4>2, <4>3 DEF Restart, RateTypeOK
    <3> QED
      BY <2>4, <3>1, <3>2, <3>3
  <2> QED
    BY <2>1, <2>2, <2>3, <2>4 DEF RateNext
<1> QED
  BY <1>1, <1>2, PTL DEF RateSpec

\* An instance prunes by no less than any window it had served when it sent its
\* prune, and by nothing if it had served none.
WindowsSeen(window, keys) ==
    /\ window > 0 => keys # {}
    /\ \A l \in keys : Window[l] <= window

HighWaterInv == \A i \in Instances :
    /\ WindowsSeen(longest[i], served[i])
    /\ pruning[i] # None => WindowsSeen(pruning[i], sent[i])

LEMMA HighWaterMark == RateSpec => []HighWaterInv
<1> USE RateAssumption
<1>1. RateInit => HighWaterInv
  BY DEF RateInit, HighWaterInv, WindowsSeen
<1>2. RateTypeOK /\ HighWaterInv /\ [RateNext]_rateVars => HighWaterInv'
  <2> SUFFICES ASSUME RateTypeOK, HighWaterInv, [RateNext]_rateVars, NEW j \in Instances
               PROVE  /\ WindowsSeen(longest'[j], served'[j])
                      /\ pruning'[j] # None => WindowsSeen(pruning'[j], sent'[j])
    BY DEF HighWaterInv, WindowsSeen
  <2> DEFINE Seen == /\ WindowsSeen(longest'[j], served'[j])
                     /\ pruning'[j] # None => WindowsSeen(pruning'[j], sent'[j])
  <2>0. /\ WindowsSeen(longest[j], served[j])
        /\ pruning[j] # None => WindowsSeen(pruning[j], sent[j])
    BY DEF HighWaterInv
  <2>1. ASSUME NEW i \in Instances, NEW k \in RateKeys, ConsumeAuth(i, k)
        PROVE  Seen
    <3>1. /\ k \in AuthKeys /\ Window[k] \in Nat /\ longest[i] \in Nat
          /\ served[i] \subseteq AuthKeys /\ \A l \in AuthKeys : Window[l] \in Nat
      BY <2>1 DEF ConsumeAuth, RateKeys, RateTypeOK
    <3>2. /\ HighWater(i, k) \in Nat
          /\ Window[k] <= HighWater(i, k) /\ longest[i] <= HighWater(i, k)
      BY <3>1 DEF HighWater
    <3>3. WindowsSeen(longest[i], served[i])
      BY DEF HighWaterInv
    <3> DEFINE shorter == {l \in AuthKeys : Window[l] <= Window[k]}
    <3>4. WindowsSeen(HighWater(i, k), served[i] \cup shorter)
      BY <3>1, <3>2, <3>3 DEF WindowsSeen
    <3>5. /\ longest' = [longest EXCEPT ![i] = HighWater(i, k)]
          /\ served' = [served EXCEPT ![i] = @ \cup {l \in AuthKeys : Window[l] <= Window[k]}]
          /\ MayPrune(i, HighWater(i, k))
      BY <2>1 DEF ConsumeAuth
    <3>6. /\ served' \in [Instances -> SUBSET AuthKeys]
          /\ longest'[i] = HighWater(i, k) /\ served'[i] = served[i] \cup shorter
          /\ \A l \in Instances \ {i} : longest'[l] = longest[l] /\ served'[l] = served[l]
      BY <3>1, <3>5 DEF RateTypeOK
    <3>7. /\ \A l \in Instances \ {i} : pruning'[l] = pruning[l] /\ sent'[l] = sent[l]
          /\ \/ pruning'[i] = pruning[i] /\ sent'[i] = sent[i]
             \/ pruning'[i] = HighWater(i, k) /\ sent'[i] = served'[i]
      BY <3>2, <3>5, <3>6, PruneIsSent
    <3> QED
      BY <2>0, <3>4, <3>6, <3>7
  <2>2. ASSUME NEW i \in Instances, NEW k \in RateKeys, NEW n \in Amounts, HitRateLimit(i, k, n)
        PROVE  Seen
    <3>1. UNCHANGED <<longest, served>> /\ MayPrune(i, longest[i]) /\ longest[i] \in Nat
          /\ served' \in [Instances -> SUBSET AuthKeys]
      BY <2>2 DEF HitRateLimit, RateTypeOK
    <3>2. /\ \A l \in Instances \ {i} : pruning'[l] = pruning[l] /\ sent'[l] = sent[l]
          /\ \/ pruning'[i] = pruning[i] /\ sent'[i] = sent[i]
             \/ pruning'[i] = longest[i] /\ sent'[i] = served[i]
      BY <3>1, PruneIsSent
    <3> QED
      BY <2>0, <3>1, <3>2
  <2>3. ASSUME NEW i \in Instances, PruneLands(i) \/ PruneFails(i) PROVE Seen
    <3>1. /\ UNCHANGED <<longest, served>>
          /\ pruning' = [pruning EXCEPT ![i] = None] /\ sent' = [sent EXCEPT ![i] = {}]
      BY <2>3 DEF PruneLands, PruneFails
    <3> QED
      BY <2>0, <3>1 DEF RateTypeOK
  <2>4. ASSUME NEW i \in Instances, Restart(i) PROVE Seen
    <3>1. WindowsSeen(0, {})
      BY DEF WindowsSeen
    <3> QED
      BY <2>0, <2>4, <3>1 DEF Restart, RateTypeOK
  <2>5. CASE Elapses \/ UNCHANGED rateVars
    BY <2>0, <2>5 DEF Elapses, rateVars
  <2>6. Seen
    BY <2>1, <2>2, <2>3, <2>4, <2>5 DEF RateNext
  <2> QED
    BY <2>6
<1> QED
  BY <1>1, <1>2, RateTyping, PTL DEF RateSpec

\* The row of k is the one that would be there had none been pruned, or it was
\* pruned after its window.
RowOf(k) ==
    \/ counter[k] = ledger[k]
    \/ counter[k] = None /\ WindowOver(ledger[k], Window[k])

RowsInv == \A k \in RateKeys \ cut : RowOf(k)

LEMMA CountKeepsRows ==
    ASSUME RateTypeOK, RowsInv, now' = now,
           NEW k \in RateKeys, NEW amount \in Nat, Count(k, amount)
    PROVE  RowsInv'
<1> USE RateAssumption
<1>1. now \in Nat /\ counter[k] \in Counters /\ ledger[k] \in Counters /\ Window[k] \in Nat
  BY DEF RateTypeOK
<1>2. ASSUME NEW l \in RateKeys \ {k}, l \notin cut' PROVE RowOf(l)'
  <2>1. l \notin cut
    BY <1>2 DEF Count
  <2> QED
    BY <1>2, <2>1, CountOne DEF RowsInv, RowOf, WindowOver
<1>3. CASE WindowOver(counter[k], Window[k]) /\ WindowOver(ledger[k], Window[k])
  <2>1. /\ Counted(counter[k], Window[k], amount) = [count |-> amount, start |-> now]
        /\ Counted(ledger[k], Window[k], amount) = [count |-> amount, start |-> now]
    BY <1>1, <1>3, CountedRow
  <2>2. RowOf(k)'
    BY <2>1, CountOne DEF RowOf
  <2> QED
    BY <1>2, <2>2 DEF RowsInv
<1>4. CASE ~(WindowOver(counter[k], Window[k]) /\ WindowOver(ledger[k], Window[k]))
  <2>1. cut' = cut
    BY <1>4 DEF Count
  <2>2. k \notin cut => counter[k] = ledger[k]
    BY <1>4 DEF RowsInv, RowOf, WindowOver
  <2>3. k \notin cut' => RowOf(k)'
    BY <2>1, <2>2, CountOne DEF RowOf
  <2> QED
    BY <1>2, <2>3 DEF RowsInv
<1> QED
  BY <1>3, <1>4

\* Time only ends windows.
LEMMA OverStaysOver ==
    ASSUME RateTypeOK, NEW k \in RateKeys, now' \in Nat, now <= now',
           WindowOver(ledger[k], Window[k]), ledger'[k] = ledger[k]
    PROVE  WindowOver(ledger[k], Window[k])'
<1> USE RateAssumption
<1>1. CASE ledger[k] = None
  BY <1>1 DEF WindowOver
<1>2. CASE ledger[k] # None
  <2>1. ledger[k] \in CountedRows /\ Window[k] \in Nat /\ now \in Nat
    BY <1>2 DEF RateTypeOK, Counters, CountedRows
  <2> QED
    BY <1>2, <2>1 DEF WindowOver, CountedRows
<1> QED
  BY <1>1, <1>2

\* A prune takes a row that counts only of a window its instance had not seen.
LEMMA PruneKeepsRows ==
    ASSUME RateTypeOK, HighWaterInv, RowsInv, NEW i \in Instances, PruneLands(i)
    PROVE  RowsInv'
<1> USE RateAssumption
<1> SUFFICES ASSUME NEW k \in RateKeys, k \notin cut' PROVE RowOf(k)'
  BY DEF RowsInv
<1>1. /\ counter'[k] = IF Expired(k, pruning[i]) THEN None ELSE counter[k]
      /\ UNCHANGED <<now, ledger>> /\ pruning[i] # None
  BY DEF PruneLands
<1>2. k \notin cut /\ RowOf(k)
  BY DEF PruneLands, RowsInv
<1>3. CASE ~Expired(k, pruning[i])
  BY <1>1, <1>2, <1>3 DEF RowOf, WindowOver
<1>4. CASE Expired(k, pruning[i])
  <2>1. counter[k] # None /\ ledger[k] = counter[k] /\ ledger[k] \in CountedRows
    BY <1>2, <1>4 DEF Expired, RowOf, RateTypeOK, Counters, CountedRows
  <2>2. /\ now \in Int /\ Window[k] \in Nat /\ ledger[k].start \in Int
        /\ pruning[i] \in Nat /\ sent[i] \subseteq AuthKeys
        /\ \A l \in AuthKeys : Window[l] \in Nat
    BY <1>1, <2>1 DEF RateTypeOK, CountedRows, RateKeys
  <2>3. SUFFICES ASSUME ~WindowOver(ledger[k], Window[k]) PROVE FALSE
    BY <1>1, <1>4 DEF RowOf, WindowOver
  <2>4. now < ledger[k].start + Window[k]
    BY <2>1, <2>2, <2>3 DEF WindowOver
  <2>5. /\ k \in AuthKeys /\ pruning[i] > 0 /\ ledger[k].start < now - pruning[i]
    BY <1>4, <2>1, <2>2, <2>4 DEF Expired
  <2>6. pruning[i] < Window[k]
    BY <2>2, <2>4, <2>5
  <2>7. Unseen(i, k)
    BY <1>1, <2>2, <2>5, <2>6 DEF Unseen, HighWaterInv, WindowsSeen
  <2>8. k \in cut'
    BY <1>1, <1>4, <2>1, <2>3, <2>5, <2>7 DEF PruneLands
  <2> QED
    BY <2>8
<1> QED
  BY <1>3, <1>4

LEMMA RowsAreKept == RateSpec => []RowsInv
<1> USE RateAssumption
<1>1. RateInit => RowsInv
  BY DEF RateInit, RowsInv, RowOf
<1>2. RateTypeOK /\ HighWaterInv /\ RowsInv /\ [RateNext]_rateVars => RowsInv'
  <2> SUFFICES ASSUME RateTypeOK, HighWaterInv, RowsInv, [RateNext]_rateVars
               PROVE  RowsInv'
    OBVIOUS
  <2>1. CASE Elapses
    <3>1. now \in Nat /\ now' = now + 1 /\ UNCHANGED <<counter, ledger, cut>>
      BY <2>1 DEF Elapses, RateTypeOK
    <3> QED
      BY <3>1, OverStaysOver DEF RowsInv, RowOf
  <2>2. ASSUME NEW k \in RateKeys, NEW n \in Nat, Count(k, n), now' = now PROVE RowsInv'
    BY <2>2, CountKeepsRows
  <2>3. ASSUME NEW i \in Instances, PruneLands(i) PROVE RowsInv'
    BY <2>3, PruneKeepsRows
  <2>4. CASE UNCHANGED <<now, counter, ledger, cut>>
    BY <2>4 DEF RowsInv, RowOf, WindowOver
  <2> QED
    BY <2>1, <2>2, <2>3, <2>4 DEF RateNext, ConsumeAuth, HitRateLimit, PruneFails, Restart,
       rateVars
<1> QED
  BY <1>1, <1>2, RateTyping, HighWaterMark, PTL DEF RateSpec

\* Whatever windows Better Auth's rules have and however late its statements land,
\* every key is counted as if none were pruned, but for those that a prune cut
\* short whose instance had served shorter windows only.
THEOREM CountedUnlessUnseen == RateSpec => []CountedUnlessCut
<1>1. RowsInv => CountedUnlessCut
  BY DEF RowsInv, RowOf, CountedUnlessCut
<1> QED
  BY <1>1, RowsAreKept, PTL

\* What no prune touches while it counts: the API's buckets and Better Auth's keys
\* of the shortest window any of its rules has.
ShortKeys == {k \in AuthKeys : \A l \in AuthKeys : Window[k] <= Window[l]}
ShortKeysKept ==
    \A k \in RequestKeys \cup ShortKeys :
       ~WindowOver(ledger[k], Window[k]) => counter[k] = ledger[k]

\* Whatever windows Better Auth's rules have, no prune takes a row of the API's
\* buckets, or of the shortest window, that is still counted against; if the
\* rules share one window, none takes any.
THEOREM ShortWindowsAreKept == RateSpec => []ShortKeysKept
<1> USE RateAssumption
<1>1. RateInit => cut \cap ShortKeys = {}
  BY DEF RateInit
<1>2. RateTypeOK /\ cut \cap ShortKeys = {} /\ [RateNext]_rateVars => (cut \cap ShortKeys = {})'
  <2> SUFFICES ASSUME RateTypeOK, cut \cap ShortKeys = {}, [RateNext]_rateVars,
                      NEW k \in ShortKeys, k \in cut'
               PROVE  FALSE
    BY DEF ShortKeys
  <2>1. k \notin cut
    OBVIOUS
  <2>2. PICK i \in Instances : PruneLands(i)
    BY <2>1 DEF RateNext, Elapses, ConsumeAuth, HitRateLimit, Count, PruneFails, Restart, rateVars
  <2>3. Unseen(i, k)
    BY <2>1, <2>2 DEF PruneLands
  <2>4. PICK l \in sent[i] : Window[l] < Window[k]
    BY <2>3 DEF Unseen
  <2>5. l \in AuthKeys /\ k \in AuthKeys /\ Window[k] <= Window[l]
    BY DEF ShortKeys, RateTypeOK
  <2> QED
    BY <2>4, <2>5 DEF RateKeys
<1>3. RateTypeOK /\ cut \cap ShortKeys = {} /\ CountedUnlessCut => ShortKeysKept
  BY DEF RateTypeOK, ShortKeysKept, ShortKeys, CountedUnlessCut, RateKeys
<1> QED
  BY <1>1, <1>2, <1>3, RateTyping, CountedUnlessUnseen, PTL DEF RateSpec

\* What an instance remembers of a bucket resets no later than the last window that
\* was exhausted ends, rounded; and no window begun since ends before that.
SpentInv == \A k \in RequestKeys :
    /\ spent[k] # None => /\ ledger[k] # None
                          /\ spent[k] <= EndOf(ledger[k], k)
    /\ \A i \in Instances :
          exhausted[i][k] # None => /\ spent[k] # None
                                    /\ exhausted[i][k] <= Rounded(spent[k])

LEMMA SpentStep ==
    ASSUME RateTypeOK, RowsInv, SpentInv, NEW i \in Instances, NEW k \in RequestKeys,
           NEW n \in Amounts, HitRateLimit(i, k, n)
    PROVE  SpentInv'
<1> USE RateAssumption
<1>0. k \in RateKeys /\ n \in Nat /\ now' = now /\ Count(k, n)
  BY DEF HitRateLimit, RateKeys
<1>1. /\ spent' = [spent EXCEPT ![k] =
                     IF ledger'[k].count > Limit[k] THEN EndOf(ledger'[k], k) ELSE @]
      /\ exhausted' = [exhausted EXCEPT ![i][k] =
                         IF counter'[k].count > Limit[k] THEN ResetOf(k) ELSE None]
  BY DEF HitRateLimit
<1>2. /\ ledger'[k] \in CountedRows /\ counter'[k] \in CountedRows
      /\ ledger[k] \in Counters /\ now \in Nat /\ Window[k] \in Nat
      /\ spent[k] \in Nat \cup {None}
      /\ \A j \in Instances : exhausted[j][k] \in Nat \cup {None}
  BY <1>0, CountOne DEF RateTypeOK
<1>3. /\ ledger'[k] # None /\ counter'[k] # None
      /\ EndOf(ledger'[k], k) \in Nat
  BY <1>2 DEF CountedRows, EndOf
<1>4. ASSUME spent[k] # None PROVE spent[k] <= EndOf(ledger'[k], k)
  <2>1. /\ ledger[k] # None /\ spent[k] <= EndOf(ledger[k], k) /\ spent[k] \in Nat
    BY <1>2, <1>4 DEF SpentInv
  <2>2. ledger[k] \in CountedRows
    BY <1>2, <2>1 DEF Counters, CountedRows
  <2>3. ledger'[k] = Counted(ledger[k], Window[k], n)
    BY <1>0, CountOne
  <2>4. CASE WindowOver(ledger[k], Window[k])
    <3>1. ledger'[k] = [count |-> n, start |-> now]
      BY <1>0, <1>2, <2>3, <2>4, CountedRow
    <3>2. ledger[k].start + Window[k] <= now /\ ledger[k].start \in Nat
      BY <2>1, <2>2, <2>4 DEF WindowOver, CountedRows
    <3> QED
      BY <1>2, <2>1, <3>1, <3>2 DEF EndOf
  <2>5. CASE ~WindowOver(ledger[k], Window[k])
    <3>1. ledger'[k].start = ledger[k].start
      BY <1>0, <1>2, <2>3, <2>5, CountedRow
    <3> QED
      BY <2>1, <3>1 DEF EndOf
  <2> QED
    BY <2>4, <2>5
<1>5. /\ spent'[k] \in Nat \cup {None}
      /\ spent'[k] # None => spent'[k] <= EndOf(ledger'[k], k)
      /\ spent[k] # None => spent'[k] # None /\ spent[k] <= spent'[k]
  BY <1>1, <1>2, <1>3, <1>4 DEF RateTypeOK
<1>6. ASSUME counter'[k].count > Limit[k]
      PROVE  spent'[k] = EndOf(ledger'[k], k) /\ ResetOf(k) = Rounded(spent'[k])
  <2>1. RowsInv'
    BY <1>0, CountKeepsRows
  <2>2. k \notin cut'
    BY <1>0, CountOne
  <2>3. counter'[k] = ledger'[k]
    BY <1>0, <1>3, <2>1, <2>2 DEF RowsInv, RowOf
  <2>4. spent'[k] = EndOf(ledger'[k], k)
    BY <1>1, <1>6, <2>3 DEF RateTypeOK
  <2> QED
    BY <2>3, <2>4 DEF ResetOf
<1>7. ASSUME NEW j \in Instances, exhausted'[j][k] # None
      PROVE  spent'[k] # None /\ exhausted'[j][k] <= Rounded(spent'[k])
  <2>1. CASE exhausted'[j][k] = exhausted[j][k]
    <3>1. spent[k] # None /\ exhausted[j][k] <= Rounded(spent[k]) /\ exhausted[j][k] \in Nat
      BY <1>2, <1>7, <2>1 DEF SpentInv
    <3>2. spent[k] \in Nat /\ spent'[k] \in Nat /\ spent[k] <= spent'[k]
      BY <1>2, <1>5, <3>1
    <3>3. /\ Rounded(spent[k]) <= Rounded(spent'[k])
          /\ Rounded(spent[k]) \in Nat /\ Rounded(spent'[k]) \in Nat
      BY <3>2, RoundedTime
    <3> QED
      BY <2>1, <3>1, <3>2, <3>3
  <2>2. CASE exhausted'[j][k] # exhausted[j][k]
    <3>1. counter'[k].count > Limit[k] /\ exhausted'[j][k] = ResetOf(k)
      BY <1>1, <1>7, <2>2 DEF RateTypeOK
    <3>2. spent'[k] \in Nat
      BY <1>3, <1>6, <3>1
    <3>3. Rounded(spent'[k]) \in Nat
      BY <3>2, RoundedTime
    <3> QED
      BY <1>6, <3>1, <3>2, <3>3
  <2> QED
    BY <2>1, <2>2
<1>8. ASSUME NEW l \in RequestKeys \ {k}
      PROVE  /\ spent'[l] = spent[l] /\ ledger'[l] = ledger[l]
             /\ \A j \in Instances : exhausted'[j][l] = exhausted[j][l]
  BY <1>0, <1>1, CountOne DEF RateTypeOK, RateKeys
<1> QED
  BY <1>3, <1>5, <1>7, <1>8 DEF SpentInv, EndOf

\* For any number of instances, keys, windows and limits, and any clock: a bucket
\* an instance denies from memory was exhausted in a window that still runs or
\* ended less than half a second ago.
THEOREM DeniedFromMemory == RateSpec => []MemoryEndsInTime
<1> USE RateAssumption
<1>1. RateInit => SpentInv
  BY DEF RateInit, SpentInv
<1>2. RateTypeOK /\ RowsInv /\ SpentInv /\ [RateNext]_rateVars => SpentInv'
  <2> SUFFICES ASSUME RateTypeOK, RowsInv, SpentInv, [RateNext]_rateVars
               PROVE  SpentInv'
    OBVIOUS
  <2>1. CASE UNCHANGED <<ledger, spent, exhausted>>
    BY <2>1 DEF SpentInv, EndOf
  <2>2. ASSUME NEW i \in Instances, NEW k \in RateKeys, ConsumeAuth(i, k) PROVE SpentInv'
    <3>1. k \in AuthKeys /\ Count(k, 1) /\ UNCHANGED <<spent, exhausted>>
      BY <2>2 DEF ConsumeAuth
    <3>2. \A l \in RequestKeys : ledger'[l] = ledger[l]
      BY <3>1, CountOne DEF RateKeys
    <3> QED
      BY <3>1, <3>2 DEF SpentInv, EndOf
  <2>3. ASSUME NEW i \in Instances, NEW k \in RateKeys, NEW n \in Amounts,
               HitRateLimit(i, k, n)
        PROVE  SpentInv'
    BY <2>3, SpentStep DEF HitRateLimit
  <2>4. ASSUME NEW i \in Instances, Restart(i) PROVE SpentInv'
    <3>1. /\ UNCHANGED <<ledger, spent>>
          /\ \A j \in Instances, k \in RequestKeys :
                exhausted'[j][k] \in {None, exhausted[j][k]}
      BY <2>4 DEF Restart, RateTypeOK
    <3> QED
      BY <3>1 DEF SpentInv, EndOf
  <2> QED
    BY <2>1, <2>2, <2>3, <2>4 DEF RateNext, Elapses, PruneLands, PruneFails, rateVars
<1>3. RateTypeOK /\ SpentInv => MemoryEndsInTime
  <2> SUFFICES ASSUME RateTypeOK, SpentInv,
                      NEW i \in Instances, NEW k \in RequestKeys, KnownExhausted(i, k)
               PROVE  spent[k] # None /\ 2 * now < 2 * spent[k] + Second
    BY DEF MemoryEndsInTime
  <2>1. /\ now \in Nat /\ exhausted[i][k] \in Nat /\ exhausted[i][k] > now \div Second
        /\ spent[k] \in Nat /\ exhausted[i][k] <= Rounded(spent[k])
    BY DEF SpentInv, RateTypeOK, KnownExhausted
  <2>2. Rounded(spent[k]) \in Nat /\ now \div Second \in Nat
    BY <2>1, RoundedTime, WholeSeconds
  <2>3. now \div Second < Rounded(spent[k])
    BY <2>1, <2>2
  <2> QED
    BY <2>1, <2>3, RoundedTime
<1> QED
  BY <1>1, <1>2, <1>3, RateTyping, RowsAreKept, PTL DEF RateSpec

-----------------------------------------------------------------------------
(* Release assets                                                          *)

AssetRequests == [op : Ops, asset : Assets \cup {None}]

Adder(s) == serves[s] # None /\ serves[s].op \in {"start", "direct"}
Finisher(s) == serves[s] # None /\ serves[s].op = "finish"

\* The steps of a request, by its kind.
ReapSteps == {"stale", "reap", "unput"}
AddSteps == {"find", "replace", "insert", "dropOld"}
FinishSteps == {"head", "discard", "discardRow", "copy", "drop", "mark"}
WipeSteps == {"wipeFile", "wipeUpload", "wipeRow"}
StepsOf(op) ==
    CASE op = "list" -> ReapSteps
      [] op = "start" -> ReapSteps \cup AddSteps \cup {"presign"}
      [] op = "direct" -> ReapSteps \cup AddSteps \cup {"put", "mark", "undo"}
      [] op = "finish" -> FinishSteps
      [] op = "delete" -> WipeSteps

\* A request is at a step of its kind, knows the asset it works on, and the
\* older one that it reaps or replaces.
StepsInv == \A s \in Slots :
    /\ at[s] # "idle" => serves[s] # None /\ at[s] \in StepsOf(serves[s].op)
    /\ serves[s] # None => at[s] # "idle"
    /\ at[s] \in {"presign", "put", "undo", "dropOld"} \cup FinishSteps \cup WipeSteps
       => On(s) \in Assets
    /\ at[s] \in {"reap", "unput", "replace", "dropOld"} => older[s] \in Assets

LEMMA AssetTyping == AssetSpec => [](AssetTypeOK /\ StepsInv)
<1> USE AssetAssumption
<1>1. AssetInit => AssetTypeOK /\ StepsInv
  BY DEF AssetInit, AssetTypeOK, StepsInv, AssetSteps, FinishSteps, WipeSteps
<1>2. AssetTypeOK /\ StepsInv /\ [AssetNext]_assetVars => AssetTypeOK' /\ StepsInv'
  <2> SUFFICES ASSUME AssetTypeOK, StepsInv, [AssetNext]_assetVars
               PROVE  AssetTypeOK' /\ StepsInv'
    OBVIOUS
  <2> USE DEF AssetTypeOK, StepsInv, StepsOf, AssetSteps, ReapSteps, AddSteps, FinishSteps,
              WipeSteps, Ops, On, Then, Ends, RowGoes, objects, AfterReap, AfterInsert
  <2>1. CASE UNCHANGED assetVars
    BY <2>1 DEF assetVars
  <2>2. ASSUME NEW a \in Assets, Expire(a) \/ \E b \in Bytes : Put(a, b)
        PROVE  AssetTypeOK' /\ StepsInv'
    BY <2>2 DEF Expire, Put
  <2>3. ASSUME NEW s \in Slots, NEW op \in Ops, Add(s, op) PROVE AssetTypeOK' /\ StepsInv'
    BY <2>3 DEF Add, Accept
  <2>4. ASSUME NEW s \in Slots, NEW a \in Assets, Finish(s, a) \/ DeleteAsset(s, a)
        PROVE  AssetTypeOK' /\ StepsInv'
    BY <2>4 DEF Finish, DeleteAsset, Accept
  <2>5. ASSUME NEW s \in Slots, AssetStep(s), UNCHANGED doomed
        PROVE  AssetTypeOK' /\ StepsInv'
    <3>1. CASE FindStale(s)
      BY <2>5, <3>1 DEF FindStale
    <3>2. CASE Reap(s)
      BY <2>5, <3>2 DEF Reap
    <3>3. CASE Unput(s)
      BY <2>5, <3>3 DEF Unput
    <3>4. CASE FindNamed(s)
      BY <2>5, <3>4 DEF FindNamed
    <3>5. CASE Replace(s)
      BY <2>5, <3>5 DEF Replace
    <3>6. CASE InsertRow(s)
      BY <2>5, <3>6 DEF InsertRow
    <3>7. CASE InsertRefused(s) \/ CallFails(s)
      BY <2>5, <3>7 DEF InsertRefused, CallFails
    <3>8. CASE DropOld(s)
      BY <2>5, <3>8 DEF DropOld
    <3>9. CASE Presign(s)
      BY <2>5, <3>9 DEF Presign
    <3>10. ASSUME NEW b \in Bytes, PutFile(s, b) PROVE AssetTypeOK' /\ StepsInv'
      BY <2>5, <3>10 DEF PutFile
    <3>11. CASE Mark(s) \/ MarkFails(s)
      <4>1. CASE Mark(s)
        <5>1. asset' \in [Assets -> {"unused", "open", "uploaded", "gone"}]
          BY <4>1 DEF Mark, MarkUploaded
        <5> QED
          BY <2>5, <4>1, <5>1 DEF Mark
      <4>2. CASE MarkFails(s)
        <5>1. asset' \in [Assets -> {"unused", "open", "uploaded", "gone"}]
          BY <4>2 DEF MarkFails, MarkUploaded
        <5> QED
          BY <2>5, <4>2, <5>1 DEF MarkFails
      <4> QED
        BY <3>11, <4>1, <4>2
    <3>12. CASE UndoRow(s) \/ DiscardRow(s) \/ WipeRow(s)
      BY <2>5, <3>12 DEF UndoRow, DiscardRow, WipeRow
    <3>13. CASE HeadUpload(s) \/ Discard(s)
      BY <2>5, <3>13 DEF HeadUpload, Discard
    <3>14. CASE CopyUpload(s) \/ DropUpload(s)
      BY <2>5, <3>14 DEF CopyUpload, DropUpload
    <3>15. CASE WipeFile(s) \/ WipeUpload(s)
      BY <2>5, <3>15 DEF WipeFile, WipeUpload
    <3> QED
      BY <2>5, <3>1, <3>2, <3>3, <3>4, <3>5, <3>6, <3>7, <3>8, <3>9, <3>10, <3>11, <3>12,
         <3>13, <3>14, <3>15 DEF AssetStep
  <2> HIDE DEF AssetTypeOK, StepsInv, Ops
  <2> QED
    BY <2>1, <2>2, <2>3, <2>4, <2>5 DEF AssetNext
<1> QED
  BY <1>1, <1>2, PTL DEF AssetSpec

\* One request adds at a time, none while another finishes, and each asset is
\* finished by one.
AloneInv ==
    /\ \A s, t \in Slots : Adder(s) /\ (Adder(t) \/ Finisher(t)) => s = t
    /\ \A s, t \in Slots : Finisher(s) /\ Finisher(t) /\ On(s) = On(t) => s = t

\* What a request replaces, or works on until it is published, is not published;
\* what it takes back may be.
Unpublished(s) ==
    /\ at[s] = "replace" => asset[older[s]] # "uploaded"
    /\ at[s] \in {"presign", "put", "dropOld"} \cup FinishSteps
       => asset[On(s)] # "uploaded"

UnpublishedInv == \A s \in Slots : Unpublished(s)

DoomedInv == \A s \in Slots :
    serves[s] # None /\ serves[s].op = "delete" => On(s) \in doomed

BytesInv ==
    /\ \A s \in Slots : at[s] \in {"drop", "mark"} /\ On(s) \notin doomed => file[On(s)] # None
    /\ \A a \in Assets \ doomed : asset[a] = "uploaded" => file[a] # None

\* A step of a request ends it, keeps it, or gives it the row it inserted.
LEMMA OneRequestSteps ==
    ASSUME AssetTypeOK, StepsInv, NEW s \in Slots, AssetStep(s)
    PROVE  /\ \A t \in Slots \ {s} :
                 serves'[t] = serves[t] /\ at'[t] = at[t] /\ older'[t] = older[t]
           /\ \/ serves'[s] = None /\ at'[s] = "idle"
              \/ serves'[s] = serves[s]
              \/ Adder(s) /\ Adder(s)'
<1> USE DEF AssetTypeOK, Then, Ends, AfterReap
<1>1. CASE FindStale(s) \/ Reap(s) \/ Unput(s) \/ FindNamed(s) \/ Replace(s)
  BY <1>1 DEF FindStale, Reap, Unput, FindNamed, Replace
<1>2. CASE InsertRow(s)
  <2>1. Adder(s) /\ serves[s] \in AssetRequests
    BY <1>2 DEF InsertRow, StepsInv, StepsOf, ReapSteps, AddSteps, FinishSteps, WipeSteps, Ops,
       Adder, AssetRequests
  <2>2. PICK a \in Assets : serves' = [serves EXCEPT ![s].asset = a]
    BY <1>2 DEF InsertRow
  <2>3. serves'[s] \in AssetRequests /\ serves'[s].op = serves[s].op
    BY <2>1, <2>2 DEF AssetRequests
  <2>4. serves'[s] # None
    BY <2>3, AssetAssumption DEF AssetRequests
  <2>5. Adder(s)'
    BY <2>1, <2>3, <2>4 DEF Adder
  <2> QED
    BY <1>2, <2>1, <2>2, <2>5 DEF InsertRow
<1>3. CASE InsertRefused(s) \/ DropOld(s) \/ Presign(s) \/ (\E b \in Bytes : PutFile(s, b))
           \/ Mark(s) \/ MarkFails(s) \/ UndoRow(s)
  BY <1>3 DEF InsertRefused, DropOld, Presign, PutFile, Mark, MarkFails, UndoRow
<1>4. CASE HeadUpload(s) \/ Discard(s) \/ DiscardRow(s) \/ CopyUpload(s) \/ DropUpload(s)
           \/ WipeFile(s) \/ WipeUpload(s) \/ WipeRow(s) \/ CallFails(s)
  BY <1>4 DEF HeadUpload, Discard, DiscardRow, CopyUpload, DropUpload, WipeFile, WipeUpload,
     WipeRow, CallFails
<1> QED
  BY <1>1, <1>2, <1>3, <1>4 DEF AssetStep

LEMMA AloneStep ==
    ASSUME AssetTypeOK, StepsInv, AloneInv, Overlaps \subseteq {"put"}, [AssetNext]_assetVars
    PROVE  AloneInv'
<1>1. CASE UNCHANGED assetVars \/ \E a \in Assets : Expire(a) \/ \E b \in Bytes : Put(a, b)
  BY <1>1 DEF assetVars, Expire, Put, AloneInv, Adder, Finisher, On
<1>2. ASSUME NEW s \in Slots, AssetStep(s) PROVE AloneInv'
  <2>1. \A t \in Slots : Adder(t)' => Adder(t)
    BY <1>2, OneRequestSteps DEF Adder
  <2>2. \A t \in Slots : Finisher(t)' => Finisher(t) /\ On(t)' = On(t)
    BY <1>2, OneRequestSteps DEF Adder, Finisher, On
  <2> QED
    BY <2>1, <2>2 DEF AloneInv
<1>3. ASSUME NEW s \in Slots, NEW op \in Ops, NEW a \in Assets \cup {None}, NEW step,
             Accept(s, op, a, step),
             op \in {"start", "direct"} => \A t \in Slots : ~Adder(t) /\ ~Finisher(t),
             op = "finish" => \A t \in Slots : /\ ~Adder(t)
                                               /\ Finisher(t) => On(t) # a
      PROVE  AloneInv'
  <2>1. \A t \in Slots \ {s} : serves'[t] = serves[t]
    BY <1>3 DEF Accept, AssetTypeOK
  <2>2. serves'[s] = [op |-> op, asset |-> a]
    BY <1>3 DEF Accept, AssetTypeOK
  <2>3. Adder(s)' => op \in {"start", "direct"}
    BY <2>2 DEF Adder
  <2>4. Finisher(s)' => op = "finish" /\ On(s)' = a
    BY <2>2 DEF Finisher, On
  <2>5. \A t \in Slots \ {s} : /\ Adder(t)' <=> Adder(t)
                               /\ Finisher(t)' <=> Finisher(t)
                               /\ On(t)' = On(t)
    BY <2>1 DEF Adder, Finisher, On
  <2> QED
    BY <1>3, <2>3, <2>4, <2>5 DEF AloneInv
<1>4. \A t \in Slots : Finisher(t) => On(t) \in Assets /\ Finishing(On(t))
  <2> SUFFICES ASSUME NEW t \in Slots, Finisher(t)
               PROVE  On(t) \in Assets /\ serves[t] = [op |-> "finish", asset |-> On(t)]
    BY DEF Finishing
  <2>1. at[t] \in FinishSteps
    BY DEF Finisher, StepsInv, StepsOf
  <2>2. serves[t] \in AssetRequests
    BY DEF Finisher, AssetTypeOK, AssetRequests
  <2> QED
    BY <2>1, <2>2 DEF StepsInv, Finisher, On, AssetRequests
<1>5. \A t \in Slots : Adder(t) => Adding
  BY DEF Adder, Adding
<1>6. ASSUME NEW s \in Slots, NEW op \in Ops, Add(s, op) PROVE AloneInv'
  <2>1. op \in {"start", "direct"} => \A t \in Slots : ~Adder(t) /\ ~Finisher(t)
    BY <1>4, <1>5, <1>6 DEF Add
  <2>2. Accept(s, op, None, "stale") /\ op # "finish"
    BY <1>6 DEF Add
  <2>3. None \in Assets \cup {None}
    OBVIOUS
  <2> QED
    BY ONLY <1>3, <2>1, <2>2, <2>3, s \in Slots, op \in Ops
<1>7. ASSUME NEW s \in Slots, NEW a \in Assets, Finish(s, a) PROVE AloneInv'
  <2>1. \A t \in Slots : ~Adder(t) /\ (Finisher(t) => On(t) # a)
    BY <1>4, <1>5, <1>7 DEF Finish
  <2>2. Accept(s, "finish", a, "head") /\ "finish" \in Ops
    BY <1>7 DEF Finish, Ops
  <2>3. a \in Assets \cup {None}
    OBVIOUS
  <2> QED
    BY <1>3, <2>1, <2>2, <2>3
<1>8. ASSUME NEW s \in Slots, NEW a \in Assets, DeleteAsset(s, a) PROVE AloneInv'
  <2>1. Accept(s, "delete", a, "wipeFile") /\ "delete" \in Ops
    BY <1>8 DEF DeleteAsset, Ops
  <2>2. a \in Assets \cup {None}
    OBVIOUS
  <2> QED
    BY <1>3, <2>1, <2>2
<1> QED
  BY <1>1, <1>2, <1>6, <1>7, <1>8 DEF AssetNext

\* Only marking an asset publishes it, whatever its request is told.
LEMMA OnlyMarkPublishes ==
    ASSUME AssetTypeOK, StepsInv, NEW s \in Slots, AssetStep(s), ~Mark(s),
           ~MarkFails(s), NEW a \in Assets,
           asset'[a] = "uploaded"
    PROVE  asset[a] = "uploaded"
<1> USE DEF AssetTypeOK, RowGoes
<1>1. CASE FindStale(s) \/ Reap(s) \/ Unput(s) \/ FindNamed(s) \/ Replace(s) \/ InsertRow(s)
  BY <1>1 DEF FindStale, Reap, Unput, FindNamed, Replace, InsertRow
<1>2. CASE InsertRefused(s) \/ DropOld(s) \/ Presign(s) \/ (\E b \in Bytes : PutFile(s, b))
           \/ UndoRow(s)
  BY <1>2 DEF InsertRefused, DropOld, Presign, PutFile, UndoRow
<1>3. CASE HeadUpload(s) \/ Discard(s) \/ DiscardRow(s) \/ CopyUpload(s) \/ DropUpload(s)
           \/ WipeFile(s) \/ WipeUpload(s) \/ WipeRow(s) \/ CallFails(s)
  BY <1>3 DEF HeadUpload, Discard, DiscardRow, CopyUpload, DropUpload, WipeFile, WipeUpload,
     WipeRow, CallFails
<1> QED
  BY <1>1, <1>2, <1>3 DEF AssetStep

LEMMA UnpublishedStep ==
    ASSUME AssetTypeOK, StepsInv, AloneInv, UnpublishedInv, [AssetNext]_assetVars
    PROVE  UnpublishedInv'
<1> USE AssetAssumption
<1>1. CASE UNCHANGED assetVars \/ \E a \in Assets : Expire(a) \/ \E b \in Bytes : Put(a, b)
  BY <1>1 DEF assetVars, Expire, Put, UnpublishedInv, Unpublished, On
<1>2. ASSUME NEW s \in Slots, NEW op, NEW a, NEW step, Accept(s, op, a, step),
             step \in FinishSteps => asset[a] # "uploaded",
             step \notin {"replace", "presign", "put", "dropOld"}
      PROVE  UnpublishedInv'
  <2>1. ASSUME NEW t \in Slots \ {s} PROVE Unpublished(t)'
    BY <1>2, <2>1 DEF Accept, AssetTypeOK, UnpublishedInv, Unpublished, On
  <2>2. at'[s] = step /\ On(s)' = a /\ asset' = asset
    BY <1>2 DEF Accept, AssetTypeOK, On
  <2>3. Unpublished(s)'
    BY <1>2, <2>2 DEF Unpublished
  <2> QED
    BY <2>1, <2>3 DEF UnpublishedInv
<1>3. ASSUME NEW s \in Slots, NEW op \in Ops, Add(s, op) PROVE UnpublishedInv'
  <2>1. Accept(s, op, None, "stale")
    BY <1>3 DEF Add
  <2> QED
    BY <1>2, <2>1 DEF FinishSteps
<1>4. ASSUME NEW s \in Slots, NEW a \in Assets, Finish(s, a) \/ DeleteAsset(s, a)
      PROVE  UnpublishedInv'
  <2>1. CASE Finish(s, a)
    <3>1. Accept(s, "finish", a, "head") /\ asset[a] # "uploaded"
      BY <2>1 DEF Finish, Finishable
    <3> QED
      BY <1>2, <3>1
  <2>2. CASE DeleteAsset(s, a)
    <3>1. Accept(s, "delete", a, "wipeFile")
      BY <2>2 DEF DeleteAsset
    <3> QED
      BY <1>2, <3>1 DEF FinishSteps
  <2> QED
    BY <1>4, <2>1, <2>2
<1>5. ASSUME NEW s \in Slots, Mark(s) \/ MarkFails(s) PROVE UnpublishedInv'
  <2>1. /\ at[s] = "mark" /\ On(s) \in Assets /\ (Adder(s) \/ Finisher(s))
    BY <1>5 DEF Mark, MarkFails, StepsInv, StepsOf, ReapSteps, AddSteps, FinishSteps, WipeSteps, Adder,
       Finisher, Ops, AssetTypeOK
  <2>2. /\ at'[s] \in {"idle", "undo"} /\ \A a \in Assets \ {On(s)} : asset'[a] = asset[a]
        /\ \A t \in Slots \ {s} : /\ at'[t] = at[t] /\ serves'[t] = serves[t]
                                  /\ older'[t] = older[t]
    BY <1>5 DEF Mark, MarkFails, MarkUploaded, Then, Ends, AssetTypeOK
  <2>3. ASSUME NEW t \in Slots \ {s} PROVE Unpublished(t)'
    <3>1. at[t] \in {"replace", "presign", "put", "dropOld"} => Adder(t)
      BY DEF StepsInv, StepsOf, ReapSteps, AddSteps, FinishSteps, WipeSteps, Adder, Ops,
         AssetTypeOK
    <3>2. at[t] \in FinishSteps => Adder(t) \/ Finisher(t)
      BY DEF StepsInv, StepsOf, ReapSteps, AddSteps, FinishSteps, WipeSteps, Adder, Finisher,
         Ops, AssetTypeOK
    <3>3. ~Adder(t)
      BY <2>1 DEF AloneInv
    <3>4. at[t] \in FinishSteps => On(t) \in Assets /\ On(t) # On(s)
      BY <2>1, <3>2, <3>3 DEF AloneInv, StepsInv
    <3>5. at'[t] \in FinishSteps => asset'[On(t)'] # "uploaded"
      BY <2>2, <3>4 DEF On, UnpublishedInv, Unpublished
    <3> QED
      BY <2>2, <3>1, <3>3, <3>5 DEF Unpublished
  <2>4. Unpublished(s)'
    BY <2>2 DEF Unpublished, FinishSteps
  <2> QED
    BY <2>3, <2>4 DEF UnpublishedInv
<1>6. ASSUME NEW s \in Slots, AssetStep(s), ~Mark(s), ~MarkFails(s) PROVE UnpublishedInv'
  <2>1. ASSUME NEW t \in Slots \ {s} PROVE Unpublished(t)'
    <3>1. at'[t] = at[t] /\ older'[t] = older[t] /\ On(t)' = On(t)
      BY <1>6, OneRequestSteps DEF On
    <3>2. /\ at[t] = "replace" => older[t] \in Assets
          /\ at[t] \in {"presign", "put", "dropOld"} \cup FinishSteps => On(t) \in Assets
      BY DEF StepsInv
    <3> QED
      BY <1>6, <3>1, <3>2, OnlyMarkPublishes DEF UnpublishedInv, Unpublished
  <2>2. Unpublished(s)'
    <3> USE DEF Unpublished, UnpublishedInv, AssetTypeOK, On, Then, Ends, AfterReap, RowGoes,
                objects, FinishSteps, AfterInsert
    <3>1. CASE FindStale(s) \/ Reap(s) \/ Unput(s)
      BY <3>1 DEF FindStale, Reap, Unput
    <3>2. CASE FindNamed(s)
      BY <3>2 DEF FindNamed
    <3>3. CASE Replace(s)
      BY <3>3 DEF Replace
    <3>4. CASE InsertRow(s)
      <4>1. PICK a \in Assets : /\ asset' = [asset EXCEPT ![a] = "open"]
                                /\ serves' = [serves EXCEPT ![s].asset = a]
        BY <3>4 DEF InsertRow
      <4>2. serves[s] \in AssetRequests
        BY <3>4 DEF InsertRow, StepsInv, AssetRequests
      <4>3. serves'[s].asset = a /\ asset'[a] = "open"
        BY <4>1, <4>2 DEF AssetRequests
      <4>4. at'[s] # "replace"
        BY <3>4 DEF InsertRow
      <4> QED
        BY <4>3, <4>4
    <3>5. CASE InsertRefused(s) \/ CallFails(s) \/ Presign(s) \/ UndoRow(s) \/ DiscardRow(s)
               \/ WipeRow(s)
      BY <3>5 DEF InsertRefused, CallFails, Presign, UndoRow, DiscardRow, WipeRow
    <3>6. CASE DropOld(s)
      BY <3>6 DEF DropOld
    <3>7. CASE \E b \in Bytes : PutFile(s, b)
      BY <3>7 DEF PutFile
    <3>9. CASE HeadUpload(s) \/ Discard(s) \/ CopyUpload(s) \/ DropUpload(s)
      BY <3>9 DEF HeadUpload, Discard, CopyUpload, DropUpload
    <3>10. CASE WipeFile(s) \/ WipeUpload(s)
      BY <3>10 DEF WipeFile, WipeUpload
    <3> QED
      BY <1>6, <3>1, <3>2, <3>3, <3>4, <3>5, <3>6, <3>7, <3>9, <3>10 DEF AssetStep
  <2> QED
    BY <2>1, <2>2 DEF UnpublishedInv
<1> QED
  BY <1>1, <1>3, <1>4, <1>5, <1>6 DEF AssetNext

\* Rows go that are not published, or taken back by the upload that published
\* them, or whose deletion began; files go of these last.
LEMMA WhatGoes ==
    ASSUME AssetTypeOK, StepsInv, UnpublishedInv, DoomedInv, NEW s \in Slots, AssetStep(s),
           NEW a \in Assets \ doomed
    PROVE  /\ asset[a] = "uploaded"
              => /\ asset'[a] = "uploaded" \/ TakesBack(s, a)
                 /\ file'[a] = file[a]
           /\ file[a] # None => file'[a] # None
<1> USE AssetAssumption DEF AssetTypeOK, RowGoes, UnpublishedInv, Unpublished, objects
<1>1. CASE FindStale(s) \/ Unput(s) \/ FindNamed(s) \/ InsertRefused(s) \/ DropOld(s)
  BY <1>1 DEF FindStale, Unput, FindNamed, InsertRefused, DropOld
<1>2. CASE HeadUpload(s) \/ Discard(s) \/ DropUpload(s) \/ WipeUpload(s) \/ CallFails(s)
  BY <1>2 DEF HeadUpload, Discard, DropUpload, WipeUpload, CallFails
<1>3. CASE Reap(s) \/ Replace(s)
  BY <1>3 DEF Reap, Reapable, Replace
<1>4. CASE InsertRow(s)
  BY <1>4 DEF InsertRow
<1>5. CASE Presign(s) \/ UndoRow(s) \/ DiscardRow(s)
  BY <1>5 DEF Presign, UndoRow, DiscardRow, FinishSteps, TakesBack, Ends
<1>6. CASE (\E b \in Bytes : PutFile(s, b)) \/ CopyUpload(s)
  BY <1>6 DEF PutFile, CopyUpload, FinishSteps
<1>7. CASE Mark(s) \/ MarkFails(s)
  BY <1>7 DEF Mark, MarkFails, MarkUploaded, Live
<1>8. CASE WipeFile(s) \/ WipeRow(s)
  <2>1. On(s) \in doomed
    BY <1>8 DEF WipeFile, WipeRow, StepsInv, StepsOf, ReapSteps, AddSteps, FinishSteps,
       WipeSteps, DoomedInv, Ops
  <2> QED
    BY <1>8, <2>1 DEF WipeFile, WipeRow
<1> QED
  BY <1>1, <1>2, <1>3, <1>4, <1>5, <1>6, <1>7, <1>8 DEF AssetStep

\* A step that is not a request's own leaves rows and files alone, but for a
\* deletion that begins.
LEMMA WhatStays ==
    ASSUME AssetTypeOK, [AssetNext]_assetVars
    PROVE  /\ doomed \subseteq doomed'
           /\ \/ \E s \in Slots : AssetStep(s) /\ doomed' = doomed
              \/ UNCHANGED <<asset, file>>
  BY DEF AssetNext, assetVars, Expire, Put, Add, Finish, DeleteAsset, Accept, objects

LEMMA DoomedStep ==
    ASSUME AssetTypeOK, StepsInv, DoomedInv, [AssetNext]_assetVars
    PROVE  DoomedInv'
<1> USE DEF DoomedInv, On
<1>1. CASE UNCHANGED assetVars \/ \E a \in Assets : Expire(a) \/ \E b \in Bytes : Put(a, b)
  BY <1>1 DEF assetVars, Expire, Put
<1>2. ASSUME NEW s \in Slots, AssetStep(s), UNCHANGED doomed PROVE DoomedInv'
  BY <1>2, OneRequestSteps DEF Adder
<1>3. ASSUME NEW s \in Slots, NEW op \in Ops, Add(s, op) PROVE DoomedInv'
  BY <1>3 DEF Add, Accept, AssetTypeOK
<1>4. ASSUME NEW s \in Slots, NEW a \in Assets, Finish(s, a) \/ DeleteAsset(s, a)
      PROVE  DoomedInv'
  BY <1>4 DEF Finish, DeleteAsset, Accept, AssetTypeOK
<1> QED
  BY <1>1, <1>2, <1>3, <1>4 DEF AssetNext

LEMMA BytesStep ==
    ASSUME AssetTypeOK, StepsInv, UnpublishedInv, DoomedInv, BytesInv, [AssetNext]_assetVars
    PROVE  BytesInv'
<1> USE AssetAssumption
<1>1. CASE UNCHANGED assetVars \/ \E a \in Assets : Expire(a) \/ \E b \in Bytes : Put(a, b)
  <2>1. UNCHANGED <<asset, file, at, serves, doomed>>
    BY <1>1 DEF assetVars, Expire, Put, objects
  <2> QED
    BY <2>1 DEF BytesInv, On
<1>2. ASSUME NEW s \in Slots, NEW op, NEW a, NEW step, Accept(s, op, a, step),
             step \notin {"drop", "mark"}, doomed \subseteq doomed'
      PROVE  BytesInv'
  <2>1. /\ at'[s] = step /\ UNCHANGED <<asset, file>>
        /\ \A t \in Slots \ {s} : at'[t] = at[t] /\ On(t)' = On(t)
    BY <1>2 DEF Accept, AssetTypeOK, On, objects
  <2> QED
    BY <1>2, <2>1 DEF BytesInv
<1>3. ASSUME NEW s \in Slots, NEW op \in Ops, Add(s, op) PROVE BytesInv'
  <2>1. Accept(s, op, None, "stale") /\ doomed \subseteq doomed'
    BY <1>3 DEF Add
  <2> QED
    BY <1>2, <2>1
<1>4. ASSUME NEW s \in Slots, NEW a \in Assets, Finish(s, a) \/ DeleteAsset(s, a)
      PROVE  BytesInv'
  <2>1. CASE Finish(s, a)
    <3>1. Accept(s, "finish", a, "head") /\ doomed \subseteq doomed'
      BY <2>1 DEF Finish
    <3> QED
      BY <1>2, <3>1
  <2>2. CASE DeleteAsset(s, a)
    <3>1. Accept(s, "delete", a, "wipeFile") /\ doomed \subseteq doomed'
      BY <2>2 DEF DeleteAsset
    <3> QED
      BY <1>2, <3>1
  <2> QED
    BY <1>4, <2>1, <2>2
<1>5. ASSUME NEW s \in Slots, AssetStep(s), UNCHANGED doomed PROVE BytesInv'
  <2>1. ASSUME NEW a \in Assets \ doomed, asset'[a] = "uploaded" PROVE file'[a] # None
    <3>1. CASE asset[a] = "uploaded"
      BY <1>5, <2>1, <3>1, WhatGoes DEF BytesInv
    <3>2. CASE asset[a] # "uploaded"
      <4>1. Mark(s) \/ MarkFails(s)
        BY <1>5, <2>1, <3>2, OnlyMarkPublishes
      <4>2. a = On(s) /\ at[s] = "mark" /\ UNCHANGED file
        BY <2>1, <3>2, <4>1 DEF Mark, MarkFails, MarkUploaded, AssetTypeOK, objects
      <4> QED
        BY <2>1, <4>2 DEF BytesInv
    <3> QED
      BY <3>1, <3>2
  <2>2. ASSUME NEW t \in Slots \ {s}, at'[t] \in {"drop", "mark"}, On(t)' \notin doomed
        PROVE  file'[On(t)'] # None
    <3>1. at'[t] = at[t] /\ On(t)' = On(t) /\ On(t) \in Assets
      BY <1>5, <2>2, OneRequestSteps DEF On, StepsInv, FinishSteps
    <3> QED
      BY <1>5, <2>2, <3>1, WhatGoes DEF BytesInv
  <2>3. ASSUME at'[s] \in {"drop", "mark"}, On(s)' \notin doomed PROVE file'[On(s)'] # None
    <3> USE DEF AssetTypeOK, On, Then, Ends, AfterReap, AfterInsert
    <3>1. CASE FindStale(s) \/ Reap(s) \/ Unput(s) \/ FindNamed(s) \/ Replace(s)
      BY <2>3, <3>1 DEF FindStale, Reap, Unput, FindNamed, Replace
    <3>2. CASE InsertRow(s) \/ InsertRefused(s) \/ DropOld(s) \/ Presign(s)
      BY <2>3, <3>2 DEF InsertRow, InsertRefused, DropOld, Presign
    <3>3. CASE \E b \in Bytes : PutFile(s, b)
      BY <2>3, <3>3 DEF PutFile, StepsInv
    <3>4. CASE Mark(s) \/ MarkFails(s) \/ UndoRow(s) \/ HeadUpload(s) \/ Discard(s)
               \/ DiscardRow(s)
      BY <2>3, <3>4 DEF Mark, MarkFails, UndoRow, HeadUpload, Discard, DiscardRow
    <3>5. CASE CopyUpload(s)
      BY <2>3, <3>5 DEF CopyUpload, StepsInv, FinishSteps
    <3>6. CASE DropUpload(s)
      BY <2>3, <3>6 DEF DropUpload, BytesInv
    <3>7. CASE WipeFile(s) \/ WipeUpload(s) \/ WipeRow(s) \/ CallFails(s)
      BY <2>3, <3>7 DEF WipeFile, WipeUpload, WipeRow, CallFails
    <3> QED
      BY <1>5, <3>1, <3>2, <3>3, <3>4, <3>5, <3>6, <3>7 DEF AssetStep
  <2> QED
    BY <1>5, <2>1, <2>2, <2>3 DEF BytesInv
<1> QED
  BY <1>1, <1>3, <1>4, <1>5 DEF AssetNext

AssetInv == AssetTypeOK /\ StepsInv /\ UnpublishedInv /\ DoomedInv /\ BytesInv

LEMMA AssetInvariant ==
    ASSUME Overlaps \subseteq {"put"}
    PROVE  AssetSpec => []AssetInv
<1>1. AssetInit => AloneInv /\ UnpublishedInv /\ DoomedInv /\ BytesInv
  BY DEF AssetInit, AloneInv, UnpublishedInv, Unpublished, DoomedInv, BytesInv, Adder, Finisher,
     FinishSteps
<1>2. /\ AssetTypeOK /\ StepsInv
      /\ AloneInv /\ UnpublishedInv /\ DoomedInv /\ BytesInv
      /\ [AssetNext]_assetVars
      => AloneInv' /\ UnpublishedInv' /\ DoomedInv' /\ BytesInv'
  BY AloneStep, UnpublishedStep, DoomedStep, BytesStep
<1> QED
  BY <1>1, <1>2, AssetTyping, PTL DEF AssetSpec, AssetInv

\* Where one request at a time adds or finishes, while clients put, others reap,
\* list and delete, and any call may fail, a published asset goes only when
\* somebody deletes it, or the upload that published it takes it back because it
\* was told that it had not.
THEOREM PublishedStays ==
    ASSUME Overlaps \subseteq {"put"}
    PROVE  AssetSpec => AssetKept
<1>1. AssetInv /\ [AssetNext]_assetVars =>
        [\A a \in Assets :
            asset[a] = "uploaded" /\ asset'[a] = "gone"
            => a \in doomed \/ \E s \in Slots : TakesBack(s, a)]_assetVars
  <2> SUFFICES ASSUME AssetInv, AssetNext, NEW a \in Assets,
                      asset[a] = "uploaded", asset'[a] = "gone", a \notin doomed
               PROVE  \E s \in Slots : TakesBack(s, a)
    BY DEF assetVars
  <2>1. PICK s \in Slots : AssetStep(s)
    BY WhatStays DEF AssetInv
  <2> QED
    BY <2>1, WhatGoes DEF AssetInv
<1> QED
  BY <1>1, AssetInvariant, PTL DEF AssetSpec, AssetKept

\* In the same conditions a published asset has bytes, and they stay as they are.
THEOREM PublishedBytesStay ==
    ASSUME Overlaps \subseteq {"put"}
    PROVE  AssetSpec => PublishedBytes
<1>1. AssetInv /\ BytesInv' /\ [AssetNext]_assetVars =>
        [\A a \in Assets \ doomed' :
            asset'[a] = "uploaded" =>
               /\ file'[a] # None
               /\ asset[a] = "uploaded" => file'[a] = file[a]]_assetVars
  <2> SUFFICES ASSUME AssetInv, BytesInv', AssetNext, NEW a \in Assets \ doomed',
                      asset'[a] = "uploaded"
               PROVE  file'[a] # None /\ (asset[a] = "uploaded" => file'[a] = file[a])
    BY DEF assetVars
  <2>1. file'[a] # None
    BY DEF BytesInv
  <2>2. asset[a] = "uploaded" => file'[a] = file[a]
    BY WhatStays, WhatGoes DEF AssetInv
  <2> QED
    BY <2>1, <2>2
<1> QED
  BY <1>1, AssetInvariant, PTL DEF AssetSpec, PublishedBytes, AssetInv

-----------------------------------------------------------------------------
(* The three in one specification                                          *)

\* What is proved of each of the three holds of the web server as a whole.
THEOREM WebIsEach == WebSpec => PullSpec /\ AssetSpec /\ CodeSpec /\ RateSpec
<1>1. WebInit => PullInit /\ AssetInit /\ CodeInit /\ RateInit
  BY DEF WebInit
<1>2. [WebNext]_webVars => /\ [PullNext]_pullVars /\ [AssetNext]_assetVars
                           /\ [CodeNext]_codeVars /\ [RateNext]_rateVars
  BY DEF WebNext, Only, webVars
<1> QED
  BY <1>1, <1>2, PTL DEF WebSpec, PullSpec, AssetSpec, CodeSpec, RateSpec

\* Rows, objects, requests and histories keep their types whichever of the
\* four parts is at work.
THEOREM WebTyping == WebSpec => []WebTypeOK
<1>1. PullTypeOK /\ AssetTypeOK /\ CodeTypeOK /\ RateTypeOK => WebTypeOK
  BY DEF WebTypeOK
<1>2. CodeTyped => CodeTypeOK
  BY DEF CodeTyped
<1> QED
  BY <1>1, <1>2, WebIsEach, PullTyping, AssetTyping, CodeTyping, RateTyping, PTL

-----------------------------------------------------------------------------
(* Trees                                                                   *)

\* Every set of numbers has a least one, which induction rests on.
LEMMA LeastNat ==
    ASSUME NEW T \in SUBSET Nat, T # {}
    PROVE  \E x \in T : \A y \in T : x <= y
<1> DEFINE R == {ss \in Nat \X Nat : ss[1] < ss[2]}
<1>1. R = OpToRel(<, Nat)
  BY DEF OpToRel
<1>2. IsWellFoundedOn(R, Nat)
  BY <1>1, NatLessThanWellFounded
<1>3. \E x \in T : \A y \in T : <<y, x>> \notin R
  <2> HIDE DEF R
  <2> QED
    BY <1>2, WFMin
<1>4. \A x, y \in Nat : <<y, x>> \notin R => x <= y
  OBVIOUS
<1> HIDE DEF R
<1> QED
  BY <1>3, <1>4

LEMMA SetInduction ==
    ASSUME NEW S, \A n \in Nat : (\A m \in Nat : m < n => m \in S) => n \in S
    PROVE  Nat \subseteq S
<1> SUFFICES ASSUME Nat \ S # {} PROVE FALSE
  OBVIOUS
<1>1. PICK x \in Nat \ S : \A y \in Nat \ S : x <= y
  BY LeastNat
<1> QED
  BY <1>1

-----------------------------------------------------------------------------

Triples == Versions \X Versions \X Versions

\* The entry under n of what e has in it is one, and further up.
LevelBelow(e, n) ==
    /\ BaseTree(e)[n] \in Versions
    /\ IF IsTree(e) THEN Depth[BaseTree(e)[n]] < Depth[e] ELSE Depth[BaseTree(e)[n]] = 0

LEMMA LevelsBelow == \A e \in Versions : \A n \in Names : LevelBelow(e, n)
<1> SUFFICES ASSUME NEW e \in Versions, NEW n \in Names PROVE LevelBelow(e, n)
  OBVIOUS
<1>1. CASE IsTree(e)
  <2>1. e \in TreeEntries
    BY <1>1 DEF Versions, IsTree, Absent
  <2>2. e.sub \in [Names -> Versions] /\ Depth[e.sub[n]] < Depth[e]
    BY <1>1, <2>1, TreeAssumption
  <2> QED
    BY <1>1, <2>2 DEF LevelBelow, BaseTree
<1>2. CASE ~IsTree(e)
  <2>1. BaseTree(e)[n] = Absent
    BY <1>2 DEF BaseTree, EmptyTree
  <2> QED
    BY <1>2, <2>1, TreeAssumption DEF LevelBelow, Versions
<1> QED
  BY <1>1, <1>2

\* The merge of entries asks only for merges of what is in our tree.
LEMMA MergeLooksBelow ==
    ASSUME NEW v \in Triples, NEW g, NEW h,
           \A w \in Triples : Depth[w[2]] < Depth[v[2]] => g[w] = h[w]
    PROVE  Merge(g, v[1], v[2], v[3]) = Merge(h, v[1], v[2], v[3])
<1> DEFINE b == v[1]
           o == v[2]
           t == v[3]
<1>0. \A w \in Triples : Depth[w[2]] < Depth[o] => g[w] = h[w]
  OBVIOUS
<1>1. b \in Versions /\ o \in Versions /\ t \in Versions
  BY DEF Triples
<1> HIDE DEF b, o, t
<1>2. ASSUME IsTree(o), IsTree(t)
      PROVE  MergeTrees(g, BaseTree(b), o.sub, t.sub) = MergeTrees(h, BaseTree(b), o.sub, t.sub)
  <2>1. o.sub = BaseTree(o) /\ t.sub = BaseTree(t)
    BY <1>2 DEF BaseTree
  <2>2. ASSUME NEW n \in Names
        PROVE  /\ BaseTree(b)[n] \in Versions /\ o.sub[n] \in Versions /\ t.sub[n] \in Versions
               /\ Depth[o.sub[n]] < Depth[o]
    BY <1>1, <1>2, <2>1, LevelsBelow DEF LevelBelow
  <2>3. ASSUME NEW n \in Names
        PROVE  g[<<BaseTree(b)[n], o.sub[n], t.sub[n]>>] = h[<<BaseTree(b)[n], o.sub[n], t.sub[n]>>]
    <3> DEFINE w == <<BaseTree(b)[n], o.sub[n], t.sub[n]>>
    <3>1. w \in Triples /\ w[2] = o.sub[n]
      BY <2>2 DEF Triples
    <3> HIDE DEF w
    <3>2. g[w] = h[w]
      BY <1>0, <2>2, <3>1
    <3> QED
      BY <3>2 DEF w
  <2> DEFINE G == [n \in Names |-> g[<<BaseTree(b)[n], o.sub[n], t.sub[n]>>]]
             H == [n \in Names |-> h[<<BaseTree(b)[n], o.sub[n], t.sub[n]>>]]
  <2>4. G = H
    BY <2>3
  <2>5. /\ MergeTrees(g, BaseTree(b), o.sub, t.sub) =
             [tree |-> [n \in Names |-> G[n].entry],
              conflicts |-> UNION {{<<n>> \o path : path \in G[n].conflicts} : n \in Names}]
        /\ MergeTrees(h, BaseTree(b), o.sub, t.sub) =
             [tree |-> [n \in Names |-> H[n].entry],
              conflicts |-> UNION {{<<n>> \o path : path \in H[n].conflicts} : n \in Names}]
    BY DEF MergeTrees
  <2> HIDE DEF G, H
  <2> QED
    BY <2>4, <2>5
<1>3. Merge(g, b, o, t) = Merge(h, b, o, t)
  BY <1>2 DEF Merge, MergeChangedEntry
<1> QED
  BY <1>3 DEF b, o, t

\* g merges the entries of less than n levels of ours as MergeEntry is to.
Fits(g, n) ==
    \A v \in Triples : Depth[v[2]] < n => g[v] = Merge(g, v[1], v[2], v[3])

LEMMA DepthIsNat == \A v \in Triples : Depth[v[2]] \in Nat
  BY TreeAssumption DEF Triples

LEMMA FitExists ==
    ASSUME NEW n \in Nat
    PROVE  \E g : Fits(g, n)
<1> DEFINE Ok == {k \in Nat : \E g : Fits(g, k)}
<1>1. ASSUME NEW k \in Nat, \A m \in Nat : m < k => m \in Ok
      PROVE  k \in Ok
  <2>1. CASE k = 0
    BY <2>1, DepthIsNat DEF Fits
  <2>2. CASE k # 0
    <3>1. k - 1 \in Nat /\ k - 1 < k
      BY <2>2
    <3>2. PICK g : Fits(g, k - 1)
      BY <1>1, <3>1
    <3> DEFINE h == [v \in Triples |-> Merge(g, v[1], v[2], v[3])]
    <3>3. \A w \in Triples : Depth[w[2]] < k - 1 => g[w] = h[w]
      BY <3>2 DEF Fits
    <3>4. ASSUME NEW v \in Triples, Depth[v[2]] < k
          PROVE  h[v] = Merge(h, v[1], v[2], v[3])
      <4>1. \A w \in Triples : Depth[w[2]] < Depth[v[2]] => g[w] = h[w]
        BY <3>1, <3>3, <3>4, DepthIsNat
      <4>2. h[v] = Merge(g, v[1], v[2], v[3])
        OBVIOUS
      <4> HIDE DEF h
      <4> QED
        BY <4>1, <4>2, MergeLooksBelow
    <3>5. Fits(h, k)
      <4> HIDE DEF h
      <4> QED
        BY <3>4 DEF Fits
    <3> QED
      BY <3>5
  <2> QED
    BY <2>1, <2>2
<1> HIDE DEF Ok
<1>2. Nat \subseteq Ok
  BY <1>1, SetInduction
<1> USE DEF Ok
<1> QED
  BY <1>2

LEMMA FitsAgree ==
    ASSUME NEW g, NEW h, NEW n \in Nat, Fits(g, n), Fits(h, n),
           NEW v \in Triples, Depth[v[2]] < n
    PROVE  g[v] = h[v]
<1> DEFINE Same == {m \in Nat : m < n => \A w \in Triples : Depth[w[2]] = m => g[w] = h[w]}
<1>1. ASSUME NEW m \in Nat, \A k \in Nat : k < m => k \in Same
      PROVE  m \in Same
  <2> SUFFICES ASSUME m < n, NEW w \in Triples, Depth[w[2]] = m
               PROVE  g[w] = h[w]
    OBVIOUS
  <2>1. \A y \in Triples : Depth[y[2]] < Depth[w[2]] => g[y] = h[y]
    BY <1>1, DepthIsNat
  <2>2. Merge(g, w[1], w[2], w[3]) = Merge(h, w[1], w[2], w[3])
    BY <2>1, MergeLooksBelow
  <2> QED
    BY <2>2 DEF Fits
<1> HIDE DEF Same
<1>2. Nat \subseteq Same
  BY <1>1, SetInduction
<1> USE DEF Same
<1> QED
  BY <1>2, DepthIsNat

\* MergeEntry is what its definition says.
LEMMA MergeEntryIs ==
    ASSUME NEW b \in Versions, NEW o \in Versions, NEW t \in Versions
    PROVE  MergeEntry[<<b, o, t>>] = Merge(MergeEntry, b, o, t)
<1> DEFINE Fit(n) == CHOOSE g : Fits(g, n)
           f == [v \in Triples |-> Fit(Depth[v[2]] + 1)[v]]
<1>1. \A n \in Nat : Fits(Fit(n), n)
  BY FitExists
<1>2. ASSUME NEW v \in Triples PROVE f[v] = Merge(f, v[1], v[2], v[3])
  <2> DEFINE g == Fit(Depth[v[2]] + 1)
  <2>1. Depth[v[2]] + 1 \in Nat /\ Fits(g, Depth[v[2]] + 1)
    BY <1>1, DepthIsNat
  <2>2. f[v] = g[v] /\ g[v] = Merge(g, v[1], v[2], v[3])
    BY <2>1, DepthIsNat DEF Fits
  <2>3. ASSUME NEW w \in Triples, Depth[w[2]] < Depth[v[2]] PROVE f[w] = g[w]
    <3>1. Depth[w[2]] + 1 \in Nat /\ Fits(Fit(Depth[w[2]] + 1), Depth[w[2]] + 1)
      BY <1>1, DepthIsNat
    <3>2. Fits(g, Depth[w[2]] + 1)
      BY <2>1, <2>3, <3>1, DepthIsNat DEF Fits
    <3>3. f[w] = Fit(Depth[w[2]] + 1)[w]
      OBVIOUS
    <3>4. Depth[w[2]] < Depth[w[2]] + 1
      BY DepthIsNat
    <3> HIDE DEF f, g, Fit
    <3> QED
      BY <3>1, <3>2, <3>3, <3>4, FitsAgree
  <2> HIDE DEF f, g
  <2>4. Merge(f, v[1], v[2], v[3]) = Merge(g, v[1], v[2], v[3])
    BY <2>3, MergeLooksBelow
  <2> QED
    BY <2>2, <2>4
<1>3. f = [v \in Triples |-> Merge(f, v[1], v[2], v[3])]
  <2> HIDE DEF Fit
  <2>1. f = [v \in Triples |-> f[v]]
    OBVIOUS
  <2> HIDE DEF f
  <2> QED
    BY <1>2, <2>1
<1>4. \E e : e = [v \in Triples |-> Merge(e, v[1], v[2], v[3])]
  BY <1>3
<1>5. MergeEntry = [v \in Triples |-> Merge(MergeEntry, v[1], v[2], v[3])]
  BY <1>4 DEF MergeEntry, Triples
<1>6. <<b, o, t>> \in Triples
  BY DEF Triples
<1> DEFINE v == <<b, o, t>>
<1>7. MergeEntry[v] = Merge(MergeEntry, v[1], v[2], v[3])
  <2> HIDE DEF v
  <2>1. v \in Triples
    BY <1>6 DEF v
  <2> QED
    BY <1>5, <2>1
<1> QED
  BY <1>7
-----------------------------------------------------------------------------

\* w[k] is what the first k names of path p lead to from e.
Walks(w, e, p, n) ==
    \A k \in 0..n :
        w[k] = IF k = 0 THEN e
               ELSE IF IsTree(w[k - 1]) THEN w[k - 1].sub[p[k]] ELSE Absent

LEMMA WalkExists ==
    ASSUME NEW e, NEW p, NEW n \in Nat
    PROVE  \E w : Walks(w, e, p, n)
<1> DEFINE Ok == {k \in Nat : \E w : Walks(w, e, p, k)}
<1>1. ASSUME NEW k \in Nat, \A m \in Nat : m < k => m \in Ok
      PROVE  k \in Ok
  <2>1. CASE k = 0
    <3>1. Walks([i \in 0..0 |-> e], e, p, 0)
      BY DEF Walks
    <3> QED
      BY <2>1, <3>1
  <2>2. CASE k # 0
    <3>1. k - 1 \in Nat /\ k - 1 < k
      BY <2>2
    <3>2. PICK w : Walks(w, e, p, k - 1)
      BY <1>1, <3>1
    <3> DEFINE u == [i \in 0..k |->
                        IF i = 0 THEN e
                        ELSE IF IsTree(w[i - 1]) THEN w[i - 1].sub[p[i]] ELSE Absent]
    <3>3. \A i \in 0..(k - 1) : u[i] = w[i]
      BY <3>1, <3>2 DEF Walks
    <3>4. \A i \in 0..k : i = 0 \/ i - 1 \in 0..(k - 1)
      BY <3>1
    <3>5. \A i \in 0..k : u[i] = IF i = 0 THEN e
                                 ELSE IF IsTree(w[i - 1]) THEN w[i - 1].sub[p[i]] ELSE Absent
      OBVIOUS
    <3> HIDE DEF u
    <3>6. Walks(u, e, p, k)
      BY <3>3, <3>4, <3>5 DEF Walks
    <3> QED
      BY <3>6
  <2> QED
    BY <2>1, <2>2
<1> HIDE DEF Ok
<1>2. Nat \subseteq Ok
  BY <1>1, SetInduction
<1> USE DEF Ok
<1> QED
  BY <1>2

LEMMA WalksAgree ==
    ASSUME NEW e, NEW p, NEW n \in Nat, NEW w, NEW u,
           Walks(w, e, p, n), Walks(u, e, p, n)
    PROVE  w[n] = u[n]
<1> DEFINE Same == {k \in Nat : k <= n => w[k] = u[k]}
<1>1. ASSUME NEW k \in Nat, \A m \in Nat : m < k => m \in Same
      PROVE  k \in Same
  <2> SUFFICES ASSUME k <= n PROVE w[k] = u[k]
    OBVIOUS
  <2>1. k \in 0..n
    OBVIOUS
  <2>2. CASE k = 0
    BY <2>1, <2>2 DEF Walks
  <2>3. CASE k # 0
    <3>1. k - 1 \in Nat /\ k - 1 < k /\ k - 1 <= n
      BY <2>3
    <3>2. w[k - 1] = u[k - 1]
      BY <1>1, <3>1
    <3> QED
      BY <2>1, <2>3, <3>2 DEF Walks
  <2> QED
    BY <2>2, <2>3
<1> HIDE DEF Same
<1>2. Nat \subseteq Same
  BY <1>1, SetInduction
<1> USE DEF Same
<1> QED
  BY <1>2

LEMMA EntryAtIs ==
    ASSUME NEW e, NEW p, Len(p) \in Nat, NEW w, Walks(w, e, p, Len(p))
    PROVE  EntryAt(e, p) = w[Len(p)]
<1> DEFINE Step(f) == [k \in 0..Len(p) |->
                         IF k = 0 THEN e
                         ELSE IF IsTree(f[k - 1]) THEN f[k - 1].sub[p[k]] ELSE Absent]
           walk == CHOOSE f : f = Step(f)
           u == [k \in 0..Len(p) |-> w[k]]
<1>1. u = Step(u)
  <2>1. \A k \in 0..Len(p) : u[k] = w[k] /\ (k # 0 => u[k - 1] = w[k - 1])
    OBVIOUS
  <2>2. u = [k \in 0..Len(p) |-> u[k]]
    OBVIOUS
  <2>3. \A k \in 0..Len(p) :
           u[k] = IF k = 0 THEN e
                  ELSE IF IsTree(u[k - 1]) THEN u[k - 1].sub[p[k]] ELSE Absent
    <3> HIDE DEF u
    <3> QED
      BY <2>1 DEF Walks
  <2> HIDE DEF u
  <2> QED
    BY <2>2, <2>3
<1>2. \E f : f = Step(f)
  BY <1>1
<1>3. walk = Step(walk)
  BY <1>2
<1>4. EntryAt(e, p) = walk[Len(p)]
  BY DEF EntryAt
<1> HIDE DEF walk
<1>5. Walks(walk, e, p, Len(p))
  BY <1>3 DEF Walks
<1> QED
  BY <1>4, <1>5, WalksAgree

LEMMA EntryAtHere == \A e : EntryAt(e, <<>>) = e
<1> SUFFICES ASSUME NEW e PROVE EntryAt(e, <<>>) = e
  OBVIOUS
<1>1. Len(<<>>) = 0 /\ Len(<<>>) \in Nat
  OBVIOUS
<1>2. PICK w : Walks(w, e, <<>>, Len(<<>>))
  BY <1>1, WalkExists
<1>3. EntryAt(e, <<>>) = w[Len(<<>>)]
  BY <1>1, <1>2, EntryAtIs
<1>4. w[0] = e
  BY <1>1, <1>2 DEF Walks
<1> QED
  BY <1>1, <1>3, <1>4

\* A path leads from a tree where its tail leads from its first entry.
LEMMA EntryAtBelow ==
    ASSUME NEW e, NEW p \in Seq(Names), p # <<>>
    PROVE  EntryAt(e, p) = IF IsTree(e) THEN EntryAt(e.sub[Head(p)], Tail(p)) ELSE Absent
<1> DEFINE n == Len(p)
           q == Tail(p)
<1>1. /\ n \in Nat /\ n # 0 /\ Head(p) = p[1]
      /\ q \in Seq(Names) /\ Len(q) = n - 1 /\ n - 1 \in Nat
      /\ \A k \in 1..(n - 1) : q[k] = p[k + 1]
  OBVIOUS
<1> HIDE DEF n, q
<1>2. PICK w : Walks(w, e, p, n)
  BY <1>1, WalkExists
<1>3. EntryAt(e, p) = w[n]
  BY <1>1, <1>2, EntryAtIs DEF n
<1>4. CASE IsTree(e)
  <2> DEFINE v == [k \in 0..(n - 1) |-> w[k + 1]]
  <2>1. w[0] = e /\ w[1] = e.sub[Head(p)]
    <3>1. 0 \in 0..n /\ 1 \in 0..n /\ 1 - 1 = 0 /\ 1 # 0
      BY <1>1
    <3>2. w[0] = e
      BY <1>2, <3>1 DEF Walks
    <3>3. w[1] = IF IsTree(w[0]) THEN w[0].sub[p[1]] ELSE Absent
      BY <1>2, <3>1 DEF Walks
    <3> QED
      BY <1>1, <1>4, <3>2, <3>3
  <2>2. ASSUME NEW k \in 0..(n - 1), k # 0
        PROVE  v[k] = IF IsTree(v[k - 1]) THEN v[k - 1].sub[q[k]] ELSE Absent
    <3>1. /\ k \in 1..(n - 1) /\ k + 1 \in 0..n /\ k + 1 # 0 /\ (k + 1) - 1 = k
          /\ k - 1 \in 0..(n - 1) /\ (k - 1) + 1 = k
      BY <1>1, <2>2
    <3>2. w[k + 1] = IF IsTree(w[k]) THEN w[k].sub[p[k + 1]] ELSE Absent
      BY <1>2, <3>1 DEF Walks
    <3>3. v[k] = w[k + 1] /\ v[k - 1] = w[k]
      BY <3>1
    <3> HIDE DEF v
    <3> QED
      BY <1>1, <3>1, <3>2, <3>3
  <2>3. v[0] = e.sub[Head(p)] /\ v[n - 1] = w[n]
    BY <1>1, <2>1
  <2> HIDE DEF v
  <2>4. Walks(v, e.sub[Head(p)], q, Len(q))
    BY <1>1, <2>2, <2>3 DEF Walks
  <2>5. EntryAt(e.sub[Head(p)], q) = v[Len(q)]
    BY <1>1, <2>4, EntryAtIs
  <2> QED
    BY <1>1, <1>3, <1>4, <2>3, <2>5 DEF q
<1>5. CASE ~IsTree(e)
  <2> DEFINE v == [k \in 0..n |-> IF k = 0 THEN e ELSE Absent]
  <2>1. ~IsTree(Absent)
    BY DEF IsTree, Absent
  <2>2. Walks(v, e, p, n)
    BY <1>1, <1>5, <2>1 DEF Walks
  <2>3. v[n] = Absent
    BY <1>1
  <2> HIDE DEF v
  <2> QED
    BY <1>1, <1>3, <1>2, <1>5, <2>2, <2>3, WalksAgree
<1> QED
  BY <1>4, <1>5
-----------------------------------------------------------------------------

PathsTo(d) == {p \in Seq(Names) : Len(p) <= d}

\* What m says of the merge of b, o and t is what their paths say.
AsPaths(b, o, t, m, d) ==
    /\ \A p \in m.conflicts : p \in PathsTo(d) /\ ConflictAt(b, o, t, p)
    /\ \A p \in PathsTo(d) :
          ConflictAt(b, o, t, p) /\ ~TheirLinkAt(b, o, t, p)
             => \E k \in 0..Len(p) : SubSeq(p, 1, k) \in m.conflicts
    /\ m.conflicts = {} =>
          \A p \in PathsTo(d) :
             FileAt(m.entry, p) = WantedAt(b, o, t, p) \/ TheirLinkAt(b, o, t, p)

LEMMA AbsentBelow ==
    ASSUME NEW p \in Seq(Names), NEW e, ~IsTree(e), p # <<>>
    PROVE  EntryAt(e, p) = Absent /\ FileAt(e, p) = Absent
  BY EntryAtBelow DEF FileAt, File, IsTree, Absent

\* An entry that at most one side changed.
LEMMA OneSide ==
    ASSUME NEW b, NEW o, NEW t, NEW e, NEW d,
           \/ o = t /\ e = o
           \/ b = o /\ e = t
           \/ b = t /\ e = o
    PROVE  AsPaths(b, o, t, Clean(e), d)
<1>1. Clean(e).entry = e /\ Clean(e).conflicts = {}
  BY DEF Clean
<1>2. ASSUME NEW p \in PathsTo(d) PROVE ~ConflictAt(b, o, t, p)
  BY DEF ConflictAt, Irreconcilable, DirectoryClash, BothChanged
<1>3. ASSUME NEW p \in PathsTo(d) PROVE FileAt(e, p) = WantedAt(b, o, t, p)
  BY DEF WantedAt, Wanted
<1> QED
  BY <1>1, <1>2, <1>3 DEF AsPaths

\* An entry that both sides changed, where they do not both have a tree.
LEMMA NotBothTrees ==
    ASSUME NEW b, NEW o, NEW t, NEW d \in Nat, BothChanged(b, o, t),
           ~(IsTree(o) /\ IsTree(t))
    PROVE  AsPaths(b, o, t, MergeFiles(b, o, t), d)
<1>1. <<>> \in PathsTo(d)
  BY DEF PathsTo
<1>2. /\ EntryAt(b, <<>>) = b /\ EntryAt(o, <<>>) = o /\ EntryAt(t, <<>>) = t
      /\ FileAt(b, <<>>) = File(b) /\ FileAt(o, <<>>) = File(o) /\ FileAt(t, <<>>) = File(t)
  BY EntryAtHere DEF FileAt
<1>3. /\ \A e : IsFile(e) => ~IsTree(e) /\ File(e) = e /\ e # Absent
      /\ \A e : IsTree(e) => ~IsFile(e) /\ File(e) = Absent
      /\ ~IsTree(Absent) /\ ~IsFile(Absent)
  BY DEF IsFile, IsTree, File, Absent
<1>4. ASSUME IsFile(o), IsFile(t)
      PROVE  /\ MergeMode(File(b), o, t) = MergeMode(b, o, t)
             /\ Mergeable(File(b), o, t) = Mergeable(b, o, t)
             /\ MergedText(File(b), o, t) = MergedText(b, o, t)
             /\ BothChanged(File(b), o, t)
  <2>1. CASE IsTree(b)
    <3>1. File(b) = Absent /\ BaseText(b) = EmptyText /\ BaseText(Absent) = EmptyText
      BY <1>3, <2>1 DEF BaseText
    <3>2. MergeMode(Absent, o, t) = MergeMode(b, o, t)
      BY <1>4, <2>1 DEF MergeMode, Absent, IsFile, IsTree
    <3>3. BothChanged(Absent, o, t)
      BY <1>3, <1>4 DEF BothChanged
    <3> QED
      BY <3>1, <3>2, <3>3 DEF Mergeable, MergedText
  <2>2. CASE ~IsTree(b)
    BY <2>2 DEF File
  <2> QED
    BY <2>1, <2>2
<1>5. CASE /\ IsFile(o) /\ IsFile(t) /\ ~IsLink(o)
           /\ MergeMode(b, o, t) # None /\ Mergeable(b, o, t)
  <2> DEFINE e == Blob(MergeMode(b, o, t), MergedText(b, o, t))
  <2>1. MergeFiles(b, o, t) = Clean(e)
    BY <1>5 DEF MergeFiles
  <2>2. Clean(e).entry = e /\ Clean(e).conflicts = {}
    BY DEF Clean
  <2>3. e.mode \in {o.mode, t.mode}
    BY <1>5 DEF MergeMode, Blob
  <2>4. ~IsTree(e) /\ File(e) = e
    <3>1. e.mode \in {"100644", "100755", "120000"}
      BY <1>5, <2>3 DEF IsFile
    <3> HIDE DEF e
    <3>2. ~IsTree(e)
      BY <3>1 DEF IsTree
    <3> QED
      BY <3>2 DEF File
  <2>5. IsLink(t) => TheirLinkAt(b, o, t, <<>>)
    BY <1>2, <1>3, <1>4, <1>5 DEF TheirLinkAt
  <2>6. ASSUME NEW p \in PathsTo(d), ~TheirLinkAt(b, o, t, p)
        PROVE  ~ConflictAt(b, o, t, p) /\ FileAt(e, p) = WantedAt(b, o, t, p)
    <3>1. CASE p = <<>>
      <4>1. ~Irreconcilable(File(b), o, t)
        BY <1>4, <1>5, <2>5, <2>6, <3>1 DEF Irreconcilable
      <4>2. ~DirectoryClash(b, o, t)
        BY <1>5 DEF DirectoryClash
      <4>3. Wanted(File(b), o, t) = e
        BY <1>4, <1>5 DEF Wanted, BothChanged
      <4>4. File(o) = o /\ File(t) = t
        BY <1>3, <1>5
      <4>5. FileAt(e, p) = e
        BY <2>4, <3>1, EntryAtHere DEF FileAt
      <4> HIDE DEF e
      <4> QED
        BY <3>1, <1>2, <4>1, <4>2, <4>3, <4>4, <4>5 DEF ConflictAt, WantedAt
    <3>2. CASE p # <<>>
      <4>1. p \in Seq(Names)
        BY DEF PathsTo
      <4>2. /\ EntryAt(o, p) = Absent /\ FileAt(o, p) = Absent
            /\ EntryAt(t, p) = Absent /\ FileAt(t, p) = Absent
        BY <1>3, <1>5, <3>2, <4>1, AbsentBelow
      <4>3. FileAt(e, p) = Absent
        <5> HIDE DEF e
        <5> QED
          BY <2>4, <3>2, <4>1, AbsentBelow
      <4>4. ~ConflictAt(b, o, t, p)
        BY <4>2 DEF ConflictAt, Irreconcilable, DirectoryClash, BothChanged
      <4>5. WantedAt(b, o, t, p) = Absent
        BY <4>2 DEF WantedAt, Wanted
      <4> QED
        BY <4>3, <4>4, <4>5
    <3> QED
      BY <3>1, <3>2
  <2> HIDE DEF e
  <2> QED
    BY <2>1, <2>2, <2>6 DEF AsPaths
<1>6. CASE ~(/\ IsFile(o) /\ IsFile(t) /\ ~IsLink(o)
             /\ MergeMode(b, o, t) # None /\ Mergeable(b, o, t))
  <2>1. MergeFiles(b, o, t) = Conflict /\ Conflict.conflicts = {<<>>}
    BY <1>6 DEF MergeFiles, Conflict
  <2>2. ConflictAt(b, o, t, <<>>)
    <3>1. CASE IsFile(o) /\ IsFile(t)
      <4>1. Irreconcilable(File(b), o, t)
        BY <1>4, <1>6, <3>1 DEF Irreconcilable
      <4> QED
        BY <1>2, <1>3, <3>1, <4>1 DEF ConflictAt
    <3>2. CASE ~(IsFile(o) /\ IsFile(t)) /\ (IsTree(b) \/ IsTree(o) \/ IsTree(t))
      <4>1. DirectoryClash(b, o, t)
        BY <3>2 DEF DirectoryClash
      <4> QED
        BY <1>2, <4>1 DEF ConflictAt
    <3>3. CASE ~(IsFile(o) /\ IsFile(t)) /\ ~(IsTree(b) \/ IsTree(o) \/ IsTree(t))
      <4>1. File(b) = b /\ File(o) = o /\ File(t) = t
        BY <3>3 DEF File
      <4>2. Irreconcilable(b, o, t)
        BY <3>3 DEF Irreconcilable
      <4> QED
        BY <1>2, <4>1, <4>2 DEF ConflictAt
    <3> QED
      BY <3>1, <3>2, <3>3
  <2>3. \A p \in PathsTo(d) : 0 \in 0..Len(p) /\ SubSeq(p, 1, 0) = <<>>
    BY DEF PathsTo
  <2> QED
    BY <1>1, <2>1, <2>2, <2>3 DEF AsPaths
<1> QED
  BY <1>5, <1>6

\* A path into one entry of a tree, and back.
LEMMA PathBelow ==
    ASSUME NEW n \in Names, NEW d \in Nat, NEW q \in PathsTo(d)
    PROVE  /\ <<n>> \o q \in PathsTo(d + 1) /\ <<n>> \o q # <<>>
           /\ Head(<<n>> \o q) = n /\ Tail(<<n>> \o q) = q
<1>1. q \in Seq(Names) /\ Len(q) \in Nat /\ Len(q) <= d
  BY DEF PathsTo
<1> DEFINE p == <<n>> \o q
<1>2. p \in Seq(Names) /\ Len(p) = Len(q) + 1 /\ p[1] = n
      /\ \A i \in 1..Len(q) : p[i + 1] = q[i]
  BY <1>1
<1> HIDE DEF p
<1>3. p # <<>> /\ Head(p) = n
  BY <1>1, <1>2
<1>4. Tail(p) \in Seq(Names) /\ Len(Tail(p)) = Len(q) /\ \A i \in 1..Len(q) : Tail(p)[i] = q[i]
  BY <1>1, <1>2, <1>3, HeadTailProperties
<1>5. Tail(p) = q
  BY <1>1, <1>4, SeqEqual
<1>6. p \in PathsTo(d + 1)
  BY <1>1, <1>2 DEF PathsTo
<1> QED
  BY <1>3, <1>5, <1>6 DEF p

LEMMA PathAbove ==
    ASSUME NEW d \in Nat, NEW p \in PathsTo(d + 1), p # <<>>
    PROVE  /\ Head(p) \in Names /\ Tail(p) \in PathsTo(d)
           /\ \A k \in 0..Len(Tail(p)) :
                 /\ k + 1 \in 0..Len(p)
                 /\ SubSeq(p, 1, k + 1) = <<Head(p)>> \o SubSeq(Tail(p), 1, k)
<1>1. p \in Seq(Names) /\ Len(p) \in Nat /\ Len(p) <= d + 1 /\ Len(p) # 0 /\ Head(p) = p[1]
  BY DEF PathsTo
<1>2. /\ Head(p) \in Names /\ Tail(p) \in Seq(Names) /\ Len(Tail(p)) = Len(p) - 1
      /\ \A i \in 1..Len(Tail(p)) : Tail(p)[i] = p[i + 1]
  BY <1>1, HeadTailProperties
<1>3. Tail(p) \in PathsTo(d)
  BY <1>1, <1>2 DEF PathsTo
<1>4. ASSUME NEW k \in 0..Len(Tail(p))
      PROVE  /\ k + 1 \in 0..Len(p)
             /\ SubSeq(p, 1, k + 1) = <<Head(p)>> \o SubSeq(Tail(p), 1, k)
  <2> DEFINE r == SubSeq(p, 1, k + 1)
             s == SubSeq(Tail(p), 1, k)
  <2>1. k + 1 \in 1..Len(p) /\ k \in Nat
    BY <1>1, <1>2
  <2>2. r \in Seq(Names) /\ Len(r) = k + 1 /\ \A i \in 1..(k + 1) : r[i] = p[i]
    BY <1>1, <2>1
  <2>3. s \in Seq(Names) /\ Len(s) = k /\ \A i \in 1..k : s[i] = p[i + 1]
    BY <1>1, <1>2, <2>1
  <2> HIDE DEF r, s
  <2>4. /\ <<Head(p)>> \o s \in Seq(Names) /\ Len(<<Head(p)>> \o s) = k + 1
        /\ \A i \in 1..(k + 1) : (<<Head(p)>> \o s)[i] = IF i = 1 THEN Head(p) ELSE s[i - 1]
    BY <1>2, <2>1, <2>3
  <2>5. \A i \in 1..(k + 1) : r[i] = (<<Head(p)>> \o s)[i]
    <3> SUFFICES ASSUME NEW i \in 1..(k + 1) PROVE r[i] = (<<Head(p)>> \o s)[i]
      OBVIOUS
    <3>1. CASE i = 1
      BY <1>1, <2>2, <2>4, <3>1
    <3>2. CASE i # 1
      <4>1. i - 1 \in 1..k /\ (i - 1) + 1 = i
        BY <2>1, <3>2
      <4> QED
        BY <2>2, <2>3, <2>4, <3>2, <4>1
    <3> QED
      BY <3>1, <3>2
  <2>6. r = <<Head(p)>> \o s
    BY <2>2, <2>4, <2>5, SeqEqual
  <2> QED
    BY <2>1, <2>6 DEF r, s
<1> QED
  BY <1>2, <1>3, <1>4

\* An entry that both sides have a tree for, if merge merges what is in them.
LEMMA BothTrees ==
    ASSUME NEW b, NEW o, NEW t, NEW d \in Nat, NEW merge, IsTree(o), IsTree(t),
           \A n \in Names :
              AsPaths(BaseTree(b)[n], o.sub[n], t.sub[n],
                      merge[<<BaseTree(b)[n], o.sub[n], t.sub[n]>>], d)
    PROVE  AsPaths(b, o, t, MergeChangedEntry(merge, b, o, t), d + 1)
<1> DEFINE B == BaseTree(b)
           O == o.sub
           T == t.sub
           M == [n \in Names |-> merge[<<B[n], O[n], T[n]>>]]
           F == [n \in Names |-> M[n].entry]
           C == UNION {{<<n>> \o path : path \in M[n].conflicts} : n \in Names}
           m == [entry |-> Tree(F), conflicts |-> C]
<1>1. MergeChangedEntry(merge, b, o, t) = m
  BY DEF MergeChangedEntry, MergeTrees
<1>2. m.entry = Tree(F) /\ m.conflicts = C /\ Tree(F).sub = F /\ IsTree(Tree(F))
  BY DEF Tree, IsTree
<1>3. \A n \in Names : AsPaths(B[n], O[n], T[n], M[n], d)
  OBVIOUS
<1>4. \A n \in Names : F[n] = M[n].entry
  OBVIOUS
<1> HIDE DEF M
<1>5. /\ \A p \in C : \E n \in Names : \E q \in M[n].conflicts : p = <<n>> \o q
      /\ \A n \in Names : \A q \in M[n].conflicts : <<n>> \o q \in C
  <2> DEFINE c(n) == {<<n>> \o q : q \in M[n].conflicts}
  <2>1. /\ \A p \in C : \E n \in Names : p \in c(n)
        /\ \A n \in Names : c(n) \subseteq C
    OBVIOUS
  <2>2. /\ \A n : \A p \in c(n) : \E q \in M[n].conflicts : p = <<n>> \o q
        /\ \A n : \A q \in M[n].conflicts : <<n>> \o q \in c(n)
    OBVIOUS
  <2> HIDE DEF c, C
  <2>3. ASSUME NEW p \in C PROVE \E n \in Names : \E q \in M[n].conflicts : p = <<n>> \o q
    <3>1. PICK n \in Names : p \in c(n)
      BY <2>1
    <3>2. \E q \in M[n].conflicts : p = <<n>> \o q
      BY <2>2, <3>1
    <3> QED
      BY <3>2
  <2>4. ASSUME NEW n \in Names, NEW q \in M[n].conflicts PROVE <<n>> \o q \in C
    <3>1. <<n>> \o q \in c(n) /\ c(n) \subseteq C
      BY <2>1, <2>2
    <3> QED
      BY <3>1
  <2> QED
    BY <2>3, <2>4
<1> HIDE DEF F, C, m
<1>6. ASSUME NEW p \in PathsTo(d + 1), p # <<>>
      PROVE  /\ EntryAt(b, p) = EntryAt(B[Head(p)], Tail(p))
             /\ EntryAt(o, p) = EntryAt(O[Head(p)], Tail(p))
             /\ EntryAt(t, p) = EntryAt(T[Head(p)], Tail(p))
             /\ EntryAt(Tree(F), p) = EntryAt(M[Head(p)].entry, Tail(p))
  <2>1. p \in Seq(Names) /\ Head(p) \in Names /\ Tail(p) \in Seq(Names)
    BY <1>6, PathAbove DEF PathsTo
  <2>2. EntryAt(b, p) = EntryAt(B[Head(p)], Tail(p))
    <3>1. CASE IsTree(b)
      BY <1>6, <2>1, <3>1, EntryAtBelow DEF BaseTree
    <3>2. CASE ~IsTree(b)
      <4>1. EntryAt(b, p) = Absent
        BY <1>6, <2>1, <3>2, AbsentBelow
      <4>2. B[Head(p)] = Absent
        BY <2>1, <3>2 DEF BaseTree, EmptyTree
      <4>3. EntryAt(Absent, Tail(p)) = Absent
        <5>1. ~IsTree(Absent)
          BY DEF IsTree, Absent
        <5> QED
          BY <2>1, <5>1, AbsentBelow, EntryAtHere
      <4> QED
        BY <4>1, <4>2, <4>3
    <3> QED
      BY <3>1, <3>2
  <2>3. EntryAt(o, p) = EntryAt(O[Head(p)], Tail(p)) /\ EntryAt(t, p) = EntryAt(T[Head(p)], Tail(p))
    BY <1>6, <2>1, EntryAtBelow
  <2>4. EntryAt(Tree(F), p) = EntryAt(M[Head(p)].entry, Tail(p))
    BY <1>2, <1>4, <1>6, <2>1, EntryAtBelow
  <2> QED
    BY <2>2, <2>3, <2>4
<1> HIDE DEF B, O, T
<1>7. ASSUME NEW p \in PathsTo(d + 1), p # <<>>
      PROVE  /\ ConflictAt(b, o, t, p) <=> ConflictAt(B[Head(p)], O[Head(p)], T[Head(p)], Tail(p))
             /\ TheirLinkAt(b, o, t, p) <=> TheirLinkAt(B[Head(p)], O[Head(p)], T[Head(p)], Tail(p))
             /\ WantedAt(b, o, t, p) = WantedAt(B[Head(p)], O[Head(p)], T[Head(p)], Tail(p))
             /\ FileAt(Tree(F), p) = FileAt(M[Head(p)].entry, Tail(p))
  <2> DEFINE h == Head(p)
             q == Tail(p)
  <2>1. /\ EntryAt(b, p) = EntryAt(B[h], q) /\ EntryAt(o, p) = EntryAt(O[h], q)
        /\ EntryAt(t, p) = EntryAt(T[h], q) /\ EntryAt(Tree(F), p) = EntryAt(M[h].entry, q)
    BY <1>6, <1>7
  <2> HIDE DEF h, q
  <2>2. /\ FileAt(b, p) = FileAt(B[h], q) /\ FileAt(o, p) = FileAt(O[h], q)
        /\ FileAt(t, p) = FileAt(T[h], q) /\ FileAt(Tree(F), p) = FileAt(M[h].entry, q)
    BY <2>1 DEF FileAt
  <2>3. ConflictAt(b, o, t, p) <=> ConflictAt(B[h], O[h], T[h], q)
    BY <2>1, <2>2 DEF ConflictAt
  <2>4. TheirLinkAt(b, o, t, p) <=> TheirLinkAt(B[h], O[h], T[h], q)
    BY <2>2 DEF TheirLinkAt
  <2>5. WantedAt(b, o, t, p) = WantedAt(B[h], O[h], T[h], q)
    BY <2>2 DEF WantedAt
  <2> QED
    BY <2>2, <2>3, <2>4, <2>5 DEF h, q
<1>8. ~ConflictAt(b, o, t, <<>>) /\ FileAt(Tree(F), <<>>) = WantedAt(b, o, t, <<>>)
  <2>1. EntryAt(o, <<>>) = o /\ EntryAt(t, <<>>) = t
    BY EntryAtHere
  <2>2. FileAt(o, <<>>) = Absent /\ FileAt(t, <<>>) = Absent /\ FileAt(Tree(F), <<>>) = Absent
    BY <1>2, EntryAtHere DEF FileAt, File
  <2>3. ~ConflictAt(b, o, t, <<>>)
    BY <2>1, <2>2 DEF ConflictAt, Irreconcilable, DirectoryClash, BothChanged
  <2>4. WantedAt(b, o, t, <<>>) = Absent
    BY <2>2 DEF WantedAt, Wanted
  <2> QED
    BY <2>2, <2>3, <2>4
<1>9. ASSUME NEW p \in C PROVE p \in PathsTo(d + 1) /\ ConflictAt(b, o, t, p)
  <2>1. PICK n \in Names : \E q \in M[n].conflicts : p = <<n>> \o q
    BY <1>5
  <2>2. PICK q \in M[n].conflicts : p = <<n>> \o q
    BY <2>1
  <2>3. q \in PathsTo(d) /\ ConflictAt(B[n], O[n], T[n], q)
    BY <1>3 DEF AsPaths
  <2>4. p \in PathsTo(d + 1) /\ p # <<>> /\ Head(p) = n /\ Tail(p) = q
    BY <2>2, <2>3, PathBelow
  <2> QED
    BY <1>7, <2>3, <2>4
<1>10. ASSUME NEW p \in PathsTo(d + 1), ConflictAt(b, o, t, p), ~TheirLinkAt(b, o, t, p)
       PROVE  \E k \in 0..Len(p) : SubSeq(p, 1, k) \in C
  <2>1. p # <<>>
    BY <1>8, <1>10
  <2>2. Head(p) \in Names /\ Tail(p) \in PathsTo(d)
    BY <2>1, PathAbove
  <2>3. /\ ConflictAt(B[Head(p)], O[Head(p)], T[Head(p)], Tail(p))
        /\ ~TheirLinkAt(B[Head(p)], O[Head(p)], T[Head(p)], Tail(p))
    BY <1>7, <1>10, <2>1
  <2>4. PICK k \in 0..Len(Tail(p)) : SubSeq(Tail(p), 1, k) \in M[Head(p)].conflicts
    BY <1>3, <2>2, <2>3 DEF AsPaths
  <2>5. k + 1 \in 0..Len(p) /\ SubSeq(p, 1, k + 1) = <<Head(p)>> \o SubSeq(Tail(p), 1, k)
    BY <2>1, PathAbove
  <2>6. SubSeq(p, 1, k + 1) \in C
    BY <1>5, <2>2, <2>4, <2>5
  <2> QED
    BY <2>5, <2>6
<1>11. ASSUME C = {}, NEW p \in PathsTo(d + 1), ~TheirLinkAt(b, o, t, p)
       PROVE  FileAt(Tree(F), p) = WantedAt(b, o, t, p)
  <2>1. CASE p = <<>>
    BY <1>8, <2>1
  <2>2. CASE p # <<>>
    <3>1. Head(p) \in Names /\ Tail(p) \in PathsTo(d)
      BY <2>2, PathAbove
    <3>2. M[Head(p)].conflicts = {}
      BY <1>5, <1>11, <3>1
    <3>3. FileAt(M[Head(p)].entry, Tail(p)) = WantedAt(B[Head(p)], O[Head(p)], T[Head(p)], Tail(p))
      BY <1>3, <1>7, <1>11, <2>2, <3>1, <3>2 DEF AsPaths
    <3> QED
      BY <1>7, <2>2, <3>3
  <2> QED
    BY <2>1, <2>2
<1>12. AsPaths(b, o, t, m, d + 1)
  BY <1>2, <1>9, <1>10, <1>11 DEF AsPaths
<1> QED
  BY <1>1, <1>12

\* By induction on how far the three entries go down.
LEMMA MergesAsPaths ==
    ASSUME NEW d \in Nat
    PROVE  \A b, o, t \in Versions :
              Depth[b] <= d /\ Depth[o] <= d /\ Depth[t] <= d
                 => AsPaths(b, o, t, MergeEntry[<<b, o, t>>], d)
<1> DEFINE Holds(k) ==
             \A b, o, t \in Versions :
                Depth[b] <= k /\ Depth[o] <= k /\ Depth[t] <= k
                   => AsPaths(b, o, t, MergeEntry[<<b, o, t>>], k)
           Ok == {k \in Nat : Holds(k)}
<1>1. ASSUME NEW k \in Nat, \A j \in Nat : j < k => j \in Ok
      PROVE  Holds(k)
  <2> SUFFICES ASSUME NEW b \in Versions, NEW o \in Versions, NEW t \in Versions,
                      Depth[b] <= k, Depth[o] <= k, Depth[t] <= k
               PROVE  AsPaths(b, o, t, MergeEntry[<<b, o, t>>], k)
    OBVIOUS
  <2>1. MergeEntry[<<b, o, t>>] = Merge(MergeEntry, b, o, t)
    BY MergeEntryIs
  <2>2. CASE o = t
    BY <2>1, <2>2, OneSide DEF Merge
  <2>3. CASE o # t /\ b = o
    BY <2>1, <2>3, OneSide DEF Merge
  <2>4. CASE o # t /\ b # o /\ b = t
    BY <2>1, <2>4, OneSide DEF Merge
  <2>5. CASE BothChanged(b, o, t) /\ ~(IsTree(o) /\ IsTree(t))
    <3>1. MergeEntry[<<b, o, t>>] = MergeFiles(b, o, t)
      BY <2>1, <2>5 DEF Merge, MergeChangedEntry, BothChanged
    <3> QED
      BY <2>5, <3>1, NotBothTrees
  <2>6. CASE BothChanged(b, o, t) /\ IsTree(o) /\ IsTree(t)
    <3>1. MergeEntry[<<b, o, t>>] = MergeChangedEntry(MergeEntry, b, o, t)
      BY <2>1, <2>6 DEF Merge, BothChanged
    <3>2. \A n \in Names : LevelBelow(b, n) /\ LevelBelow(o, n) /\ LevelBelow(t, n)
      BY LevelsBelow
    <3>3. o.sub = BaseTree(o) /\ t.sub = BaseTree(t)
      BY <2>6 DEF BaseTree
    <3>4. k # 0
      <4>1. PICK n \in Names : TRUE
        BY TreeAssumption
      <4>2. Depth[BaseTree(o)[n]] \in Nat /\ Depth[BaseTree(o)[n]] < Depth[o] /\ Depth[o] \in Nat
        BY <2>6, <3>2, TreeAssumption DEF LevelBelow
      <4> QED
        BY <4>2
    <3>5. k - 1 \in Nat /\ k - 1 < k /\ (k - 1) + 1 = k
      BY <3>4
    <3>6. Holds(k - 1)
      BY <1>1, <3>5
    <3>7. ASSUME NEW n \in Names
          PROVE  AsPaths(BaseTree(b)[n], o.sub[n], t.sub[n],
                         MergeEntry[<<BaseTree(b)[n], o.sub[n], t.sub[n]>>], k - 1)
      <4> DEFINE bn == BaseTree(b)[n]
                 on == o.sub[n]
                 tn == t.sub[n]
      <4>1. bn \in Versions /\ on \in Versions /\ tn \in Versions
        BY <3>2, <3>3 DEF LevelBelow
      <4>2. Depth[bn] <= k - 1 /\ Depth[on] <= k - 1 /\ Depth[tn] <= k - 1
        <5>1. /\ Depth[b] \in Nat /\ Depth[o] \in Nat /\ Depth[t] \in Nat
              /\ Depth[bn] \in Nat /\ Depth[on] \in Nat /\ Depth[tn] \in Nat
          BY <4>1, TreeAssumption
        <5>2. Depth[bn] = 0 \/ Depth[bn] < Depth[b]
          BY <3>2 DEF LevelBelow
        <5>3. Depth[on] < Depth[o] /\ Depth[tn] < Depth[t]
          BY <2>6, <3>2, <3>3 DEF LevelBelow
        <5> HIDE DEF bn, on, tn
        <5> QED
          BY <3>5, <5>1, <5>2, <5>3
      <4> HIDE DEF bn, on, tn
      <4>3. AsPaths(bn, on, tn, MergeEntry[<<bn, on, tn>>], k - 1)
        BY <3>6, <4>1, <4>2
      <4> QED
        BY <4>3 DEF bn, on, tn
    <3> HIDE DEF Ok, Holds
    <3>8. AsPaths(b, o, t, MergeChangedEntry(MergeEntry, b, o, t), (k - 1) + 1)
      BY <2>6, <3>5, <3>7, BothTrees
    <3> QED
      BY <3>1, <3>5, <3>8
  <2> QED
    BY <2>2, <2>3, <2>4, <2>5, <2>6 DEF BothChanged
<1> HIDE DEF Holds
<1>2. \A k \in Nat : (\A j \in Nat : j < k => j \in Ok) => k \in Ok
  BY <1>1
<1> HIDE DEF Ok
<1>3. Nat \subseteq Ok
  BY <1>2, SetInduction
<1>4. Holds(d)
  BY <1>3 DEF Ok
<1> QED
  BY <1>4 DEF Holds

\* The paths that are asked about lead into the trees.
LEMMA PathsInto ==
    /\ Paths \subseteq PathsTo(MaxDepth)
    /\ \A p \in PathsTo(MaxDepth) : p # <<>> => p \in Paths /\ Len(p) \in Nat
    /\ <<>> \notin Paths
<1>1. ASSUME NEW p \in Paths PROVE p \in PathsTo(MaxDepth) /\ p # <<>>
  <2>1. PICK d \in 1..MaxDepth : p \in [1..d -> Names]
    BY DEF Paths
  <2>2. d \in Nat /\ d # 0 /\ d <= MaxDepth
    BY <2>1, TreeAssumption
  <2>3. p \in Seq(Names) /\ Len(p) = d
    BY <2>1, <2>2
  <2> QED
    BY <2>2, <2>3 DEF PathsTo
<1>2. ASSUME NEW p \in PathsTo(MaxDepth), p # <<>> PROVE p \in Paths /\ Len(p) \in Nat
  <2>1. p \in Seq(Names) /\ Len(p) <= MaxDepth
    BY DEF PathsTo
  <2>2. Len(p) \in Nat /\ Len(p) # 0 /\ p \in [1..Len(p) -> Names]
    BY <1>2, <2>1, LenProperties, EmptySeq
  <2>3. Len(p) \in 1..MaxDepth
    BY <2>1, <2>2, TreeAssumption
  <2> QED
    BY <2>2, <2>3 DEF Paths
<1> QED
  BY <1>1, <1>2

\* Any three trees, whatever is in them, merge as their paths do.
THEOREM MergedPathByPath == TreeSpec => []TreesMerge
<1> DEFINE Merged == MergeTrees(MergeEntry, sides.base, sides.ours, sides.theirs)
           Inv == /\ sides \in [base : [Names -> Versions], ours : [Names -> Versions],
                                theirs : [Names -> Versions]]
                  /\ answer # None => answer = Merged
<1>1. TreeInit => Inv
  <2>1. ASSUME NEW e \in Versions PROVE Under(e) \in [Names -> Versions]
    BY DEF Under, EmptyTree, Versions
  <2> QED
    BY <2>1 DEF TreeInit
<1>2. Inv /\ [MergeSides]_treeVars => Inv'
  BY DEF MergeSides, treeVars
<1>3. Inv => TreesMerge
  <2> DEFINE b == Tree(sides.base)
             o == Tree(sides.ours)
             t == Tree(sides.theirs)
             d == MaxDepth - 1
  <2> SUFFICES ASSUME Inv, answer # None
               PROVE  /\ \A p \in answer.conflicts : p \in Paths /\ ConflictAt(b, o, t, p)
                      /\ \A p \in Paths :
                            ConflictAt(b, o, t, p) /\ ~TheirLinkAt(b, o, t, p)
                               => \E k \in 1..Len(p) : SubSeq(p, 1, k) \in answer.conflicts
                      /\ answer.conflicts = {} =>
                            \A p \in Paths : \/ FileAt(Tree(answer.tree), p) = WantedAt(b, o, t, p)
                                            \/ TheirLinkAt(b, o, t, p)
    BY DEF TreesMerge
  <2>1. d \in Nat /\ d + 1 = MaxDepth
    BY TreeAssumption
  <2>2. /\ IsTree(b) /\ BaseTree(b) = sides.base /\ b.sub = sides.base
        /\ IsTree(o) /\ o.sub = sides.ours
        /\ IsTree(t) /\ t.sub = sides.theirs
    BY DEF Tree, IsTree, BaseTree
  <2>3. /\ MergeChangedEntry(MergeEntry, b, o, t).entry = Tree(answer.tree)
        /\ MergeChangedEntry(MergeEntry, b, o, t).conflicts = answer.conflicts
    BY <2>2 DEF MergeChangedEntry
  <2>4. /\ sides.base \in [Names -> Versions] /\ sides.ours \in [Names -> Versions]
        /\ sides.theirs \in [Names -> Versions]
    OBVIOUS
  <2> HIDE DEF Inv, b, o, t, d
  <2>5. ASSUME NEW e \in Versions PROVE Depth[e] <= d
    <3>1. Depth[e] \in Nat /\ Depth[e] < MaxDepth
      BY TreeAssumption DEF Versions
    <3> QED
      BY <2>1, <3>1
  <2>6. ASSUME NEW n \in Names
        PROVE  AsPaths(BaseTree(b)[n], o.sub[n], t.sub[n],
                       MergeEntry[<<BaseTree(b)[n], o.sub[n], t.sub[n]>>], d)
    <3>1. BaseTree(b)[n] \in Versions /\ o.sub[n] \in Versions /\ t.sub[n] \in Versions
      BY <2>2, <2>4
    <3> QED
      BY <2>1, <2>5, <3>1, MergesAsPaths
  <2>7. AsPaths(b, o, t, MergeChangedEntry(MergeEntry, b, o, t), d + 1)
    BY <2>1, <2>2, <2>6, BothTrees
  <2>8. ~ConflictAt(b, o, t, <<>>)
    <3>1. FileAt(o, <<>>) = FileAt(t, <<>>) /\ EntryAt(o, <<>>) = o /\ EntryAt(t, <<>>) = t
      BY <2>2, EntryAtHere DEF FileAt, File
    <3> QED
      BY <2>2, <3>1 DEF ConflictAt, Irreconcilable, DirectoryClash, BothChanged
  <2>9. ASSUME NEW p \in answer.conflicts PROVE p \in Paths /\ ConflictAt(b, o, t, p)
    BY <2>1, <2>3, <2>7, <2>8, PathsInto DEF AsPaths
  <2>10. ASSUME NEW p \in Paths, ConflictAt(b, o, t, p), ~TheirLinkAt(b, o, t, p)
         PROVE  \E k \in 1..Len(p) : SubSeq(p, 1, k) \in answer.conflicts
    <3>1. PICK k \in 0..Len(p) : SubSeq(p, 1, k) \in answer.conflicts
      BY <2>1, <2>3, <2>7, <2>10, PathsInto DEF AsPaths
    <3>2. k # 0
      <4>1. SubSeq(p, 1, 0) = <<>>
        BY SubSeqEmpty
      <4> QED
        BY <2>8, <2>9, <3>1, <4>1
    <3>3. k \in 1..Len(p)
      BY <3>1, <3>2, PathsInto
    <3> QED
      BY <3>1, <3>3
  <2>11. ASSUME answer.conflicts = {}, NEW p \in Paths, ~TheirLinkAt(b, o, t, p)
         PROVE  FileAt(Tree(answer.tree), p) = WantedAt(b, o, t, p)
    BY <2>1, <2>3, <2>7, <2>11, PathsInto DEF AsPaths
  <2> QED
    BY <2>9, <2>10, <2>11
<1> QED
  BY <1>1, <1>2, <1>3, PTL DEF TreeSpec
=============================================================================
