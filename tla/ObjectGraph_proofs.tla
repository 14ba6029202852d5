-------------------------- MODULE ObjectGraph_proofs --------------------------
(***************************************************************************)
(* What a walk over objects lets its caller conclude.                      *)
(***************************************************************************)
EXTENDS ObjectGraph, WellFoundedInduction, TLAPS

\* A walk that succeeds goes on succeeding when more objects are stored.
LEMMA WalkMonotone ==
    ASSUME NEW tips, NEW have, NEW V, NEW W, V \subseteq W,
           WalkComplete(tips, have, V)
    PROVE  WalkComplete(tips, have, W)
  BY DEF WalkComplete

LEMMA CompleteMonotone ==
    ASSUME NEW o, NEW V, NEW W, V \subseteq W, Complete(o, V)
    PROVE  Complete(o, W)
  BY WalkMonotone DEF Complete

\* A walk that stops nowhere shows each of its tips to be complete.
LEMMA WalkShowsTips ==
    ASSUME NEW tips, NEW V, WalkComplete(tips, {}, V), NEW o \in tips
    PROVE  Complete(o, V)
  BY DEF WalkComplete, Complete

\* What a complete object links to is complete.
LEMMA CompleteDescends ==
    ASSUME NEW V, NEW o, Complete(o, V), NEW x \in Links[o]
    PROVE  Complete(x, V)
  <1>1. PICK seen \in SUBSET V :
            o \in seen /\ \A y \in seen : Links[y] \subseteq seen
    BY DEF Complete, WalkComplete
  <1>2. {x} \subseteq seen
    BY <1>1
  <1> QED
    BY <1>1, <1>2 DEF Complete, WalkComplete

\* A walk may stop at objects known to be complete: receive-pack's validation
\* (haveOids) shows each pushed tip to be complete without reading what
\* earlier pushes stored.
THEOREM WalkFromHaves ==
    ASSUME NEW V, NEW tips, NEW have,
           \A h \in have : Complete(h, V),
           WalkComplete(tips, have, V), NEW o \in tips
    PROVE  Complete(o, V)
  <1> DEFINE Good == {x \in V : Complete(x, V)}
  <1>1. have \subseteq Good
    BY DEF Complete, WalkComplete
  <1>2. \A x \in Good : Links[x] \subseteq Good
    <2> SUFFICES ASSUME NEW x \in Good, NEW y \in Links[x] PROVE y \in Good
      OBVIOUS
    <2>1. Complete(y, V)
      BY CompleteDescends
    <2>2. y \in V
      BY <2>1 DEF Complete, WalkComplete
    <2> QED
      BY <2>1, <2>2
  <1>3. PICK seen \in SUBSET (V \cup have) :
            tips \subseteq seen /\ \A x \in seen \ have : Links[x] \subseteq seen
    BY DEF WalkComplete
  <1> DEFINE All == (seen \ have) \cup Good
  <1>4. All \in SUBSET V
    BY <1>3
  <1>5. {o} \subseteq All
    BY <1>1, <1>3
  <1>6. \A x \in All \ {} : Links[x] \subseteq All
    <2> SUFFICES ASSUME NEW x \in All PROVE Links[x] \subseteq All
      OBVIOUS
    <2>1. CASE x \in Good
      BY <1>2, <2>1
    <2>2. CASE x \in seen \ have
      <3>1. Links[x] \subseteq seen
        BY <1>3, <2>2
      <3> QED
        BY <1>1, <3>1
    <2> QED
      BY <2>1, <2>2
  <1>7. All \in SUBSET (V \cup {})
    BY <1>4
  <1> HIDE DEF All
  <1> QED
    BY <1>5, <1>6, <1>7 DEF Complete, WalkComplete

\* x is tips' own or reached from them along links, of objects outside have
\* but for the last: what there is to find for collectReachableOids.
ReachedFrom(tips, have, x) ==
    \E n \in Nat : \E p \in [0..n -> Objects] :
        /\ p[0] \in tips /\ p[n] = x
        /\ \A i \in 1..n : p[i - 1] \notin have /\ p[i] \in Links[p[i - 1]]

\* What is reached from something seen along links is seen.
LEMMA SeenToTheEnd ==
    ASSUME NEW n \in Nat, NEW p \in [0..n -> Objects], NEW seen, NEW have, p[0] \in seen,
           \A i \in 1..n : p[i - 1] \notin have /\ p[i] \in Links[p[i - 1]],
           \A x \in seen \ have : Links[x] \subseteq seen
    PROVE  p[n] \in seen
  <1> DEFINE Unseen == {i \in Nat : i <= n /\ p[i] \notin seen}
             R == OpToRel(<, Nat)
  <1> SUFFICES ASSUME n \in Unseen PROVE FALSE
    OBVIOUS
  <1>1. \A i, j \in Nat : i < j => <<i, j>> \in R
    BY DEF OpToRel
  <1> HIDE DEF R
  <1>2. PICK i \in Unseen : \A j \in Unseen : <<j, i>> \notin R
    <2>1. Unseen \subseteq Nat /\ Unseen # {}
      OBVIOUS
    <2> HIDE DEF Unseen
    <2> QED
      BY <2>1, WFMin, NatLessThanWellFounded DEF R
  <1>3. i \in 1..n /\ i - 1 \in Nat /\ i - 1 < i /\ i - 1 <= n
    OBVIOUS
  <1>4. p[i - 1] \in seen
    BY <1>1, <1>2, <1>3
  <1> QED
    BY <1>2, <1>3, <1>4

\* The walk is complete exactly if all that is reached along links, up to the
\* objects it may stop at, is stored.
THEOREM WalkFindsWhatIsReached ==
    ASSUME NEW tips \in SUBSET Objects, NEW have, NEW V
    PROVE  WalkComplete(tips, have, V)
              <=> \A x \in Objects : ReachedFrom(tips, have, x) => x \in V \cup have
  <1>1. ASSUME WalkComplete(tips, have, V), NEW x \in Objects, ReachedFrom(tips, have, x)
        PROVE  x \in V \cup have
    <2>1. PICK seen \in SUBSET (V \cup have) :
             tips \subseteq seen /\ \A y \in seen \ have : Links[y] \subseteq seen
      BY <1>1 DEF WalkComplete
    <2>2. PICK n \in Nat : \E p \in [0..n -> Objects] :
             /\ p[0] \in tips /\ p[n] = x
             /\ \A i \in 1..n : p[i - 1] \notin have /\ p[i] \in Links[p[i - 1]]
      BY <1>1 DEF ReachedFrom
    <2>3. PICK p \in [0..n -> Objects] :
             /\ p[0] \in tips /\ p[n] = x
             /\ \A i \in 1..n : p[i - 1] \notin have /\ p[i] \in Links[p[i - 1]]
      BY <2>2
    <2>4. p[n] \in seen
      BY <2>1, <2>3, SeenToTheEnd
    <2> QED
      BY <2>1, <2>3, <2>4
  <1>2. ASSUME \A x \in Objects : ReachedFrom(tips, have, x) => x \in V \cup have
        PROVE  WalkComplete(tips, have, V)
    <2> DEFINE seen == {x \in Objects : ReachedFrom(tips, have, x)}
    <2>1. seen \in SUBSET (V \cup have)
      BY <1>2
    <2>2. tips \subseteq seen
      <3> SUFFICES ASSUME NEW x \in tips PROVE ReachedFrom(tips, have, x)
        OBVIOUS
      <3> DEFINE p == [i \in 0..0 |-> x]
      <3>1. p \in [0..0 -> Objects] /\ p[0] = x /\ 0 \in Nat /\ 1..0 = {}
        OBVIOUS
      <3> HIDE DEF p
      <3> QED
        BY <3>1 DEF ReachedFrom
    <2>3. ASSUME NEW x \in seen \ have, NEW y \in Links[x] PROVE y \in seen
      <3>1. y \in Objects
        BY <2>3, GraphAssumption
      <3>2. PICK n \in Nat : \E p \in [0..n -> Objects] :
               /\ p[0] \in tips /\ p[n] = x
               /\ \A i \in 1..n : p[i - 1] \notin have /\ p[i] \in Links[p[i - 1]]
        BY DEF ReachedFrom
      <3>3. PICK p \in [0..n -> Objects] :
               /\ p[0] \in tips /\ p[n] = x
               /\ \A i \in 1..n : p[i - 1] \notin have /\ p[i] \in Links[p[i - 1]]
        BY <3>2
      <3> DEFINE q == [i \in 0..(n + 1) |-> IF i <= n THEN p[i] ELSE y]
      <3>4. /\ n + 1 \in Nat /\ q \in [0..(n + 1) -> Objects]
            /\ q[n + 1] = y /\ \A i \in 0..n : q[i] = p[i]
        BY <3>1, <3>3
      <3> HIDE DEF q
      <3>5. ASSUME NEW i \in 1..(n + 1)
            PROVE  q[i - 1] \notin have /\ q[i] \in Links[q[i - 1]]
        <4>1. CASE i \in 1..n
          <5>1. i \in 0..n /\ i - 1 \in 0..n
            BY <3>3, <4>1
          <5> QED
            BY <3>3, <3>4, <4>1, <5>1
        <4>2. CASE i = n + 1
          <5>1. i - 1 = n /\ n \in 0..n
            BY <3>3, <4>2
          <5>2. q[i - 1] = x /\ q[i] = y
            BY <3>3, <3>4, <4>2, <5>1
          <5> QED
            BY <2>3, <5>2
        <4> QED
          BY <3>3, <3>5, <4>1, <4>2
      <3>6. q[0] \in tips
        BY <3>3, <3>4
      <3>7. ReachedFrom(tips, have, y)
        BY <3>4, <3>5, <3>6 DEF ReachedFrom
      <3> QED
        BY <3>1, <3>7
    <2> HIDE DEF seen
    <2> QED
      BY <2>1, <2>2, <2>3 DEF WalkComplete
  <1> QED
    BY <1>1, <1>2
===============================================================================
