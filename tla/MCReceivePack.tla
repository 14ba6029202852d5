--------------------------- MODULE MCReceivePack ---------------------------
(***************************************************************************)
(* Small instances of ReceivePack.  main is HEAD's branch; dev and dev/x   *)
(* collide; pull is a pull request's head, which no push moves.  Commits b *)
(* and c follow a; c's tree is t; d names an object nobody has; bad is a   *)
(* tree fsck refuses.                                                      *)
(***************************************************************************)
EXTENDS ReceivePack, TLC

CONSTANTS a, b, c, d, t, bad, gone, main, dev, devx, pull,
          PackA, PackB, PackC, PackD, PackBad, PackAC, PackABC, p1, p2

MCObjects == {a, b, c, d, t, bad, gone}
MCLinks == (a :> {}) @@ (b :> {a}) @@ (c :> {a, t}) @@ (d :> {gone})
               @@ (t :> {}) @@ (bad :> {}) @@ (gone :> {})
MCPacks == {PackA, PackB, PackC, PackD, PackBad, PackAC, PackABC}
MCContent ==
    (PackA :> {a}) @@ (PackB :> {b}) @@ (PackC :> {c, t}) @@ (PackD :> {d})
        @@ (PackBad :> {bad}) @@ (PackAC :> {a, c, t})
        @@ (PackABC :> {a, b, c, t})
MCNames == {main, dev, devx, pull}
MCCollides == (dev :> {devx}) @@ (devx :> {dev}) @@ (main :> {}) @@ (pull :> {})
MCInitRef == (main :> a) @@ (dev :> None) @@ (devx :> None) @@ (pull :> c)
PusherSymmetry == Permutations({p1, p2})

Cmd(n, old, new) == [name |-> n, old |-> old, new |-> new]
Asks(cmds, q) == [cmds |-> cmds, pack |-> q]

\* Requests of one command.
Advance == Asks(<<Cmd(main, a, b)>>, PackB)
Rewind == Asks(<<Cmd(main, b, a)>>, None)
Switch == Asks(<<Cmd(main, a, c)>>, None)
CreateSub == Asks(<<Cmd(devx, None, a)>>, None)
DropHead == Asks(<<Cmd(main, a, None)>>, None)
\* The tree t as a branch, with the pack that is stored already.
TreeAsBranch == Asks(<<Cmd(dev, None, t)>>, PackC)
Incomplete == Asks(<<Cmd(dev, None, d)>>, PackD)
BadName == Asks(<<Cmd(dev, None, a)>>, PackBad)

\* Requests of several.
CreateBoth == Asks(<<Cmd(dev, None, b), Cmd(devx, None, a)>>, PackB)
Duplicate == Asks(<<Cmd(main, a, b), Cmd(main, a, c)>>, PackB)
MoveTwo == Asks(<<Cmd(main, a, b), Cmd(dev, None, b)>>, PackB)
DropAndAdvance == Asks(<<Cmd(dev, b, None), Cmd(main, a, b)>>, PackB)

SingleRequests == {Advance, Rewind, CreateSub, TreeAsBranch, BadName}
MultiRequests == {CreateBoth, Duplicate, DropAndAdvance, Rewind, DropHead,
                  Incomplete}
LeakRequests == {MoveTwo, Switch}

(***************************************************************************)
(* Two cases in one run: pushes of several commands by two clients, where  *)
(* nothing fails, and pushes of one command each by one client, where a    *)
(* write may fail or land and fail and the instance may be killed.  The    *)
(* requests of either are among MCRequests.                                *)
(***************************************************************************)
VARIABLE failing

MCRequests == MultiRequests \cup SingleRequests

Failing == INSTANCE ReceivePack WITH
               InitKept <- {PackC}, Faults <- {"index", "apply", "crash"}

MCInit == (failing = FALSE /\ Init) \/ (failing = TRUE /\ Failing!Init)

Serves(some) == \A p \in Pushers : req'[p] \in some \cup {None}

MCNext ==
    /\ UNCHANGED failing
    /\ \/ failing = FALSE /\ Next /\ Serves(MultiRequests)
       \/ failing = TRUE /\ Failing!Next /\ Serves(SingleRequests)
                         /\ \E p \in Pushers : pc'[p] = "idle"

MCSpec == MCInit /\ [][MCNext]_<<failing, vars>>

\* Two clients whose commands may fail, with the requests and faults of the cfg.
LeakSpec ==
    failing = TRUE /\ Init /\ [][Next /\ UNCHANGED failing]_<<failing, vars>>
===============================================================================
