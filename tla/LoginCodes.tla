----------------------------- MODULE LoginCodes -----------------------------
(***************************************************************************)
(* A code that is exchanged for a token: one of the device flow, which a   *)
(* user approves while the client polls (device-flow-store.ts), or one of  *)
(* an OAuth app, which a user's consent issues (oauth-apps-store.ts).      *)
(*                                                                         *)
(* Every transition of a code is one conditional statement, but a request  *)
(* is several of them, after a row it read before: polls of one code run   *)
(* beside each other, beside decisions on several pages, and beside        *)
(* another login, which drops the codes that have expired.  Rate limits    *)
(* and which client presents a code are left out.                          *)
(***************************************************************************)
EXTENDS Naturals, Sequences, Null

CONSTANTS
    Users,          \* who may decide on the code
    Exchangers,     \* requests at work on it
    Lifetime,       \* of the code
    Interval,       \* between polls, to begin with
    SlowDownStep,   \* what a poll too soon adds to it
    MaxClock,       \* bound: the time that passes
    MaxSlowDowns,   \* bound: polls too soon
    CodeTrouble     \* what may happen: an "insert" of the token fails, a request is
                    \* "killed"

ASSUME CodeAssumption ==
    /\ {Lifetime, Interval, SlowDownStep, MaxClock, MaxSlowDowns} \subseteq Nat
    /\ CodeTrouble \subseteq {"insert", "killed"}
    /\ None \notin Users \cup Nat

VARIABLES
    kind,           \* of the code: "device" or "app"
    clock,          \* the database's clock
    code,           \* the code's row, or None
    tokens,         \* the users that tokens were issued to, in order
    seen,           \* seen[x]: the row as exchange x read it, or None
    turn,           \* turn[x]: what x does next
    answered,       \* history: decisions that were answered with success
    last,           \* history: when a poll reached the gate last, or None
    soon            \* history: how many polls came too soon

codeVars == <<kind, clock, code, tokens, seen, turn, answered, last, soon>>
past == <<kind, answered, last, soon>>

Rows == [status : {"pending", "approved", "denied"}, user : Users \cup {None},
         expires : Nat, interval : Nat, polled : Nat \cup {None}, used : BOOLEAN]

CodeTypeOK ==
    /\ kind \in {"device", "app"}
    /\ clock \in 0..MaxClock
    /\ code \in Rows \cup {None}
    /\ tokens \in Seq(Users)
    /\ seen \in [Exchangers -> Rows \cup {None}]
    /\ turn \in [Exchangers -> {"idle", "gate", "slow", "decide", "consume", "issue"}]
    /\ answered \subseteq [user : Users, approve : BOOLEAN]
    /\ last \in Nat \cup {None} /\ soon \in Nat

\* A row just created.  The user's consent is the approval of an app's code.
NewRow(status, u) == [status |-> status, user |-> u, expires |-> Lifetime,
                      interval |-> Interval, polled |-> None, used |-> FALSE]

CreateDeviceCode ==
    /\ kind = "device"
    /\ code = NewRow("pending", None) /\ answered = {}

IssueAuthorizationCode(u) ==
    /\ kind = "app"
    /\ code = NewRow("approved", u) /\ answered = {[user |-> u, approve |-> TRUE]}

CodeInit ==
    /\ CreateDeviceCode \/ \E u \in Users : IssueAuthorizationCode(u)
    /\ clock = 0 /\ tokens = <<>> /\ last = None /\ soon = 0
    /\ seen = [x \in Exchangers |-> None]
    /\ turn = [x \in Exchangers |-> "idle"]

-----------------------------------------------------------------------------

Passes ==
    /\ clock < MaxClock
    /\ clock' = clock + 1
    /\ UNCHANGED <<code, tokens, seen, turn, past>>

\* Another login begins, and drops the codes that have expired.
DropExpired ==
    /\ code # None /\ code.expires < clock
    /\ code' = None
    /\ UNCHANGED <<clock, tokens, seen, turn, past>>

Decidable == code # None /\ code.status = "pending" /\ code.expires > clock

DecideDeviceCode(u, approve) ==
    /\ kind = "device" /\ Decidable
    /\ code' = [code EXCEPT !.status = IF approve THEN "approved" ELSE "denied",
                            !.user = u]
    /\ answered' = answered \cup {[user |-> u, approve |-> approve]}
    /\ UNCHANGED <<kind, clock, tokens, seen, turn, last, soon>>

-----------------------------------------------------------------------------
(* Exchanges                                                               *)

Ended(x) ==
    /\ turn' = [turn EXCEPT ![x] = "idle"]
    /\ seen' = [seen EXCEPT ![x] = None]

Turns(x, t) == turn' = [turn EXCEPT ![x] = t] /\ UNCHANGED seen

\* A code that is used or has expired is refused at once.  A poll of the device
\* flow then comes to the gate; a code of an app has none.
ReadCode(x) ==
    /\ seen[x] = None
    /\ code # None /\ ~code.used /\ code.expires > clock
    /\ seen' = [seen EXCEPT ![x] = code]
    /\ turn' = [turn EXCEPT ![x] = IF kind = "device" THEN "gate" ELSE "consume"]
    /\ UNCHANGED <<clock, code, tokens, past>>

\* Mutant of Admits: the poll before is the one this request read.
AdmitsAsRead(x) ==
    seen[x].polled # None => seen[x].polled + seen[x].interval <= clock

\* The poll before is an interval old, as both are now.
Admits(x) == code.polled # None => code.polled + code.interval <= clock

Gate(x) ==
    /\ turn[x] = "gate" /\ code # None /\ Admits(x)
    /\ code' = [code EXCEPT !.polled = clock] /\ last' = clock
    /\ Turns(x, "decide")
    /\ UNCHANGED <<kind, clock, tokens, answered, soon>>

\* Too soon, or the row has been dropped.
GateShut(x) ==
    /\ turn[x] = "gate" /\ (code # None => ~Admits(x))
    /\ Turns(x, "slow")
    /\ UNCHANGED <<clock, code, tokens, past>>

\* The interval grows, and counts from this poll; a row that is gone is not found.
SlowDown(x) ==
    /\ turn[x] = "slow"
    /\ \/ /\ code # None /\ soon < MaxSlowDowns
          /\ code' = [code EXCEPT !.polled = clock, !.interval = @ + SlowDownStep]
          /\ last' = clock /\ soon' = soon + 1
       \/ code = None /\ UNCHANGED <<code, last, soon>>
    /\ Ended(x)
    /\ UNCHANGED <<kind, clock, tokens, answered>>

\* Whether the code is approved is as the request read it: an approval since
\* then waits for the next poll.
Decide(x) ==
    /\ turn[x] = "decide"
    /\ IF seen[x].status = "approved" THEN Turns(x, "consume") ELSE Ended(x)
    /\ UNCHANGED <<clock, code, tokens, past>>

\* Mutant of Consumable: the code was unused when the request read it.
ConsumableAsRead == code # None /\ code.status = "approved"

\* The device flow does not ask again whether the code has expired.
Consumable ==
    /\ code # None /\ code.status = "approved" /\ ~code.used
    /\ kind = "app" => code.expires > clock

Consume(x) ==
    /\ turn[x] = "consume"
    /\ \/ /\ Consumable
          /\ code' = [code EXCEPT !.used = TRUE]
          /\ seen' = [seen EXCEPT ![x].user = code.user]
          /\ turn' = [turn EXCEPT ![x] = "issue"]
       \/ ~Consumable /\ Ended(x) /\ UNCHANGED code
    /\ UNCHANGED <<clock, tokens, past>>

InsertToken(x) ==
    /\ turn[x] = "issue"
    /\ tokens' = Append(tokens, seen[x].user)
    /\ Ended(x)
    /\ UNCHANGED <<clock, code, past>>

\* A token that is not inserted, or a request cut short, burns the code.
ExchangeFails(x) ==
    /\ \/ turn[x] = "issue" /\ "insert" \in CodeTrouble
       \/ turn[x] # "idle" /\ "killed" \in CodeTrouble
    /\ Ended(x)
    /\ UNCHANGED <<clock, code, tokens, past>>

CodeNext ==
    \/ Passes \/ DropExpired
    \/ \E u \in Users, approve \in BOOLEAN : DecideDeviceCode(u, approve)
    \/ \E x \in Exchangers :
          \/ ReadCode(x) \/ Gate(x) \/ GateShut(x) \/ SlowDown(x) \/ Decide(x)
          \/ Consume(x) \/ InsertToken(x) \/ ExchangeFails(x)

CodeSpec == CodeInit /\ [][CodeNext]_codeVars

-----------------------------------------------------------------------------
(* Properties                                                              *)

\* However often the code is presented, and on however many pages it is decided,
\* it is decided once and yields one token at most, to the user who was told
\* that the approval counts (pollDeviceCode, exchangeAuthorizationCode,
\* decideDeviceCode: "a stale page cannot change the outcome").
OneTokenPerCode ==
    /\ \A d, e \in answered : d = e
    /\ Len(tokens) <= 1
    /\ \A i \in 1..Len(tokens) : [user |-> tokens[i], approve |-> TRUE] \in answered

\* Of racing polls one is admitted, an interval after any other, and every one
\* that came too soon has made the interval a step longer (pollDeviceCode: "two
\* racing polls cannot both pass it", "concurrent slow-downs all count").
PollsKeepInterval ==
    [][\A x \in Exchangers :
          turn[x] = "gate" /\ turn'[x] = "decide" /\ last # None
          => clock >= last + Interval + SlowDownStep * soon]_codeVars
=============================================================================
