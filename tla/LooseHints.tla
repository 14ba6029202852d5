------------------------------ MODULE LooseHints ------------------------------
(***************************************************************************)
(* What the Git filesystem of one server remembers of the loose objects of *)
(* one repository (packages/git-fs-s3/src/git-fs.ts): a hint, none or      *)
(* present, which lets a read of a loose object end without asking the     *)
(* store.  A hint is made by a detection, which lists the store once; the  *)
(* readers share one detection, and walks start their own.  A loose write  *)
(* flips the hint before it puts its object.                               *)
(*                                                                         *)
(* A detection looks for a hint before it lists, and not after: one that   *)
(* a write or an invalidation overtook still says what it saw.  Nothing in *)
(* the web application writes loose objects (ops/packed-writes.ts:5-12),   *)
(* so there the case does not arise.                                       *)
(***************************************************************************)
CONSTANTS
    LooseObjects,   \* object names
    LooseReaders,   \* reads of a loose object
    LooseWriters,   \* writes of a loose object
    Detections,     \* detections of loose objects
    Shared          \* the one that readers wait for

ASSUME SharedAssumption == Shared \in Detections

VARIABLES
    loose,       \* the loose objects that are stored
    outside,     \* whether something else than the filesystem is changing them
    hint,        \* what is remembered of them
    detection,   \* a detection: idle, listing, or what it saw
    overtaken,   \* whether a change came in while it was under way
    masked,      \* whether the hint is that of an overtaken detection
    lookup,      \* a read: the object it wants and how far it is
    arriving     \* the objects a write is putting: one, or none when it is idle

hintVars == <<loose, outside, hint, detection, overtaken, masked, lookup, arriving>>

Resting == "idle"

HintTypeOK ==
    /\ loose \in SUBSET LooseObjects
    /\ outside \in BOOLEAN /\ masked \in BOOLEAN
    /\ hint \in {"unknown", "none", "present"}
    /\ detection \in [Detections -> {Resting, "listing", "none", "present"}]
    /\ overtaken \in [Detections -> BOOLEAN]
    /\ lookup \in [LooseReaders ->
            [object : LooseObjects,
             state : {Resting, "waiting", "resumed", "reading", "found", "absent"}]]
    /\ arriving \in [LooseWriters -> SUBSET LooseObjects]

HintInit ==
    /\ loose \in SUBSET LooseObjects
    /\ outside = FALSE /\ masked = FALSE
    /\ hint = "unknown"
    /\ detection = [d \in Detections |-> Resting]
    /\ overtaken = [d \in Detections |-> FALSE]
    /\ \E o \in LooseObjects :
           lookup = [r \in LooseReaders |-> [object |-> o, state |-> Resting]]
    /\ arriving = [w \in LooseWriters |-> {}]

UnderWay(d) == detection[d] # Resting

\* Every detection under way has been overtaken.
Overtake == overtaken' = [d \in Detections |-> UnderWay(d)]

Writing == \E w \in LooseWriters : arriving[w] # {}

Hinted == hint # "unknown"

-----------------------------------------------------------------------------
(* Detections.                                                             *)

\* A detection starts only when nothing is known; a write or a change that is
\* still under way may be missed by its listing.
Begun(d) ==
    /\ detection' = [detection EXCEPT ![d] = "listing"]
    /\ overtaken' = [overtaken EXCEPT ![d] = outside \/ Writing]

\* A walk of the history, or a prefetch, has loose objects detected.
Detect(d) ==
    /\ ~UnderWay(d) /\ ~Hinted
    /\ d # Shared
    /\ Begun(d)
    /\ UNCHANGED <<loose, outside, hint, masked, lookup, arriving>>

\* The store answers the listing.
ListLoose(d) ==
    /\ detection[d] = "listing"
    /\ detection' = [detection EXCEPT ![d] = IF loose = {} THEN "none" ELSE "present"]
    /\ UNCHANGED <<loose, outside, hint, overtaken, masked, lookup, arriving>>

\* The readers that wait for a shared detection go on when it ends.
Resumed(d) ==
    lookup' = [r \in LooseReaders |->
        IF d = Shared /\ lookup[r].state = "waiting"
        THEN [lookup[r] EXCEPT !.state = "resumed"] ELSE lookup[r]]

Ended(d) ==
    /\ detection' = [detection EXCEPT ![d] = Resting]
    /\ overtaken' = [overtaken EXCEPT ![d] = FALSE]
    /\ Resumed(d)

\* What the listing showed becomes the hint, whatever the hint is by now.
SettleHint(d) ==
    /\ detection[d] \in {"none", "present"}
    /\ hint' = detection[d]
    /\ masked' = overtaken[d]
    /\ Ended(d)
    /\ UNCHANGED <<loose, outside, arriving>>

\* A listing that failed leaves the hint alone.
DetectionFails(d) ==
    /\ detection[d] = "listing"
    /\ Ended(d)
    /\ UNCHANGED <<loose, outside, hint, masked, arriving>>

-----------------------------------------------------------------------------
(* Reads: the hint, if need be after the shared detection, then the store. *)

Goes(r, state) == lookup' = [lookup EXCEPT ![r].state = state]

\* What a read does once it has looked at the hint.
Heeded == IF hint = "none" THEN "absent" ELSE "reading"

\* A read asks for an object.  When nothing is known it waits for the shared
\* detection, which it starts if nobody has.
AskFor(r, o) ==
    /\ lookup[r].state = Resting /\ ~Hinted
    /\ lookup' = [lookup EXCEPT ![r] = [object |-> o, state |-> "waiting"]]
    /\ IF UnderWay(Shared) THEN UNCHANGED <<detection, overtaken>> ELSE Begun(Shared)
    /\ UNCHANGED <<loose, outside, hint, masked, arriving>>

\* When there is a hint, the read looks at it at once.
AskKnown(r, o) ==
    /\ lookup[r].state = Resting /\ Hinted
    /\ lookup' = [lookup EXCEPT ![r] = [object |-> o, state |-> Heeded]]
    /\ UNCHANGED <<loose, outside, hint, detection, overtaken, masked, arriving>>

\* After the detection it looks at the hint, which may have changed since.
LookAtHint(r) ==
    /\ lookup[r].state = "resumed"
    /\ Goes(r, Heeded)
    /\ UNCHANGED <<loose, outside, hint, detection, overtaken, masked, arriving>>

\* The store answers the read.
GetLoose(r) ==
    /\ lookup[r].state = "reading"
    /\ Goes(r, IF lookup[r].object \in loose THEN "found" ELSE "absent")
    /\ UNCHANGED <<loose, outside, hint, detection, overtaken, masked, arriving>>

\* The answered read ends.
EndLookup(r) ==
    /\ lookup[r].state \in {"found", "absent"}
    /\ Goes(r, Resting)
    /\ UNCHANGED <<loose, outside, hint, detection, overtaken, masked, arriving>>

-----------------------------------------------------------------------------
(* Writes, and changes past the filesystem.                                *)

\* Mutant of Flipped: a write leaves the hint as it is.
FlippedNot == hint

\* The hint a write leaves: it is flipped before the put.
Flipped == "present"

BeginLoose(w, o) ==
    /\ arriving[w] = {}
    /\ arriving' = [arriving EXCEPT ![w] = {o}]
    /\ hint' = Flipped
    /\ masked' = FALSE
    /\ Overtake
    /\ UNCHANGED <<loose, outside, detection, lookup>>

\* The put ends: it has landed, or failed with or without landing.
EndLoose(w) ==
    /\ arriving[w] # {}
    /\ loose' \in {loose, loose \cup arriving[w]}
    /\ arriving' = [arriving EXCEPT ![w] = {}]
    /\ UNCHANGED <<outside, hint, detection, overtaken, masked, lookup>>

\* An object is unlinked; the hint stays.
UnlinkLoose(o) ==
    /\ o \in loose
    /\ loose' = loose \ {o}
    /\ UNCHANGED <<outside, hint, detection, overtaken, masked, lookup, arriving>>

\* The hint expires or makes room for others.
LoseHint ==
    /\ Hinted
    /\ hint' = "unknown"
    /\ masked' = FALSE
    /\ UNCHANGED <<loose, outside, detection, overtaken, lookup, arriving>>

\* A deletion, a copy or a move changes what is stored past the filesystem.
ChangeLoose ==
    /\ loose' \in SUBSET LooseObjects
    /\ outside' = TRUE
    /\ Overtake
    /\ UNCHANGED <<hint, detection, masked, lookup, arriving>>

\* When it is done it has the hint of the repository forgotten.
InvalidateHint ==
    /\ outside
    /\ outside' = FALSE
    /\ hint' = "unknown"
    /\ masked' = FALSE
    /\ UNCHANGED <<loose, detection, overtaken, lookup, arriving>>

HintNext ==
    \/ \E d \in Detections : Detect(d) \/ ListLoose(d) \/ SettleHint(d) \/ DetectionFails(d)
    \/ \E r \in LooseReaders, o \in LooseObjects : AskFor(r, o) \/ AskKnown(r, o)
    \/ \E r \in LooseReaders : LookAtHint(r) \/ GetLoose(r) \/ EndLookup(r)
    \/ \E w \in LooseWriters, o \in LooseObjects : BeginLoose(w, o)
    \/ \E w \in LooseWriters : EndLoose(w)
    \/ \E o \in LooseObjects : UnlinkLoose(o)
    \/ LoseHint \/ ChangeLoose \/ InvalidateHint

HintSpec == HintInit /\ [][HintNext]_hintVars

-----------------------------------------------------------------------------

\* While a detection that nothing has overtaken is under way, nothing arrives;
\* and a hint, or a detection about to become one, that says there are no loose
\* objects is right unless it was overtaken.  The strengthening that
\* AbsentMeansAbsent rests on.
NoneMeansNone ==
    LET Empty == loose = {} /\ ~Writing /\ ~outside IN
    /\ \A d \in Detections : UnderWay(d) /\ ~overtaken[d] => ~Writing /\ ~outside
    /\ \A d \in Detections : detection[d] = "none" /\ ~overtaken[d] => Empty
    /\ hint = "none" => masked \/ outside \/ Empty

\* A read that is told an object is absent is told so while it is: a hint
\* never hides an object that has arrived, or is arriving, unless the detection
\* it comes from was overtaken by that write or by a change past the
\* filesystem, or such a change is under way (git-fs.ts:152-168, 215-225).
AbsentMeansAbsent ==
    [][\A r \in LooseReaders :
          (lookup[r].state # "absent" /\ lookup'[r].state = "absent")
              => lookup'[r].object \notin loose \/ masked \/ outside]_hintVars
==============================================================================
