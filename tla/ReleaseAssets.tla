---------------------------- MODULE ReleaseAssets ----------------------------
(***************************************************************************)
(* The assets of one release that have one name: release-assets.ts and the *)
(* asset half of release-store.ts (apps/web).                              *)
(*                                                                         *)
(* An asset is a row, open until its upload is finished, and up to two     *)
(* objects of the store: what a client put on the presigned URL, and the   *)
(* file that is published.  Each handler is a list of statements and store *)
(* calls, any of which may be its last; nothing locks a release, and no    *)
(* background worker tidies up: a request that adds or lists assets first  *)
(* reaps the uploads nobody finished.                                      *)
(*                                                                         *)
(* The database numbers assets and keeps two rows from one name.  The cap  *)
(* on a release's assets, renames of assets and release deletion are left  *)
(* out.                                                                    *)
(***************************************************************************)
EXTENDS Naturals, Null

CONSTANTS
    MaxAssets,      \* bound: assets ever created
    Slots,          \* each serves one request at a time
    Bytes,          \* what clients upload
    SizeOf,         \* SizeOf[b]: the size of b
    Declared,       \* the size a client declares for a presigned upload
    Overlaps,       \* what may overlap: a finish and a "put" on its URL, two
                    \* finishes of an asset ("finish"), two uploads of the
                    \* name ("replace")
    AssetTrouble    \* what may happen: "storage" or "row" calls that fail, a
                    \* request "killed"

Assets == 1..MaxAssets
Ops == {"list", "start", "direct", "finish", "delete"}

ASSUME AssetAssumption ==
    /\ MaxAssets \in Nat
    /\ SizeOf \in [Bytes -> Nat] /\ Declared \in Nat
    /\ None \notin Bytes /\ None \notin Nat /\ None \notin STRING
    /\ None \notin [op : Ops, asset : Assets \cup {None}]
    /\ Overlaps \subseteq {"put", "finish", "replace"}
    /\ AssetTrouble \subseteq {"storage", "row", "killed"}

VARIABLES
    asset,          \* asset[a]: its row, "unused" and "gone" when there is none
    url,            \* assets that have a presigned URL
    stale,          \* assets whose URL has expired
    upload,         \* upload[a]: the object below the URL, or None
    file,           \* file[a]: the published object, or None
    serves,         \* serves[s]: the request of slot s
    at,             \* at[s]: what it does next
    older,          \* older[s]: the asset it reaps or replaces, or None
    doomed          \* history: assets somebody began to delete

assetVars == <<asset, url, stale, upload, file, serves, at, older, doomed>>
objects == <<upload, file>>

AssetSteps == {"idle", "stale", "reap", "unput", "find", "replace", "insert", "dropOld",
               "presign", "put", "mark", "undo", "head", "discard", "discardRow",
               "copy", "drop", "wipeFile", "wipeUpload", "wipeRow"}

AssetTypeOK ==
    /\ asset \in [Assets -> {"unused", "open", "uploaded", "gone"}]
    /\ url \in SUBSET Assets /\ stale \in SUBSET Assets
    /\ upload \in [Assets -> Bytes \cup {None}]
    /\ file \in [Assets -> Bytes \cup {None}]
    /\ serves \in [Slots -> [op : Ops, asset : Assets \cup {None}] \cup {None}]
    /\ at \in [Slots -> AssetSteps]
    /\ older \in [Slots -> Assets \cup {None}]
    /\ doomed \in SUBSET Assets

AssetInit ==
    /\ asset = [a \in Assets |-> "unused"]
    /\ url = {} /\ stale = {}
    /\ upload = [a \in Assets |-> None] /\ file = [a \in Assets |-> None]
    /\ serves = [s \in Slots |-> None] /\ at = [s \in Slots |-> "idle"]
    /\ older = [s \in Slots |-> None] /\ doomed = {}

-----------------------------------------------------------------------------

Live(a) == asset[a] \in {"open", "uploaded"}
On(s) == serves[s].asset

\* A finish of asset a, or an upload of the name, is at work.
Finishing(a) == \E s \in Slots : serves[s] = [op |-> "finish", asset |-> a]
Adding == \E s \in Slots : serves[s] # None /\ serves[s].op \in {"start", "direct"}

\* With its row an asset's URL is forgotten: what is put there is left out.
RowGoes(a) ==
    /\ asset' = [asset EXCEPT ![a] = "gone"]
    /\ url' = url \ {a} /\ stale' = stale \ {a}

Then(s, step) == at' = [at EXCEPT ![s] = step] /\ UNCHANGED serves

Ends(s) ==
    /\ at' = [at EXCEPT ![s] = "idle"] /\ serves' = [serves EXCEPT ![s] = None]
    /\ older' = [older EXCEPT ![s] = None]

Accept(s, op, a, step) ==
    /\ serves[s] = None
    /\ serves' = [serves EXCEPT ![s] = [op |-> op, asset |-> a]]
    /\ at' = [at EXCEPT ![s] = step]
    /\ UNCHANGED <<asset, url, stale, objects, older>>

\* Adding an asset reaps first, as listing does.
Add(s, op) ==
    /\ op \in {"list", "start", "direct"}
    /\ "replace" \in Overlaps \/ op = "list"
       \/ ~(Adding \/ \E a \in Assets : Finishing(a))
    /\ Accept(s, op, None, "stale")
    /\ UNCHANGED doomed

\* Mutant of Finishable: an asset that is published is finished again.
FinishableAgain(a) == Live(a) /\ a \in url

\* Finishing an uploaded asset does nothing.
Finishable(a) == asset[a] = "open" /\ a \in url

Finish(s, a) ==
    /\ Finishable(a)
    /\ Finishing(a) => "finish" \in Overlaps
    /\ Adding => "replace" \in Overlaps
    /\ Accept(s, "finish", a, "head")
    /\ UNCHANGED doomed

DeleteAsset(s, a) ==
    /\ Live(a)
    /\ Accept(s, "delete", a, "wipeFile")
    /\ doomed' = doomed \cup {a}

\* The client's upload on the presigned URL, while it is valid.
Put(a, b) ==
    /\ a \in url \ stale
    /\ Finishing(a) => "put" \in Overlaps
    /\ upload' = [upload EXCEPT ![a] = b]
    /\ UNCHANGED <<asset, url, stale, file, serves, at, older, doomed>>

\* The URL's lifetime passes; the request that made the row is over long before.
Expire(a) ==
    /\ Live(a) /\ a \notin stale
    /\ \A s \in Slots : serves[s] # None /\ On(s) = a
                         => serves[s].op \in {"finish", "delete"}
    /\ stale' = stale \cup {a}
    /\ UNCHANGED <<asset, url, objects, serves, at, older, doomed>>

-----------------------------------------------------------------------------
(* Reaping and adding                                                      *)

AfterReap(s) == IF serves[s].op = "list" THEN Ends(s)
                ELSE Then(s, "find") /\ older' = [older EXCEPT ![s] = None]

\* A name has one row, so at most one open upload of it is stale.
FindStale(s) ==
    /\ at[s] = "stale"
    /\ \/ \E a \in stale : /\ asset[a] = "open"
                           /\ older' = [older EXCEPT ![s] = a] /\ Then(s, "reap")
       \/ (\A a \in stale : asset[a] # "open") /\ AfterReap(s)
    /\ UNCHANGED <<asset, url, stale, objects>>

\* Mutant of Reapable: the row is deleted whatever became of it.
ReapableAny(a) == TRUE

\* Only a row that is open still: "a finish that raced this must keep its asset".
Reapable(a) == asset[a] = "open"

Reap(s) ==
    /\ at[s] = "reap"
    /\ \/ /\ Reapable(older[s])
          /\ RowGoes(older[s])
          /\ Then(s, "unput") /\ UNCHANGED older
       \/ ~Reapable(older[s]) /\ AfterReap(s) /\ UNCHANGED <<asset, url, stale>>
    /\ UNCHANGED objects

\* Failing to delete the upload is ignored.
Unput(s) ==
    /\ at[s] = "unput"
    /\ \/ upload' = [upload EXCEPT ![older[s]] = None]
       \/ "storage" \in AssetTrouble /\ UNCHANGED upload
    /\ AfterReap(s)
    /\ UNCHANGED <<asset, url, stale, file>>

\* An open row of the name is to be replaced, an uploaded one refuses.
FindNamed(s) ==
    /\ at[s] = "find"
    /\ \/ \E a \in Assets : /\ asset[a] = "open"
                            /\ older' = [older EXCEPT ![s] = a] /\ Then(s, "replace")
       \/ (\E a \in Assets : asset[a] = "uploaded") /\ Ends(s)
       \/ (\A a \in Assets : ~Live(a)) /\ Then(s, "insert") /\ UNCHANGED older
    /\ UNCHANGED <<asset, url, stale, objects>>

\* The row that was open goes, whatever it is by now.
Replace(s) ==
    /\ at[s] = "replace"
    /\ RowGoes(older[s])
    /\ Then(s, "insert")
    /\ UNCHANGED <<objects, older>>

AfterInsert(s) == IF serves[s].op = "start" THEN "presign" ELSE "put"

InsertRow(s) ==
    /\ at[s] = "insert" /\ \A a \in Assets : ~Live(a)
    /\ \E a \in Assets :
          /\ asset[a] = "unused" /\ \A b \in 1..(a - 1) : asset[b] # "unused"
          /\ asset' = [asset EXCEPT ![a] = "open"]
          /\ serves' = [serves EXCEPT ![s].asset = a]
    /\ at' = [at EXCEPT ![s] = IF older[s] = None THEN AfterInsert(s) ELSE "dropOld"]
    /\ UNCHANGED <<url, stale, objects, older>>

\* The name was taken meanwhile, or the insert fails: the upload of a replaced
\* row stays.
InsertRefused(s) ==
    /\ at[s] = "insert" /\ ((\E a \in Assets : Live(a)) \/ "row" \in AssetTrouble)
    /\ Ends(s)
    /\ UNCHANGED <<asset, url, stale, objects>>

\* A failure leaves the new row open for a later request to reap or replace.
DropOld(s) ==
    /\ at[s] = "dropOld"
    /\ \/ /\ upload' = [upload EXCEPT ![older[s]] = None]
          /\ Then(s, AfterInsert(s)) /\ older' = [older EXCEPT ![s] = None]
       \/ "storage" \in AssetTrouble /\ Ends(s) /\ UNCHANGED upload
    /\ UNCHANGED <<asset, url, stale, file>>

Presign(s) ==
    /\ at[s] = "presign"
    /\ \/ url' = url \cup {On(s)} /\ UNCHANGED <<asset, stale>>
       \/ "storage" \in AssetTrouble /\ RowGoes(On(s))
    /\ Ends(s)
    /\ UNCHANGED objects

PutFile(s, b) ==
    /\ at[s] = "put"
    /\ \/ file' = [file EXCEPT ![On(s)] = b] /\ Then(s, "mark")
       \/ /\ "storage" \in AssetTrouble /\ Then(s, "undo")
          /\ file' = [file EXCEPT ![On(s)] = b] \/ UNCHANGED file
    /\ UNCHANGED <<asset, url, stale, upload, older>>

\* Marking a row that is gone by now does nothing, and says nothing.
MarkUploaded(a) == asset' = [asset EXCEPT ![a] = IF Live(a) THEN "uploaded" ELSE @]

Mark(s) ==
    /\ at[s] = "mark"
    /\ MarkUploaded(On(s))
    /\ Ends(s)
    /\ UNCHANGED <<url, stale, objects>>

\* The update that failed may have been committed.
MarkFails(s) ==
    /\ at[s] = "mark" /\ "row" \in AssetTrouble
    /\ MarkUploaded(On(s)) \/ UNCHANGED asset
    /\ IF serves[s].op = "direct" THEN Then(s, "undo") /\ UNCHANGED older ELSE Ends(s)
    /\ UNCHANGED <<url, stale, objects>>

\* A direct upload that failed takes its row back, published by now or not, if
\* that does not fail too.
UndoRow(s) ==
    /\ at[s] = "undo"
    /\ RowGoes(On(s)) \/ ("row" \in AssetTrouble /\ UNCHANGED <<asset, url, stale>>)
    /\ Ends(s)
    /\ UNCHANGED objects

-----------------------------------------------------------------------------
(* Finishing and deleting                                                  *)

HeadUpload(s) ==
    /\ at[s] = "head"
    /\ \/ upload[On(s)] = None /\ Ends(s)
       \/ /\ upload[On(s)] # None
          /\ Then(s, IF SizeOf[upload[On(s)]] = Declared THEN "copy" ELSE "discard")
          /\ UNCHANGED older
    /\ UNCHANGED <<asset, url, stale, objects>>

Discard(s) ==
    /\ at[s] = "discard"
    /\ upload' = [upload EXCEPT ![On(s)] = None]
    /\ Then(s, "discardRow")
    /\ UNCHANGED <<asset, url, stale, file, older>>

DiscardRow(s) ==
    /\ at[s] = "discardRow"
    /\ RowGoes(On(s))
    /\ Ends(s)
    /\ UNCHANGED objects

CopyUpload(s) ==
    /\ at[s] = "copy"
    /\ \/ upload[On(s)] = None /\ Ends(s) /\ UNCHANGED file
       \/ /\ upload[On(s)] # None /\ file' = [file EXCEPT ![On(s)] = upload[On(s)]]
          /\ Then(s, "drop") /\ UNCHANGED older
    /\ UNCHANGED <<asset, url, stale, upload>>

DropUpload(s) ==
    /\ at[s] = "drop"
    /\ upload' = [upload EXCEPT ![On(s)] = None]
    /\ Then(s, "mark")
    /\ UNCHANGED <<asset, url, stale, file, older>>

WipeFile(s) ==
    /\ at[s] = "wipeFile"
    /\ file' = [file EXCEPT ![On(s)] = None]
    /\ Then(s, "wipeUpload")
    /\ UNCHANGED <<asset, url, stale, upload, older>>

WipeUpload(s) ==
    /\ at[s] = "wipeUpload"
    /\ upload' = [upload EXCEPT ![On(s)] = None]
    /\ Then(s, "wipeRow")
    /\ UNCHANGED <<asset, url, stale, file, older>>

WipeRow(s) ==
    /\ at[s] = "wipeRow"
    /\ RowGoes(On(s))
    /\ Ends(s)
    /\ UNCHANGED objects

StoreCalls == {"discard", "copy", "drop", "wipeFile", "wipeUpload"}
RowCalls == {"discardRow", "wipeRow"}

\* A call of a finish or a delete fails, and nothing takes back the ones before.
CallFails(s) ==
    /\ \/ at[s] \in StoreCalls /\ "storage" \in AssetTrouble
       \/ at[s] \in RowCalls /\ "row" \in AssetTrouble
       \/ serves[s] # None /\ "killed" \in AssetTrouble
    /\ Ends(s)
    /\ UNCHANGED <<asset, url, stale, objects>>

AssetStep(s) ==
    \/ FindStale(s) \/ Reap(s) \/ Unput(s) \/ FindNamed(s) \/ Replace(s)
    \/ InsertRow(s) \/ InsertRefused(s) \/ DropOld(s) \/ Presign(s)
    \/ (\E b \in Bytes : PutFile(s, b)) \/ Mark(s) \/ MarkFails(s) \/ UndoRow(s)
    \/ HeadUpload(s) \/ Discard(s) \/ DiscardRow(s) \/ CopyUpload(s)
    \/ DropUpload(s) \/ WipeFile(s) \/ WipeUpload(s) \/ WipeRow(s) \/ CallFails(s)

AssetNext ==
    \/ \E a \in Assets : Expire(a) \/ \E b \in Bytes : Put(a, b)
    \/ \E s \in Slots :
          \/ AssetStep(s) /\ UNCHANGED doomed
          \/ \E op \in Ops : Add(s, op)
          \/ \E a \in Assets : Finish(s, a) \/ DeleteAsset(s, a)

AssetSpec == AssetInit /\ [][AssetNext]_assetVars

-----------------------------------------------------------------------------
(* Properties                                                              *)

\* A published asset goes only when somebody deletes it, or when the upload that
\* published it was told that marking it failed, and takes its row back before it
\* answers with an error: a reaper that found its upload stale leaves it, and no
\* request undoes what another, or a finish, has published (reapStaleUploads: "a
\* finish that raced this must keep its asset").
TakesBack(s, a) == at[s] = "undo" /\ On(s) = a /\ at'[s] = "idle"
AssetKept ==
    [][\A a \in Assets :
          asset[a] = "uploaded" /\ asset'[a] = "gone"
          => a \in doomed \/ \E s \in Slots : TakesBack(s, a)]_assetVars

\* A published asset has bytes to download, and they never change, unless its
\* deletion began: what is put on its URL later is not read again ("can no longer
\* alter the asset"), and a reaper, a second upload or a failure may come between
\* any two calls of its finish (finishAssetUpload, uploadAssetBytes).
PublishedBytes ==
    [][\A a \in Assets \ doomed' :
          asset'[a] = "uploaded" =>
             /\ file'[a] # None
             /\ asset[a] = "uploaded" => file'[a] = file[a]]_assetVars
=============================================================================
