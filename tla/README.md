# PushStack, modelled in TLA+

PushStack is a code forge: Git over HTTPS, a REST API and a web interface, with
Git data in an object store (R2) and everything else in Postgres, served by
functions that may run anywhere, many at a time, and be killed at any moment.
What keeps repositories whole under those conditions is a few thousand lines in
`packages/git-fs-s3` and `apps/web/src/server`. These modules specify that code.
Most of it holds up; six disagreements between code and documentation are under
[Findings](#findings).

Paths below are relative to `src/`. `G` is `packages/git-fs-s3/src`, `S` is
`apps/web/src/server`.

## 1. Inventory

### The storage side

| Component | State it keeps | Operations | Hard because | Correct when |
|---|---|---|---|---|
| Retry and circuit breaker, `G/retry.ts` | breaker state, failure count, probe flag; an attempt counter per call | run, settle, back off | calls admitted in one breaker state settle in another | one probe at a time; a closed breaker is below its threshold; every call ends; the breaker closes again |
| Read cache, `G/cache.ts` | cached objects, misses, slices and listings; calls in flight; a generation counter | get, head, getRange, list, put, delete, invalidate | a read and a write overlap, and whoever settles last fills the cache | what stays cached is what is stored; answers were true during the read |
| Loose-object hint, `G/git-fs.ts` | a hint per repository; detections in flight | detect, read, write, unlink, invalidate | a detection settles after a write it did not see | no reader is told a stored object is absent |
| Write lock, `S/git-repo-lock.ts` | a lease row per repository in Postgres; a heartbeat per holder | withRepositoryLock, withRepositoryLocks | clocks differ, statements arrive late, holders are killed or frozen | locks exclude; a row changes hands only when it lapsed; no deadlock; waits end |
| Push, `G/http/receive-pack.ts`, `G/pack-write.ts` | refs, packs, indexes | receive-pack | commands of a push run concurrently; storage calls fail half way; functions are killed | refs move by compare-and-swap between complete histories; a refused push leaves nothing and takes nothing |
| Repack, `G/http/repack.ts` | packs, indexes, keeps | repack, merge kept packs | replaces files one by one under readers that take no lock | nothing reachable or promised is lost; no index without its pack |
| REST git objects, `S/git-objects.ts`, `G/ops/packed-writes.ts` | kept packs | create blob, tree, commit, tag; create, update, delete ref | objects are promised for a day before any ref names them | a promise outlives merges and repacks |
| Refs across instances, `S/git-fs.ts`, `S/git-http.ts`, `S/git-write.ts` | a cache per instance | push, web commit, reads | nothing invalidates another instance's cache | a ref moves only from what its writer saw |
| Repository lifecycle, `S/repository-create.ts`, `-fork.ts`, `-settings.ts`, `G/prefix.ts` | a row per repository; everything stored below its name | create, fork, rename, transfer, delete | rows and storage change in different systems; undo steps fail too | a repository keeps its content and has nobody else's |

They are layers. A request of any kind (`S/git-http.ts`, `S/git-write.ts`, the REST
handlers) takes the write lock by name, works on a `Repo` handle whose filesystem
(`G/git-fs.ts`) reads and writes keys through the cache, which wraps the retrying
store, which wraps R2. Lifecycle operations hold the lock but bypass the cache and
then invalidate it. Readers take no lock at all.

### The web server's own protocols

| Component | State it keeps | Operations | Hard because | Correct when |
|---|---|---|---|---|
| Pull request merging, `S/pull-request-store.ts`, `S/git-write.ts:394-439` | the rows of the issue and of the pull request; two branches | merge, close, reopen, delete the head branch, push | git merges under the lock, the rows change after it, in statements of their own; any may fail or be the last | recorded once, by a commit that has the head; never closed unmerged by a merge that failed |
| Three-way merge, `packages/git-edge/src/merge.ts` | none | mergeTrees | files, links, submodules and directories meet at one path | every path has what the sides ask of it, or is a conflict |
| Release assets, `S/release-assets.ts`, `S/release-store.ts` | a row per asset; an uploaded and a published object | upload, start, finish, delete, list, reap | presigned URLs outlive checks; every request tidies up after others | what is published has its bytes, and keeps them |
| Login codes, `S/device-flow-store.ts`, `S/oauth-apps-store.ts` | a row per code; tokens | decide, poll, exchange, expire | polls overlap, several pages decide | one token per code, after an approval; polls are spaced |
| Rate limits, `S/rate-limit.ts` | a counter per key; per instance the time of the last prune, the longest window seen, exhausted buckets | count, prune, deny from memory | instances prune what others count on | nothing that counts is pruned; memory forgets when the window ends |

Their handlers run without a lock across several statements, on rows they read
before. Merging is the one that also takes the write lock, for git's side of it.

### The rest

`PROJECT.json` lists every component with its reason. In short: reads, rendering,
parsing and formats keep no state that interleaves; the REST and GraphQL layers, the
interface, the command line and the documentation site are thin around the
operations above; issues, labels, milestones, comments, reviews and checks are single
statements that Postgres orders.

## 2. The modules

Each variable, action and helper is tied to its lines in `PROJECT.json` under
"map". JavaScript runs the code between two awaits as one step, so an action is what
happens between awaits that somebody else can observe; reads of state that the lock
protects share a step.

| Module | What it is |
|---|---|
| `ObjectGraph` | Objects, links, and when a walk is complete (`G/http/reachability.ts`). Pure. `ObjectGraph_proofs`: what a walk finds, and what one that stops early shows. |
| `RetryBreaker` | `G/retry.ts`. `Call` is `run`'s entry, `Settle` the outcome of an attempt with what `guarded` does to the breaker, `Wake` the backoff timer, `Tick` the reset window. |
| `CachedStore` | `G/cache.ts` in one instance, with the options of `S/git-fs.ts:159-170`. `Start`, `Fetch`, `Settle`, `Return` are the stages of a read, so that writes can fall between; `BeginWrite`, `Land`, `EndWrite` those of a put or delete; `Bypass` a storage operation that goes past the cache and invalidates it after. `clean` stands for comparing generations. |
| `LooseHints` | The loose-object hint of `G/git-fs.ts` for one repository. `Detect`, `ListLoose`, `SettleHint` are the stages of a detection, shared by readers (`AskFor`, `LookAtHint`) or a walk's own; `BeginLoose` and `EndLoose` those of a write. `overtaken` and `masked` remember, for the property, which detection a write came in on. |
| `RepoMutex` | What the lock promises: two running operations share no repository. |
| `RepoLock` | How: `Take` is the upsert, `Heartbeat` the renewal, `GiveUp` the acquire timeout, `Release` the holder-scoped delete, several locks in the order the code sorts them. Times are relative (`left[k]`), clocks are skewed, a statement may land up to `Latency` after its time was read. Implements `RepoMutex` (`MutexSpec`). |
| `AtomicRefs` | What pushes promise readers: refs that move one at a time, from the claimed value, between complete histories. |
| `ReceivePack` | `applyReceivePack`: `Preflight`, `StorePack`, `IndexPack`, `RejectPack` or `AcceptPack`, then every command with a phase of its own (`CheckRef`, `UpdateRef`, `CommandThrows`), then `Repack` to `Finish`, file by file. Implements `AtomicRefs` (`RefsAreAtomic`). |
| `KeptObjects` | `writeObjects` (`Write` to `Answer`), `consolidateKeptPacks` (`Merge` to `Unlink`), `repackRepository`, refs, and `.keep` files that expire (time passes between operations). |
| `InstanceRefs` | One ref, several instances. `StartRead` and `EndRead` are a read of the store that takes time, `Tick` expires cache entries, `Preflight`, `Check` and `Write` are the reads and the forced write of a push or a web commit under the lock. |
| `RepoLifecycle` | A request is asked for (it reads its row), waits for its locks, and goes through the steps of its kind: `Check`, `Clear`, `InitStore`, `Copy`, `Insert`, `Remove`, `Update`, `Back`, `Drop`, `Wipe`, `LandPush`. Every storage step may fail half done. |
| `MergeOnce` | What merging promises: a target that only grows, one record, by a commit that has the head. |
| `PullMerge` | One pull request. `StartMerge`, `GitMerge`, `Claim`, `RecordMerge`, `CloseLinkedIssues` are a merge; `RecordFails`, `TakeBack` and `Killed` its failures; a close, a reopen and a head deletion read (`ReadToClose`, `ReadToReopen`, `ListHeads`) and write (`WriteClosed`, `WriteOpen`, `DeleteHead`) apart. Implements `MergeOnce` (`MergesOnce`). |
| `ReleaseAssets` | The assets of one name of one release. A handler is a list of statements and store calls (`FindStale`, `Reap`, `InsertRow`, `Presign`, `HeadUpload`, `CopyUpload`, `Mark`, the `Wipe`s), any of which may fail or be its last; `Put` and `Expire` are the client and its URL. |
| `LoginCodes` | One code of either flow: `DecideDeviceCode`, `ReadCode`, `Gate` and `SlowDown`, `Decide`, `Consume`, `InsertToken`, `DropExpired`. |
| `RateLimits` | `ConsumeAuth` and `HitRateLimit` count, `PruneLands` deletes what was old by the window its instance knew when it sent the prune, `KnownExhausted` is the memory of an instance, `Restart` a new one. Times are ticks of half a second or less, resets are whole seconds (`Rounded`, the cast to bigint). `ledger` and `spent` remember, for the properties, what the counters would be had nothing been pruned; `served`, `sent` and `cut`, which rules an instance has served and which rows a prune took without its instance knowing their rule. |
| `TreeMerge` | `MergeTrees` and the recursive function `MergeEntry`, as in `merge.ts`, beside `TreesMerge`, which says path by path what a merge should have. An entry that is not there is `Absent`, of git's mode 000000. |
| `Storage`, `Web` | Modules that share no state, in one specification each: a behaviour is one of one of them, and the others stay as they begin. `Storage` has `CachedStore`, `LooseHints` and `RepoLifecycle`; `Web` has `PullMerge`, `ReleaseAssets`, `LoginCodes` and `RateLimits`. |
| `Null` | `None`, for all of these. |
| `*_proofs` | The theorems of the module before the underscore; `Storage_proofs` and `Web_proofs` also of the modules those two put together, `Web_proofs` of `TreeMerge` too. |
| `MC*` | Small instances for TLC. |

How they fit: the lock of `ReceivePack`, `KeptObjects`, `InstanceRefs` and
`RepoLifecycle` is the one `RepoMutex` promises and `RepoLock` provides; of
`ReceivePack` and `RepoLifecycle` that is a theorem (`PushesTakeTurns`,
`RequestsTakeTurns`).
`ReceivePack` and `KeptObjects` read what is stored: they are about the steps of
one operation, and take the reads under the lock to be current. `CachedStore`
shows that this is so within one instance. Between instances it is not, and
`InstanceRefs` says what is left. `GitMerge` of `PullMerge` is one step because it
holds that lock. The runs of `Storage` and `Web` ask about modules that share no
state at once; `MCWeb` adds the tree merges, which are pure.

## 3. What the runs check

Twelve runs. "Violation" runs check one property that the documentation states and
TLC refutes.

| Run | Instance | Shows |
|---|---|---|
| `retry` | 3 calls, 2 attempts each, threshold 3, window 2 | `OneProbe`, `ClosedBelowThreshold` in every order of answers; `OperationsSettle`, `BreakerRecovers` |
| `lock_pair` | 2 callers that need the same 2 keys, clocks 1 apart, lease 3, renewal 1, timeout 6, crashes and failed releases | `HolderKeepsRow`, `NoWaitCycle`, `TimeoutMeansContention`, `AcquireEnds`, and refinement of `RepoMutex` (`MutexSpec`, which is mutual exclusion) |
| `lock_taken_over` | the same, holders may stall | violation of `HolderKeepsRow` |
| `push` | either 2 pushers, 6 requests of one or several commands, 4 refs (2 collide, 1 no push can move), no failures; or 1 pusher, 5 requests of one command, each write may fail or land and fail, crashes anywhere; 7 packs, of which 1 is kept | `RefsComplete`, `WholePacks`, `NoCollision`, `CompareAndSwap`, `RejectedPushLeavesNoPack`, `StoredPackSurvives`, `KeptPacksStay` and refinement of `AtomicRefs`, over every sequence of pushes and repacks |
| `push_leak` | 2 pushers, one command may throw | violation of `CompareAndSwap` |
| `storage` | 1 key, 1 value, 2 readers, 1 writer, all five kinds of read; or 1 loose object, 2 readers, 2 writers, a walk; or 3 repositories, 3 names, 2 requests at a time, failing storage and rows, killed creates, forks, deletes and pushes | `CacheMatches`, `ListsMatch`, `RegularReads`; `AbsentMeansAbsent`; `KeepsContent`, `OnlyOwnContent`; `StorageTypeOK` |
| `objects` | 3 objects (a commit, a tree, their base), 2 branches, keeps of 2 ticks, thresholds 2, aborts anywhere | `PromisedVisible`, `WholePacks`, `HistoryStays` |
| `objects_refs` | the same, no failures | violation of `RefsComplete` |
| `instances` | 2 instances, 1 ref of 2 commits, TTL 2, reads of at most 1 tick | violation of `MovesFromBase` |
| `lifecycle_rename` | 2 repositories, a rename onto the other's name | violation of `KeepsContent` |
| `web` | 2 merges by any method, a close, a reopen, a head deletion, 2 head commits; or 2 requests on 2 assets, bytes of 2 sizes; or 2 polls or exchanges, 2 users; or 2 instances, 2 rules of Better Auth and 1 bucket of the API; or 3 trees | `MergesOnce`, `MergedIsClosed`, `NeverClosedUnmerged`, `LandsReviewedHead`; `AssetKept`, `PublishedBytes`; `OneTokenPerCode`, `PollsKeepInterval`; `CountedUnlessCut`, `MemoryEndsInTime`; `TreesMerge`; `WebTypeOK` |
| `pulls_squash` | 2 merges of one pull request, squashed | violation of `LandsOnce` |

What the properties say, beyond their names:

- `ClosedBelowThreshold`: failures of requests that were admitted in an earlier state
  of the breaker never leave it closed with the threshold reached.
- `TimeoutMeansContention`: a wait gives up only if somebody else took or renewed the
  row while it waited, so a killed holder alone fails no write.
- `RejectedPushLeavesNoPack`, `StoredPackSurvives`: the clean-up of a refused push
  deletes the pack it stored, but not the identical pack that was there before.
- `RegularReads`: an answer, cached, joined or fetched, is a value the object had
  between the start and the end of the read, or one a change then under way gives it.
- `PromisedVisible`: `KeepFor` after a client was told of an object, it can still be
  read, through every merge and repack, and wherever an operation stopped.
- `AbsentMeansAbsent`: a reader is told a loose object is absent only at a moment when
  it is, unless the hint comes from a detection that a write or a change past the
  filesystem overtook, or such a change is under way.
- `KeepsContent`, `OnlyOwnContent`: whenever nobody holds the lock of its name, what
  is stored there is all of, and nothing but, what the repository was created and
  forked with.
- `NeverClosedUnmerged`: when no request is at work or was cut short, a closed pull
  request is merged, or a user closed it or deleted its head.
- `LandsReviewedHead`: a merge that names the head it reviewed never lands a later one.
- `AssetKept`, `PublishedBytes`: a published asset goes only when somebody deletes it,
  or when the direct upload that published it was told that it had not, and takes it
  back; until a deletion its bytes do not change.
- `OneTokenPerCode`: a code yields at most one token, for a user who approved it and
  whose approval was the decision answered with success.
- `CountedUnlessCut`: no prune takes a row that still counts, except one of a Better
  Auth rule longer than any the pruning instance had served, since its cold start, when
  it sent its prune. The API's rows are never taken.
- `MemoryEndsInTime`: what an instance denies from memory was over its limit in a window
  that still runs, or that ended less than half a second ago.
- `TreesMerge`: every conflict a merge reports is a path that cannot be reconciled, or
  where a directory meets something else, and every such path is reported or lies below
  a reported one. A merge without conflicts has at each path the side that changed it,
  or the line by line merge of both. The only paths excepted are files of ours that
  theirs alone made a link.

### Bounds, and why they are enough

Two actors reach every pairwise interleaving; the breaker gets three, because its
hazard needs an early call, a probe and a latecomer. `Lease`, `Renew`, `MaxGap` and
`Timeout` keep the order of the constants in the code (20 s < 60 s < 65 s). The keep
time and the repack thresholds are 2, the least at which a promise can be half over
and a merge has something to merge. One cached key is enough because entries of
different keys touch only through listings and the generation counter, and the
counter is modelled by whether any write came between. Push requests are chosen so
that each branch of the code is taken, and their number per behaviour is not bounded:
pushers serve again. Ages and clocks are capped where everything older is alike.
In `web`, two merges and one each of close, reopen and deletion make every pair that
can overtake one another; a head of 2 commits tells a reviewed head from a later one.
Two assets are what a replacement needs. One of Better Auth's windows (1 s)
is shorter than the other and than the API's (2 s), so that a prune by the wrong one
shows, and half seconds are the coarsest ticks on which rounding shows; the clock (5
ticks) outlasts a window that begins at 0 or 1, and each key is counted just to its limit
or one beyond. Codes live 3 ticks of 5. The trees have two names, and are three levels deep
where only one name is used: a level merges its entries alike. Texts have two lines, and
one file is empty, which is what two files in the place of a directory need. The
symmetries are those of the two pushers and of the two instances that count. The
theorems do without these bounds.

`CHECK_DEADLOCK FALSE` is set where a system with nothing to do may stop: no request
left to make, or time that no longer matters.

### Fairness

Three properties are liveness: `OperationsSettle` and `BreakerRecovers` of
`RetryBreaker`, `AcquireEnds` of `RepoLock`. They assume weak fairness of the code's
own continuations (an await that can resume does: the poll loop, the heartbeat timer,
the backoff timer, the settling of a call) and of time. The `retry` run also assumes
that requests keep coming, since the breaker probes only when asked
(`G/retry.ts:129-135`); `BreakerRecovers` is about outages that end. Crashes, failures
and lock requests may happen and need not.

## 4. What is proved

TLAPS checks these for every value of the constants that satisfies the `ASSUME`s.

- **`RetryBreaker_proofs`**: types, `OneProbe`, `ClosedBelowThreshold`. The probes in
  flight are exactly those the flag mirrors.
- **`RepoLock_proofs`**: types; without any timing assumption,
  `NoWaitCycle`, and `RowsTakenOnlyWhenLapsed`, which no run checks, since the passing
  one lets no holder stall: the row of a call that holds its lock changes hands only
  once it lapsed on some clock, so a stalled holder that comes back deletes nothing of
  its successor's; `HolderKeepsRow`, `MutualExclusion` and the refinement of
  `RepoMutex` under `InTime` (renewals land within `MaxGap`, and `MaxGap` plus the
  clock skew is at most the lease); `TimeoutMeansContention` under `OutlastsLease`
  (patience outlasts lease, skew and latency, as `ACQUIRE_TIMEOUT_MS` is meant to).
  The invariant for the first adds the age of each row, bounded by `MaxGap`; that for
  the second, that a row nobody else wrote since a wait began lapses before the wait's
  patience does. Waits cannot form a circle because a caller waits for a larger key
  than any it holds.
- **`Storage_proofs`**, about three modules and what puts them together.
  `CachedStore`: types, `CacheMatches`, `ListsMatch`, `RegularReads`. The invariant
  ties every answer that may still be admitted or joined to the contents allowed since
  it began; a write bumps the generation before and after, which is where the allowed
  contents shrink.
  `RepoLifecycle`: types and the refinement of `RepoMutex`, unconditionally: requests
  are inside their locks as it lets them, and no name stays locked when the request
  that took it is over (`RequestsTakeTurns`). `KeepsContent` and `OnlyOwnContent` under
  `Orderly` (requests on one repository do not overlap, and a rename or transfer is
  not cut short between copy and row) and `KeptForOne` (a rename's new name is meant
  for one repository and nobody else's to begin with), which are what the findings and
  hazards below need. The invariant has two parts: who may write below which name
  (`RowPart`: the lock held, the row read, or the name reserved), and what is below it
  at each step of each kind of request (`StorePart`), leftovers of failed steps included.
  `LooseHints`: types and `AbsentMeansAbsent`. The invariant, `NoneMeansNone`, says
  that a detection nothing has overtaken has no write beside it.
  `Storage`: each of its behaviours is one of each of the three (`StorageIsEach`), so
  what is proved of them holds of the run, and types.
- **`ReceivePack_proofs`**, each theorem under no more than it needs, and under all
  other failures and any crash:
  - unconditionally, types, and the refinement of `RepoMutex`: pushes take turns, and
    none keeps the lock when it is over (`PushesTakeTurns`);
  - unless unlinks fail, `WholePacks`, and `RejectedPushLeavesNoPack`: what a refused
    push is to unlink is all it stored and did not find;
  - unless listings fail, `StoredPackSurvives` and `KeptPacksStay`: nothing that was
    stored when a push began, or is kept, is ever to be unlinked by mistake;
  - if a failed command leaves no sibling running (`NoLeaks`), `CompareAndSwap` and
    `NoCollision`. For both the commands of a push are followed from the preflight on:
    no two still to be written name one ref, or names that collide, because the
    preflight refuses the first and `taken`, which siblings share, the second;
  - if besides listings succeed (`Calm`), `RefsComplete` and the refinement of
    `AtomicRefs`. The invariant says what the new tips of a push rest on at each step:
    on what is visible, and on no file a repack is deleting.
- **`ObjectGraph_proofs`**: a walk is complete exactly if all that paths of links reach
  from its tips, up to the objects it stops at, is stored (`WalkFindsWhatIsReached`); one
  that stops at complete objects shows its tips complete, so validation against existing
  refs is enough.
- **`KeptObjects_proofs`**: types; `PromisedVisible` and `HistoryStays`, whatever
  fails; `WholePacks` unless deletions fail. Every promised object is in a pack that
  is whole, kept for at least as long as promised, and not being deleted.
  `RefsComplete`, which `objects_refs` refutes, is proved of `TimelySpec`: where a ref
  is moved to a commit only while all that is new behind it is still promised. Such
  updates also implement `AtomicRefs`. So finding 5 has no other cause, and a client
  that takes less than a day from its first object to its ref never meets it. TLC
  agrees on the instance of the `objects` run.
- **`InstanceRefs_proofs`**: types; `OldUpdatesAreSeen`, for any number of instances:
  an update that was older than a cache entry and a read can live, when the ref was
  checked, is never overwritten unseen; and `MovesFromBase` if one instance serves
  the repository. The invariant trades the life of an outdated entry against the
  time since the ref changed. TLC agrees on the instance of the `instances` run.
- **`Web_proofs`**, for any number of requests, users, instances and keys.
  `PullMerge`: types, `MergedIsClosed`, `NeverClosedUnmerged`, `LandsReviewedHead`,
  and the refinement of `MergeOnce`: whoever has claimed the pull request knows a
  commit of the target that has the head. Of finding 6: a merge brings again only what
  landed as a copy, squashed or rebased (`CopiesAloneLandAgain`), so `LandsOnce`,
  which `pulls_squash` refutes, holds where pull requests get merge commits
  (`MergesLandOnce`). `LoginCodes`: `OneTokenPerCode` (a token in the making and a
  code that can still be consumed exclude each other) and `PollsKeepInterval`.
  `RateLimits`: `MemoryEndsInTime`; and, for rules of any windows and prunes that land
  at any time, `CountedUnlessCut`, because a prune goes by no less than the longest
  window its instance had served when it sent it; and that no prune takes a row that
  counts of the API or of a rule with the shortest window (`ShortWindowsAreKept`), so
  none takes any if the rules share one. `ReleaseAssets`: `AssetKept` and
  `PublishedBytes` if the only overlap is of a finish and a put (`Overlaps \subseteq
  {"put"}`). `Web`: each of its behaviours is one of each of the four (`WebIsEach`),
  and types. `TreeMerge`: `TreesMerge` (`MergedPathByPath`), for trees of any shape,
  whatever their files hold, if no tree is inside itself (`Depth`), which names that
  are hashes rule out.
  The merge is recursive, so three inductions carry it: that the recursive functions
  `MergeEntry` and `EntryAt` have the values their definitions say (`MergeEntryIs`,
  `EntryAtIs`), and that entries merge as their paths do if those below them do
  (`MergesAsPaths`, on the depth of the three). The installed provers cannot apply the
  library's induction theorems, which take an operator; each induction is about a set of
  numbers instead (`SetInduction`), from the least element of its complement (`LeastNat`,
  from `WFMin`).

Every invariant, action property and refinement the passing runs check is a theorem.
Only model-checked: the three liveness properties, which are out of TLAPS's reach.

## Findings

1. **`instances`, code.** Writers read refs through their instance's cache while they
   hold the lock, and nothing drops those entries when the lock is taken
   (`S/git-fs.ts:31-47, 162`). Within 5 s of a push on one instance, a push or a web
   commit on another that has the ref cached passes its compare-and-swap against the
   old value and overwrites the first.
2. **`lifecycle_rename`, code.** A rename moves the storage before the unique index
   can refuse the name (`S/repository-settings.ts:141-149`). Onto a name in use, it
   writes over the other repository, and the undo moves both away.
3. **`push_leak`, code.** The commands of a push run in one `Promise.all`
   (`G/http/receive-pack.ts:310`). If one throws, the push fails and the lock is
   released while others have yet to force their write.
4. **`lock_taken_over`, documentation.** A holder that cannot renew only logs it, so a
   stall longer than the lease does have its lock taken over in the middle of a write.
5. **`objects_refs`, documentation.** Objects of several requests expire one by one.
   A ref may be moved to a commit whose tree expired before it and was repacked away.
6. **`pulls_squash`, code.** A merge claims its pull request after it has released the
   repository lock (`S/pull-request-store.ts:388-399`). Two merges that squash, or
   rebase without fast-forward, both land: the second does not see that the target has
   the changes already, commits again, by then with nothing to change, and answers
   success.

Seen in the models, listed as hazards, and kept out of the runs by their fault
constants or by the conditions of the properties:

- A failed pack listing is taken for an empty one, and the clean-up of a refused push
  can then delete history (fault `"list"` of `ReceivePack`).
- A pack whose index could not be written stays until a later repack.
- Failed unlinks go unnoticed and leave an index without its pack (`"unlink"`).
- A push that waits for the lock behind a deletion lands below a name without a
  repository, or with a new one (`Races = {"requests"}` of `RepoLifecycle`).
- A function killed between the copy and the row of a rename or transfer leaves the
  repository at one name and its row at the other (`"late"`, `Killable`). The
  `storage` run therefore kills only the other kinds of request.
- A fork of a repository whose creation is not answered yet copies what a deleted one
  of that name left.
- A detection of loose objects looks for a hint before its listing and not after
  (`G/git-fs.ts:288-300`). One that listed before a loose write sets `none` over the
  write's `present`, and hides the object for the life of the hint, an hour; the
  comment at line 68 and `git-storage.md:182` say it cannot. Nothing in the web
  application writes loose objects (`G/ops/packed-writes.ts:5-12`), so
  `AbsentMeansAbsent` excepts such hints instead of a run refuting it.
- A close or a head deletion that comes between git's merge and the claim, or a
  function killed between claim and record, leaves a pull request closed, unmerged and
  with its changes on the target; the loser of a claim answers success.
- A reopen decided on before a merge recorded leaves a merged pull request with an open
  row (`S/thread-store.ts:67`), which a later merge records again. `TakeBack`, which
  reopens what a failed record claimed, overrides a user's close.
- A second merge that found nothing to do records an empty range.
- Release assets: two uploads of one name delete each other's row, published or not
  (`S/release-store.ts:331`, `Overlaps = {"replace"}`); two finishes of one asset
  (`{"finish"}`); a reap between the copy and the mark leaves bytes without a row; the
  size is checked before the copy, so bytes put between are published with another. A
  direct upload whose mark was committed but not answered deletes the row it has just
  published and reports a failure, and the file stays (`S/release-assets.ts:149-155`);
  this one is in the run, and `AssetKept` excepts it.
- The window an instance prunes Better Auth's counters by is the longest it has served
  itself since its cold start, as of the moment it sends the statement
  (`S/rate-limit.ts:62, 81-87, 96`). With rules of several windows, an instance that had
  served only the shorter ones deletes rows that a longer one still counts, and that
  rule starts again from one; the comment at 57-60 says a prune must never do this. It
  is in the run, and `CountedUnlessCut` excepts it: without `cut` TLC finds it.
- A window's end is rounded to the nearest second (`S/rate-limit.ts:405`) and compared
  with the second the clock is in (`:357`), so an instance may deny from memory for half
  a second after the table would have begun a new window; the comment at 315-316 says
  that denying from memory is exact. `MemoryEndsInTime` allows for it.
- A tree merge asks only whether our side is a symbolic link (`merge.ts:150`): a link
  of theirs over a file ours changed can be merged line by line.

## 5. Left out of what is modelled

- `ReceivePack`: initialising an empty repository, packet framing, the follow-ups of
  an accepted push (pull requests, releases, references).
- `CachedStore`: ranges beyond `maxRangeBytes`, which go past the cache; two writers
  of one key at once, which the lock excludes; a put that lands after it failed.
- `KeptObjects`: the entries a `base_tree` contributes, request validation other than
  that named objects exist; annotated tags behave like commits.
- `InstanceRefs`: listings of refs and packs, which go stale in the same way.
- `RepoLifecycle`: cached rows, settings other than the name, and overlapping requests
  on one repository in the passing run.
- `LooseHints`: directories the caller vouches for; a write that lands after it failed.
  The store's answers are taken to be current, as `RegularReads` has it.
- `PullMerge`: drafts, reviews, access, titles and base changes; what is in a commit.
- `ReleaseAssets`: the cap on assets, which is checked before the insert; renames of
  assets; releases.
- `LoginCodes`: which client presents a code, scopes, registration.
- `RateLimits`: clock skew, failing open, peeks, and the memory of failed addresses.
- `TreeMerge`: how two texts are aligned; a line merges by itself. An empty tree object
  inside a tree.
- Everywhere: byte formats, wording, logging, metrics. One store call is taken to be
  atomic, and a failed write may have landed.

## 6. Plan

Done: the modules above, in the order retry, lock, push, cache, kept objects,
lifecycle, instances, pull requests, release assets, login codes, rate limits, tree
merge, loose-object hint, with proofs beside them.

Next, the most important first:

1. Stale listings: `InstanceRefs` with packs, to see what a repack on one instance
   does to objects a ref of another has just named.
2. Readers that hold the parsed index of a pack while a repack deletes it
   (`G/http/upload-pack.ts:246`): when a clone fails, and that its retry does not.
3. The conditions of `ReleaseAssets` as questions of their own: what is still true of
   two uploads of one name, and of two finishes of one asset.
4. Theorems about what is left of the findings where their conditions fail: of pushes
   whose commands run on after the lock is gone, of renames onto a name in use.
5. The cache of rows (`S/ttl-cache.ts`) as an instance of `CachedStore`.

Where two questions can share an instance, their runs are joined.
