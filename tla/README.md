# Verification of the BoyanKB knowledge base

BoyanKB is LibreChat extended by an enterprise knowledge base: one Feishu wiki space is
synchronised into MongoDB, a blob store and a vector index; members read and search it;
an enterprise Agent answers from it while a guard watches over every answer.  The
extension is `packages/api/src/knowledge/`, the schemas in
`packages/data-schemas/src/models/knowledge.ts`, and its wiring under `api/server/`.
These are the parts with logic of their own, and the subject of this project.  Of the
upstream application around them only two parts are: the transport of an answer's events,
through which every guarded answer reaches its viewers, and the election of a leader among
the servers that share Redis.

Paths below are relative to the repository; bare file names lie in
`packages/api/src/knowledge/`.

## 1. Inventory

| component | state | operations | correct when |
|---|---|---|---|
| **Source lease** (`store.ts:181-254`) | `leaseOwner`, `leaseFence`, `leaseUntil` in the source document | `acquire`, `renew`, `release`, `mutate` | a transaction commits only under the latest grant; no renewal revives a lease; a superseded worker stops |
| **Synchronisation** (`sync.ts`) | source health, access epoch, active run; runs, items, nodes, documents, revisions | `tick`, `processNext`, and by phase: validate, enumerate, extract and publish, reconcile, finish | what is served was read whole, is still in the space and was published in the current epoch; trouble takes nothing off line; each run ends |
| **Store for readers** (`store.ts:299-581`) | none of its own | `activeDocument`, `readDocument`, `readAsset`, `listTree`, `activeFileIds`, `refreshAgentFiles`, `enqueue` | the Agent's file list and what a reader may open agree; a document is not served after it went off line |
| **Answer stream guard** (`stream.ts`) | `reason`, `disposed`, `verifiedAt`, `pending`, `interval` | `start`, `checkNow`, `allowWrite`, `stop`, `dispose` | output ends within a bounded time after access is withdrawn, whatever answers and timers do |
| **Generations and attached streams** (`api/server/services/KnowledgeStream.js`) | registry of generations, one guard each, and a guard for each attached client | begin, capture, attach, finish | they stop together; who comes late learns what the answer rests on; nothing goes on after a withdrawal |
| **Stream transport** (`packages/api/src/stream/`: `GenerationJobManager.ts`, `implementations/RedisEventTransport.ts`) | early buffer, sequence counter in Redis, reorder buffer, deferral | emit, subscribe, attach, sync, flush, unsubscribe | no event twice, out of turn or held back for ever; none skipped but for gaps given up |
| **Leader election** (`packages/api/src/cluster/LeaderElection.ts`) | a key in Redis that expires; a timer and a flag per server | `isLeader`, `electSelf`, renew, `resign` | who answers yes held the key during the call; nobody touches another's key; there is a leader again and again |
| **Feishu client** (`feishu.ts`) | access token, request for a token in flight | calls with retries, backoff, classification of failures | one token request at a time; a failure is classified for the scope it was asked in |
| **Native index** (`nativeIndex.ts`) | files and vectors | `index`, `verify`, `remove` | a published file had its vectors; an interrupted `index` is repeated without waste |
| **Search** (`search.ts`, `searchNative.ts`) | manifest rounds and blob reads shared by concurrent searches | `search` and the tools of the Agent | the result belongs to one snapshot that was current after the request arrived |
| **Blob store** (`blob.ts`) | files named by their hash | `put`, `read` | what is read is what was put |
| **Worker and schedule** (`knowledge-worker.js`, `sync.ts:121-152`) | `lastPollAt`, `lastReconcileAt` | `tick` every five seconds | a run that is due is queued in time, and no more runs than workers |
| **Access decisions** (`access.ts`, `nativeAccess.ts`, middleware) | none of its own | allow or refuse | agree with the native permissions |
| **Extraction, answers, routes** (`extract.ts`, `answer.ts`, `routes.ts`) | none | pure conversions, HTTP | - |

How they interact.  The worker process runs `tick` in a loop; `processNext` takes the
lease, picks a run and makes one step after the other.  A step is a few calls to
Feishu (or to the index, or to the blob store), then a MongoDB transaction made by
`mutate`, which checks the lease as its first and its last statement.  A timer renews
the lease meanwhile.  Readers, the search and the guard read the same documents in
MongoDB without a lease.  Two things tie the parts together: the *access epoch*, which
moves when the source is paused and so hides everything published before, and the
*Agent's file list*, a copy of what is served that every transaction has to keep exact.
An answer starts a generation with a guard; each client that watches is an attached
stream with a guard of its own, fed by the transport.  Guards in one process share an
abort; across processes they meet in the job's metadata only.

What is hard to test in this code: takeovers of a stalled worker at every point;
renewals that arrive late; edits, moves and deletions in Feishu between any two calls;
retries that outlive an invocation; pauses and recoveries in a row; documents with
several nodes; checks of an answer stream that overlap a revocation; loads, tokens and
elections that concurrent calls share; events that reach a viewer by two ways at once.  `PROJECT.json`
lists them as hazards, each at its line with the properties that watch it.

## 2. Modules

| module | models | notes |
|---|---|---|
| `KnowledgeFence` | the promise of the lease | grants are numbered, a write belongs to the latest |
| `KnowledgeLease` | `acquire`, `renew`, `release`, `mutate`, the frame of `processNext` | implements `KnowledgeFence` |
| `KnowledgeLeaseProofs` | theorems | |
| `KnowledgeSync` | the synchronisation, the file list, the tree that readers see, and the Feishu space | composes worker frame, items, phases and environment |
| `MCKnowledgeSync` | the spaces that TLC explores | |
| `KnowledgeSyncProofs` | theorems | what is served |
| `KnowledgeSyncSafety` | theorems | the types, the active run, drafts and revisions; the other two extend it |
| `KnowledgeSyncScans` | theorems | what a scan concludes, what leaves service |
| `KnowledgeStreamGuard` | the guard of an answer stream | |
| `KnowledgeStreamGuardProofs` | theorems | |
| `KnowledgeGeneration` | a generation's guard, its record, the job, attached streams here and elsewhere | a check of a guard is one step |
| `KnowledgeSearch` | `manifest` and its shared rounds, `search`, `validateHits` | |
| `KnowledgeReader` | `readDocument`, `readAsset`, query by query; `ensureSource` with another Agent, deleted Agents | what `KnowledgeSync` leaves out of the store |
| `KnowledgeSchedule` | `tick`, `enqueue` and its names, by several workers | |
| `FeishuClient` | `token`, `request`, its retries, the kind of error | |
| `NativeIndex` | `index`, `verify` and the loop of `publish` around them | a step per call of the service |
| `BlobStore` | `put`, `read` | a step per call of the file system |
| `StreamTransport` | early buffer, attachment, reorder buffer | |
| `StreamTransportProofs` | theorems | |
| `LeaderElection` | the whole class | |
| `KnowledgeServices` | search, reader, schedule, client, index, blob store, generation and guard side by side | see section 3 |
| `KnowledgeServicesProofs` | theorems | a section for each of these parts |
| `MCStreaming` | transport and election side by side, for TLC | see section 3 |
| `StreamingProofs` | theorems | the election; the transport in the run of `MCStreaming` |

### KnowledgeLease

The clock is MongoDB's `$$NOW`; `ttl` is `leaseUntil - NOW`, so that time has no bound.
`Tick` ages the lease at any moment, in an open transaction too.  MongoDB makes a writer
of the source document wait for a transaction that has written it: that is `writeLock`,
taken by the first guard of `mutate` (`BeginMutation`), held through the last one
(`SealMutation`) until `CommitMutation` or `AbortMutation`.  A renewal is a message in
`renewals`: it is applied late or never, and its sender may hear of a failure though it
was applied.  `Crash` leaves the lease behind.  A guard that fails makes the invocation
leave, as `KNOWLEDGE_LEASE_LOST` is rethrown to the `finally` block.  The flag
`leaseLost` is kept (`lost`) though no guard reads it: the loop may stop between any two
steps anyway (`Finish`), and nothing may depend on the flag being seen in time.

### KnowledgeSync

Each action is one call or one transaction of the code, and what a worker has read and
not yet written lies in `loc[w]`, where a crash, a takeover or a change in Feishu can make
it stale.  `holder` is the lease of `KnowledgeLease` at its coarsest: a transaction
commits only for the holder (`MayCommit`); everyone else's is refused (`LeaseLost`), at
any time after the fact.

| code | actions |
|---|---|
| frame of `processNext` | `Acquire`, `Pick`, `StopLoop`, `Yield`, `LeaseLost`, `Release`, `Crash`, `Expire` |
| `performItem` and the `catch` of `processNext` | `NotDue`, `Due`, `GiveUpRun`, `TakeOffline`, `RetryLater`, `ItemFails`, `FailRun` |
| validate, enumerate | `Resolve`, `Validate`, `ListPage`, `Discover`, `RefusePage`, `EndEnumerate` |
| `extractDocument` | `SkipDocument`, `BeginExtract`, `FetchBefore`, `FetchBlocks`, `FetchMedia`, `FetchAfter`, `Stage` |
| `publish` | `Verify`, `BeginIndex`, `Index`, `Publish`, then `EndExtract` |
| reconcile, `confirmMissing`, `finish` | `QueueMissing`, `LookUp`, `Confirm`, `Finish` |
| `enqueue` | `Enqueue` |
| Feishu, external | `Edit`, `Move`, `Retarget`, `Rescope`, `ChangeAccess`, `Close`, `Reopen` |

Data are kept as small as the properties allow.  A revision *is* its content: the source
revision at which its blocks were read and the one at which its media were (or `Lost`),
which is how the code derives its id.  A page of a folder is what Feishu shows when it
is asked for; `Discover` records its nodes in any order, in one transaction, with the
sequence of tests and updates that `discover` makes for each (`Orphans`, `Expels`,
`Held`).  The items of a run are forgotten when it ends, because no step reads them again.
Node ids are numbers, in the order in which the reconcile cursor walks them.  A run's id
is the order of its creation.

### KnowledgeStreamGuard

One action is what the event loop runs without a break.  `Read(x)` is the moment at which
a dependency reads MongoDB; its answer is used at `Answered` or `CheckFails`, any time
later.  `silent[x]` says for how long the dependency would have refused, a variable of
the world that the guard does not see.  Instants are kept as ages.

### KnowledgeGeneration

`record` is the entry of `generations`, `shares` the viewers that found it; the abort of
the record's guard stops all that listen in one step (`StopAll`), as `stop` runs the
listeners at once.  A viewer elsewhere, or one that came before the record, knows what
`jobContext` and `jobStop` tell at each of its checks, and what it knew last (`last`) once
the job is gone.  The write of the stop code may fail in silence; the write of the context
has to succeed before the answer goes on (`Captured`).

### KnowledgeSearch

`round` is the entry of `pendingManifests`: queued, started, read, settled.  `TooOld` is
the test with which a fresh load refuses a round that has begun; `Forgotten` what the
entry is after a round has settled.  `since[c]` collects the manifests that were current
since the call asked for its last load, so that `ConfirmedAfterWork` can say that the
result was true at a moment after the work.

### KnowledgeReader, KnowledgeSchedule

A reader makes a step per query, and between any two the database may change by any
transaction of the synchronisation, here at its coarsest.  Whatever it takes from the blob
store it returns only after a second check (`CheckAgain`).  `EnsureSource` names any Agent
and sets the switch, and writes no list (`store.ts:163`); the list of the Agent named is
written by the next transaction, of the validate phase of the next run (`sync.ts:296`).
`listed` remembers for whom the last one was.

The schedule counts time in units of which `Poll` make a bucket, and a unit passes whatever
the ticks are at: what a worker has found due, with its bucket, may be old when it asks.
Names are kept for this bucket and the last (`taken`), as a tick takes no more than a bucket
(`TickTime <= Poll`; a bucket is a minute at least, a tick a few queries).  The source and
the clock are read in one step, runs may take any time, and a tick begins within a unit of
the last one (the loop sleeps five seconds).  The worker that takes a run up goes on ticking
here; in the code it is busy until the run ends, when nothing has been late yet.  `late` counts for how long a run that could be
asked for has not been.  Two scheduled runs may wait: ticks on either side of a turn, or of
the end of a run, both find nothing queued and ask under different names.

### FeishuClient, NativeIndex, BlobStore

A token lives `Life` ticks at Feishu and `Margin` less in the client. A call takes it once
and holds it through all its attempts. The answer with the token may take `Timeout`, which
is not related to `Margin`: the token has then less left than the client counts (`lag`). A
call gives up at its last attempt, or sooner if Feishu asks for a delay of more than a
minute. What an ended call knew is forgotten (`Over`), which keeps the states few. Index
and blob store make a step per outside call, and each call may fail after it took effect;
a worker may die between any two. Ids and vectors are ghosts of one revision, and one key
is all of the blob store, because nothing relates two.

### StreamTransport

A step runs up to the next answer of Redis, of the job store or of a timer.  `log` is the
order that the counter in Redis gave; `early` is the buffer of events emitted before
anybody watched, with the receipts still outstanding in `unsettled`.  The viewer that finds
nobody attached goes through `fence`, `check`, `apply` (or `read` and `trust`, when the
counter has to tell the frontier); others are `live` at once and wait behind `deferred`.
Simplified: an event is published in the order in which it was emitted and its receipt
comes later; the fence waits for all receipts that are outstanding; the answers of two
commands are handled one after the other.  The queue of a subscription that is not yet
activated is part of `got`.

### LeaderElection

A command takes effect at one step and its reply, or an error in its place, is handled at
a later one; a command that errs may have taken effect.  Any delay is allowed between the
two and between a timer and its callback.  The history variable `late` says that one has
lasted for more than a tick; what the lease is designed for is that none does, and as long
as none has the key may not be lost.

## 3. Runs

| run | instance | shows | size |
|---|---|---|---|
| `lease` | 2 workers, lease of 2 ticks, 3 grants | the fence, no revival, superseded workers stop | 38,401 states, 15 s |
| `sync_tree` | 1 worker, 3 nodes, 2 documents, 3 runs, 2 changes of the tree | deletions, moves, shared documents, shortcuts, two-scan rule | 870,119 states, 110 s |
| `sync_pages` | 1 worker, 3 nodes on 2 pages, 3 runs, 1 retry, 2 disturbances | retries, refusals, limits, pause and recovery | 492,030 states, 60 s |
| `sync_publish` | 2 workers (symmetric), 1 document, 2 edits, 2 runs, 3 disturbances | takeovers and crashes around publication | 900,504 states, 90 s |
| `sync_live` | 2 workers, 1 document, 1 run, 2 disturbances, fairness | each run requested ends | 24,531 states, 10 s |
| `stream` | 2 dependencies, 2 callers, half-second ticks, timers 1 tick late | write window, fresh checks, stop in 4.5 s | 974,108 states, 15 s |
| `services` | search, reader, schedule, Feishu client, index, blob store, generation, guard; fairness | each part's safety and liveness | 807,000 states, 190 s |
| `streaming` | transport (2 viewers, 2 events), election (2 servers) in time and late; fairness | each part's safety and liveness | 593,000 states, 110 s |
| `find_pause`, `find_shortcut`, `find_agent`, `find_flush` | smallest instance | where the code differs from what it says (section 6) | counterexample in seconds |

`services` and `streaming` put side by side components that share no state.  A behaviour
chooses one part at its beginning (`part`), makes the steps of that part, and the others
keep their first state: the states of the run are the *sum* of the parts', not their
product, and what holds of the run holds of each part by itself.  These runs are not
compositions and say nothing of an interaction.  Components that interact are composed in
one module: worker, items, store and space in `KnowledgeSync`; generation, viewers and job
in `KnowledgeGeneration`; job manager, Redis and viewers in `StreamTransport`.

The properties, in words:

* `GuardedIsCurrent`, `ImplementsFence`, `NoRevival`, `SupersededStops`: the lease.
* `AgentFilesExact`: after every transaction the Agent searches exactly the files of the
  documents that a reader may open.
* `ServedHasNode`: a document in service has a live node.
* `RunningIsActive`: the running run is the source's active run, and there is one at most.
* `PublishedIsWhole`: text and media of a published revision are of one source revision.
* `NoRollback`: a publication never replaces a newer revision by an older one.
* `OnlyPublicationServes`: nothing but a publication brings a document into service.
* `OfflineNeedsCause`: a document leaves service with the whole source, or after a change
  in Feishu that concerns it; never by a timeout, a crash, or a failed item or run.
* `RemovedAfterTwoScans`: a node that Feishu still shows is given up only after two
  complete scans that missed it.
* `FullScanAccounts`: a full run that ends well has met each live node, or marked it
  missing, or reports that it could not find out.
* `SucceededServesAll`: a run that succeeds leaves in service every document that it met
  inside the space.
* `RequestedEnds`: every run requested ends.
* `WriteWindow`, `CheckIsFresh`, `StoppedInTime`, `CallsReturn`: the guard of a stream.
* `StopIsShared`: a generation and the viewers of its process stop together, however an
  attachment overlaps the stop.  `LateViewersKnow`: who comes while an answer is written
  checks its documents before it shows anything.  `StreamsEnd`: a withdrawal ends every
  stream that knows of the documents, a stop code every stream while the job is there.
* `ConfirmedAfterWork`: what a search returns was confirmed by a load that began after its
  work.  `FailuresPass`, `CallsEnd`: a load that fails is forgotten; each call ends.
* `ReturnedWasReadable`: what a reader gets was served at some moment of the call, and
  allowed after it had been read.  `EnabledFilesExact`: whenever the source is on and names
  the Agent whose list was written last, its files are the documents in service, though
  switching off and on, or to another Agent and back, refreshes nothing.
* `DueIsQueued`: a run that is due, its name free, is queued within the time of two ticks
  and a unit; only a run that failed in this bucket holds its name up; and no more scheduled
  runs wait than there are workers, though ticks ask late and by old names.
  `FullScanComes`: a full scan that is due is started, though runs fail.
* `AuthIsTrue`: a first attempt that ends in `auth` was refused by Feishu and not for the
  token's age, unless it and the token's answer took longer together than the margin; and a
  refused token is not reused.  `RequestsEnd`: each call ends.
* `IndexedOnce`: a retry finds what was done unless something was lost, and a revision
  names only vectors that were there while it was being published.
* `PutWasThere`: `put` returns only once the whole content is in place; only the disk
  spoils a read; only faults leave temporary files.
* `DeliveredInOrder`: no viewer gets an event twice or out of turn, and none is skipped but
  for gaps that were given up.  `NothingHeldBack`: neither a deferral nor a gap holds
  events back for ever.
* `YesWasTrue`, `OwnerOnly`, `LeaseKept`, `LeadershipHeals`: the election: a yes was true
  at a moment of the call; only the owner's scripts touch the key; as long as nobody is
  late a leader keeps it through failed attempts, and again and again there is a leader and
  nobody else takes themselves for one.

### Bounds, and why they are enough

`MaxRuns = 3` gives the two scans of the two-scan rule and a run before them that
publishes.  Three nodes give a folder, a child, and a second node of one document, the
smallest tree in which a node can be missed by moving and a document can lose one node
of two; `ScanLimit = 1` makes each unseen node a batch of its own (100 in the code).
`MaxNodes = 2` in `sync_pages` reaches the node limit.  `MaxEdits = 2` lets a document
change twice while it is read.  `Troubles` names the kinds of disturbance a run explores
and `MaxTrouble` how many may happen in one behaviour; two or three are enough for every
pair or triple of them to meet, and the runs divide the kinds so that those that
interact are together.  `Reopen`, `Due`, the expiry of a dead worker's lease and new runs
are not counted.  `MaxFence = 3` lets a lease be taken over twice.  In `stream` the
constants are those of the code in half seconds (1000, 1500, 3000 ms), and `Deadline` is
the least that `StopsInTime` allows for them with timers half a second late; ages are
capped at the largest value any guard compares them with.

In `services`: two searches are enough to share a round and to queue behind it; two
snapshots and two changes let a manifest change and change back.  One reader against two
revisions and two epochs meets a publication, a pause and a recovery between its queries;
readers do not see each other.  Two Agents let the source change to the other and back while
the first is deleted.  Two workers tick at once, for up to half a bucket, so that a tick can
begin before a turn and end after it; `Reconcile` is a bucket and a half, so that polls come
between full scans.  Two calls share a token; two tokens let one be refused
and another issued; timeout and delay are each as long as the margin, so that a token may
run out meanwhile, and two slow answers use the margin up.  Three writers let one die, one link and one find the file.  Of three
viewers two are in the process of the generation.  The guard has one dependency there, in
time: what is asked is only that nobody waits for ever.  In `streaming`: two events and one
fault are a lost frame with another behind it, or a receipt that is lost; `MaxBuffer = 2`
(100 in the code) makes overflow happen; two viewers are a leader of the attachment and a
survivor.  A lease of two ticks with renewals after one leaves room for one retry, the
proportions of the defaults (25 s, 10 s, 3 attempts at half a second).

TLC checks for deadlock in the runs of `KnowledgeSync` and in `stream`.  In `lease` all
workers rest once `MaxFence` grants are used up; in `services` and `streaming` a part rests
when its calls are answered and its bounds reached.

### Fairness

`KnowledgeSync`: a worker that can make progress does (`knowledge-worker.js` calls `tick`
for ever and its supervisor restarts it), the lease of a dead worker runs out, and the
time of a retry comes.  Nothing is assumed of Feishu (it may stay closed), of failures, or
of a live worker's lease.  `KnowledgeLease`: a transaction that was begun ends; a worker
that goes on working gets its turn at the source document (strong fairness, as others hold
the lock in between), and so does its release.  `KnowledgeStreamGuard`: time passes,
timers fire, and continuations of settled promises run; that a dependency ever answers is
not assumed.  `KnowledgeGeneration`: the interval of each guard goes on.
`KnowledgeSearch`: a round that is queued is started, read or failed, and settled; a scan
ends.  `KnowledgeSchedule`: the clock moves, every worker's loop goes on, runs end in one
way or the other; a worker with a run under way does not keep the others from ticking.  That
a tick takes at most `TickTime` and the next begins within a unit is part of `Pass`.
`FeishuClient`: each attempt ends, by its timeout if not by an answer, and is repeated after
its delay.  `StreamTransport`: receipts settle, the flush timer fires, the job store and the
counter answer or fail; that a frame arrives is not assumed.  `LeaderElection`, as long as
nobody is late: time passes, timers fire, replies come, and a server that runs goes on
calling `isLeader`, as the application does on its schedules (time by strong fairness, as it
has nothing to do while no key and no timer runs).

Liveness is stated in the form `[]<>` where it can be: a part that owes something settles
it again and again.

## 4. What is proved

TLAPS checks these for every value of the constants, from the assumptions named in the
modules (`LeaseAssumption`, `SyncAssumption`, `NoRevAssumption`, `SpaceAssumption`,
`GuardAssumption`, `SearchAssumption`, `LeaderAssumption`, and `PartsAssumption`, of which
`TransportAssumption` is a part).
`SpaceAssumption` says that the space has two levels when it is first seen, as it has after
every move: `Present`, the external model of Feishu, looks no deeper.

* `KnowledgeLeaseProofs`: `TypeCorrect`, `GuardedNeverSuperseded`, `NoRenewalRevives`,
  `LeaseImplementsFence`.  `GuardedIsCurrent` is not inductive alone: a lock held by a
  worker that is not past its guard would let another one in.  The invariant adds
  `LockIsGuarded`.  The refinement maps the fence to `granted`, the presence of an owner
  to `open` and `committed` to `written`; each step is a grant, a write, a hand-back or
  a stutter.
* `KnowledgeSyncProofs`: `AgentFilesAlwaysExact`, `PublicationOnly`, `ServedAlwaysHasNode`.  What is served
  depends on seven variables (`servingVars`).  Some thirty actions leave them alone or
  write only a status that hides nothing (`FrameInert`, `CallsInert`, `StatusStep`,
  `WritesStep`); a lemma each covers the six that matter.  `ServingInv` is the inductive
  invariant: the list is exact; a document off line has the epoch -1 (`RemovedHidden`), so
  that a status written later does not bring it back; and no document is ahead of the
  source, while one published is behind a source that is not healthy (`EpochsBehind`),
  which is why recovering a source serves nothing by itself.  That a document in service
  has a live node rests on the holder of the lease: what it extracts had a live node when
  the extraction began (`ExtractedHasNode`), and only the holder takes nodes away, each
  time with the documents that were left without one.
* `KnowledgeSyncSafety`: `TypeCorrect`, `OneRunAtATime`, `PublishedWhole`, `NeverRollsBack`.
  The types alone are not inductive: what a worker writes is taken from `loc`, so the
  invariant adds that what it has in hand fits the step it is at (`Fits`: a run while it
  works, a folder when a page is listed, a document from `fetch` to `verified`, a node when
  one was looked up).  `OneRunAtATime` rests on `HolderOnActive` (the worker that holds the
  lease is on the active run, so that the run it ends is that one; others may be on runs
  that ended long ago) and `FutureAbsent`.  The other two rest on `DraftInv`: the parts of a
  document are read in order from a document that only moves on (`Sound`), so equal revision
  numbers before and after make the parts equal; and nothing published is newer than what
  the holder of the lease has read since (`NoneNewer`), because publishing takes the lease
  and a worker that takes it starts without a draft.
* `KnowledgeSyncScans`: four theorems about a run as a whole.
  * `GivenUpAfterTwoScans`, `FullScansAccount`.  `ScanInv` says that runs are taken in the
    order of their requests and one ends before the next begins (`OrderInv`); that the item
    in the holder's hands is pending and of the phase of its run (`InHand`); that a phase
    begins when no item of the one before is pending (`ItemsInv`); that a scan that missed a
    node is later than the last that met it (`SeenInv`); and that an item of `reconcile` is
    about a node that the scan has not met and says what became of it, with none left out
    up to the cursor (`ConfirmInv`).
  * `SucceededRunServes`.  A document item that succeeded stays in service while an active
    node shows it (`ServedInv`): a confirmation takes a document away only with its last
    live node.
  * `OfflineHasCause`.  This needs the other direction, from Feishu to the database.  What
    nobody touched is as it was at first (`SpaceInv`), so a page shows it where it belongs
    (`ListingInv`), the database has the right document for each of its nodes (`KnownInv`),
    and a scan that has gone past it has met it (`CoverInv`, by way of its folder).  So
    `discover` finds another node with the document before it takes it off line
    (`DiscoverKeeps`), `reconcile` never asks for such a node (`SteadyUnasked`), and a
    refusal that `performItem` acts upon was heard of a document that was touched
    (`FaultInv`).
* `KnowledgeStreamGuardProofs`: `TypeCorrect`, `WriteWindowHolds`, `ChecksAreFresh`.  A
  dependency that agreed in the pending check has refused for no longer than the check
  has run (`PendingInv`); when the check passes, its age becomes the age of the
  verification and the two grow together (`VerifiedInv`).  `StopsInTime`: a stream in
  service is stopped before a dependency has refused for `MaxAge`, one interval and the
  lag of the timers, the bound that the theorem assumes of `Deadline`.  `StopInv` follows
  the poll from one firing to the next, whichever checks are under way.
* `StreamingProofs`: `TypeCorrect`, `YesIsTrue`, `OnlyTheOwner` of the election.  That a yes was true
  needs that a reply that names the server was written while it held the key, during that
  call; the proof follows each reply from the command to the answer.  `LeaseNeverLost`
  (`LeaseKept`) assumes `Interval < Lease`, which the defaults satisfy (10 s and 25 s,
  `cluster/config.ts`) and the environment may break, as a test does on purpose to see a
  lease run out (`LeaderElection.cache_integration.spec.ts:113`).  `LeaseInv` says that
  while nobody is late the key has more ticks left than the timer of its owner, unless an
  answer that may end the renewal is on its way, and that an election whose answer has not
  been heard is of the present tick.  `OrderKept` is the theorem of the next module about
  the transport as the run exercises it.
* `StreamTransportProofs`: `TransportOrder`.  The order of a stream is not inductive by
  itself.  `TransportInv` names the boundary between what a viewer has and what still waits:
  `nextSeq` once delivery is released, and until then the frontier of the attachment that
  comes first in the queue of answers (`Behind`, `Buffer`).  It keeps account of every
  sequence that was assigned: before the early buffer is replayed its event is in the
  buffer, comes after all that is in it, or was an earlier attachment's (`EarlyAccounts`);
  after that, who the buffer was replayed to has what is before the frontier
  (`FrontierAccounts`).  And it says who can be where: nobody has got anything, and nothing
  is released, before the replay, and an attachment that goes on from the early events is
  the first to be answered (`Attachment`).  Both accounts end when a flush breaks off and
  takes the process with it (`broken`); the order of what was given does not.
* `KnowledgeServicesProofs`, a section for each part:
  * `TypeCorrect`, `Confirmed` of the search.  A call that waits for its last load waits for
    a round that had not begun when it asked, so that what the round reads is in `since`;
    `SearchInv` says so of each phase of the round.
  * `StopsTogether`, `LateOnesKnow` of a generation.  `GenerationInv` adds that who shares
    the record has come, and that the context is in the job while the answer is written.
  * `PutIsThere` of the blob store.  A writer links only what it wrote whole (`BlobWhole`),
    and a step leaves one file behind at most, and then it is a fault (`BlobLeaves`).
  * `FilesAreServed`, `OnlyReadableReturned` of the reader.  What a call has found so far was
    active at some moment of it, query by query (`Found`), and what it is about to return was
    readable if the second check finds the epoch of the first.
  * `RefusalsAreTrue` of the client.  A usable token has the margin left at Feishu, less what
    its own answer took (`TokenInv`), and a first attempt that is not over has used of it
    what it has waited (`CallInv`): only together can they use the margin up.  Nothing is
    assumed of the timeout; section 6 says for which values the exception is real.
  * `DueRunsAreQueued` of the schedule.  A tick that will not ask for the run that waits began
    before it did; the next one will, and keeps its name over the turn of a bucket (`Sooner`,
    by where each worker is).  A name that is taken belongs to a run that waits, runs, has
    failed or ended within the bucket (`Named`).  Who is about to ask has seen an empty queue,
    so that these and the scheduled runs are no more than the workers (`Counted`).  Assumed:
    workers are finitely many and a tick takes no longer than a bucket (`TickInv`: a run in
    hand is of this bucket or the last).
  * `TextsIndexedOnce` of the index.  `Account` sets the files, and the workers that may
    still add one, against overlaps, losses and failures; it is inductive only with one of
    these to spare while what the revision names is amiss and nobody is about to mend it
    (`Spare`).  Before any loss, `BeforeLoss` counts only the workers that embed.

The type invariants of the lease, the synchronisation, the guard, the search, the election,
the reader, the schedule, the client, the index and the blob store are proved, in a theorem
of their own or as a part of the invariant of their section.

What stays with TLC.  Liveness under fairness (`SupersededStops`, `RequestedEnds`,
`FailuresPass`, `CallsEnd`, `FullScanComes`, `RequestsEnd`, `StreamsEnd`, `CallsReturn`,
`LeadershipHeals`, `NothingHeldBack`) needs `ENABLED` and the proof rules for `WF` and `SF`,
which the installed provers do not have.  Every invariant and every action property of a
passing run is stated by a theorem.  Nothing that is proved about is recursive: what a
flush gives is ordered by `InOrder`, which ranks each number by how many are not greater,
so that the pigeonhole facts about finite sets show that it is a sequence of all of them
(`InOrderIs`), where a recursive sort would need induction over data.  The theorems about
parts that `KnowledgeServices` and `MCStreaming` exercise side by side are about one part
moving at a time: that the parts do not disturb each other is how they are composed, not a
result.

## 5. How the models relate

`KnowledgeSync` takes from `KnowledgeLease` that a transaction commits only under the
latest lease, without interruption by another worker's transaction; `GuardedIsCurrent` and
`ImplementsFence` show it.  `KnowledgeStreamGuard` sees the source only as a dependency that
says yes or no; what it asks is the search's `validateHits`, for which `KnowledgeSearch`
answers.  `KnowledgeGeneration` takes from the guard that a check which fails stops it and
that checks go on.  `KnowledgeReader` takes the transactions of `KnowledgeSync` as single
steps and adds the switch and the Agent.  `KnowledgeSync` takes `Index` as one step that
succeeds or fails and may be repeated, which `IndexedOnce` justifies; a blob store that
returns what was put, which `PutWasThere` justifies; calls that end in `ok`, `auth` or
`transient`, which `AuthIsTrue` justifies but for the cases of section 6; and runs that are
requested at any time, of which `DueIsQueued` says when.

## 6. Where the code and the documentation differ

1. **A deleted folder pauses the source** (`find_pause`).  `sourceFailure` (`sync.ts:66`)
   counts `not_found` in scope `source`, the scope in which `listNodes` asks for the
   children of a folder.  A folder deleted after it was discovered and before it is listed
   therefore pauses the source and hides every document until it is published again.
   `docs/boyankb/sync.md:52` keeps the pause for authorisation failures of the space.
2. **A deleted shortcut stays in the tree** (`find_shortcut`).  Reconciliation looks for
   nodes that are active or missing (`sync.ts:335`); a shortcut to another space is
   `out_of_scope` and, once deleted, is listed for ever.  `docs/boyankb/sync.md:82`
   promises that the next complete scan recognises deletions.
3. **A refusal does not end the service once the Agent is gone** (`find_agent`).  The
   transaction that pauses the source calls `refreshAgentFiles`, which throws when the Agent
   does not exist (`store.ts:578`); the pause is rolled back, and documents stay readable.
4. **A flush over a buffer that is emptied under it** (`find_flush`).  `forceFlushBuffer`
   (`RedisEventTransport.ts:1064`) asserts that each frame it sorted is still there; a
   handler that detaches the last viewer during the flush empties the buffer, and the next
   frame is undefined.  In the callback of the flush timer nothing catches the error.

Met while modelling, and not among the runs:

* A failure of the space during an extraction ends the run (`sync.ts:234`) and leaves the
  document in `extracting` or `indexing`, which `docs/boyankb/sync.md:44` describes as an
  update in progress.
* `request` takes the token once, before its retries (`feishu.ts:293`).  If it runs out
  between attempts the next is refused, the call ends with `auth`, and the source is paused,
  though `docs/boyankb/sync.md:52` tells interruptions from withdrawals.  `AuthIsTrue`
  excepts repeated attempts (`attempt[c] > 0`); without the exception TLC finds this.
* The margin is a minute or a tenth of the token's life (`feishu.ts:223`), counted from the
  answer; `timeoutMs` may be two minutes (`feishu.ts:183`).  With the default of 30 s the
  token's answer and the attempt fit into a minute together; with more, or with a life below
  ten minutes, a first attempt may be refused for the token's age and pause the source.
  `AuthIsTrue` excepts it (`age[c] + lag[holds[c]] > Margin`).
* A server started with the same space and another Agent makes the source name it at once,
  and no list is written.  Until the next run gets to its validate phase the searches of that
  Agent end with `KNOWLEDGE_SEARCH_SCOPE_INVALID` (`search.ts:254`); the Agent of before
  keeps its files for good.  `EnabledFilesExact` speaks of the Agent written last (`listed`).
* The check of the job after the fence (`GenerationJobManager.ts:5314`) may reject; the
  attachment then ends with the deferral still on, and viewers that came meanwhile see
  nothing until the last of them leaves.  `NothingHeldBack` excepts it (`stranded`).
* An attachment without named events trusts the counter in Redis
  (`RedisEventTransport.ts:826-831`), which may be ahead of frames in flight; these are
  dropped as old.  `DeliveredInOrder` excepts them (`passed`).

## 7. Not modelled, and the plan

Left out of the modules above: errors of MongoDB other than a lost lease, the mismatch of
the configured space, cursors that repeat (`KNOWLEDGE_PAGE_CYCLE`), counts, audit records,
titles, and the texts themselves.  The `enabled` flag, the Agent, names of runs, the blob
store, the index and the client's retries are abstract in `KnowledgeSync` and have modules
of their own.  `KnowledgeSchedule` assumes `Reconcile >= Poll`; the configuration allows
less, and full scans then come once in a bucket.  In `FeishuClient` an answer with a token
is not on its way while the app is withdrawn: it comes before, or not at all.  `StreamTransport` leaves out
resumption, replicas that did not generate, aborts and preemption, the overflow of the
early buffer, and the batching of deltas, whose frames take a range of sequences at once.

Not modelled at all, and why:

* **Access decisions** (`access.ts`, `nativeAccess.ts`, `streamAccess.ts`, the middleware),
  **output filter** (`streamOutput.ts`), **extraction** (`extract.ts`), **answers**
  (`answer.ts`), **routes**: functions of one request or one document, without state;
  their tests say more than a model would.
* **The rest of LibreChat**: nearly all of the repository's code, the web client among it.
  `RedisJobStore`, approvals, steering and triggers have state machines of their own and
  would be projects of their own; the knowledge base takes from them only what
  `KnowledgeGeneration` and `StreamTransport` state.  The share of the repository's lines
  that the map covers is small for that reason and will stay so.

Left to do, in this order:

1. `StreamTransport`: resumption, and a replica that did not generate, with the frontier
   that it captures by a marker (`captureSubscriptionFrontier`); `TransportInv` is stated so
   that further attachments can join it.
2. Proofs: an abstract specification of what readers are served, which `KnowledgeSync`
   implements as `KnowledgeLease` does `KnowledgeFence`, and one of an ordered stream for
   `StreamTransport`.
3. `KnowledgeSync`: `KNOWLEDGE_PAGE_CYCLE` and the mismatch of the space.

## 8. Running

    tlc -workers 2 -config lease.cfg KnowledgeLease
    tlc -workers 2 -config stream.cfg KnowledgeStreamGuard
    tlc -workers 2 -config sync_tree.cfg MCKnowledgeSync          # and sync_*, find_pause, find_shortcut
    tlc -workers 2 -config services.cfg KnowledgeServices
    tlc -workers 2 -config streaming.cfg MCStreaming
    tlc -workers 2 -config find_agent.cfg KnowledgeReader
    tlc -workers 2 -config find_flush.cfg StreamTransport
    tlapm KnowledgeLeaseProofs.tla    # and the other *Proofs, KnowledgeSyncSafety, KnowledgeSyncScans
