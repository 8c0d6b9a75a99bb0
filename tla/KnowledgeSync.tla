--------------------------- MODULE KnowledgeSync ---------------------------
(***************************************************************************)
(* The synchronisation of one Feishu wiki space into the knowledge         *)
(* database (KnowledgeService in sync.ts): runs and their phases, the      *)
(* items of the active run, nodes, documents, revisions and the file list  *)
(* of the enterprise Agent.                                                *)
(*                                                                         *)
(* Each action is either a call to Feishu, whose answer the worker keeps   *)
(* in loc, or a database transaction made under the lease (mutate).  A     *)
(* worker that lost its lease may finish its call; its transaction is      *)
(* refused.  KnowledgeLease shows that this is what the lease does.        *)
(***************************************************************************)
EXTENDS Integers, FiniteSets

CONSTANTS
  Workers,      \* worker processes
  NoWorker,     \* nobody
  Nodes,        \* wiki nodes, in the order of their ids
  PageOf,       \* the page of its parent's listing that a node appears on
  Pages,        \* the number of pages of every listing
  Docs,         \* content objects
  Docx,         \* those whose type is docx
  NoRev,        \* no revision
  InitPlace, InitTarget, InitForeign,   \* the space when it is first seen
  MaxRetries,   \* sync.maxRetries
  MaxNodes,     \* sync.maxNodes
  ScanLimit,    \* confirmation items queued by one transaction
  MaxRuns,      \* bound on the runs explored
  MaxEdits,     \* bound on the edits of one document
  Troubles,     \* the kinds of disturbance explored
  MaxTrouble    \* bound on their number

Root == 0
Gone == -1        \* a deleted node
Elsewhere == -2   \* a node moved to another space
Lost == -1        \* a media object that could not be downloaded
Folders == Nodes \cup {Root}
RunIds == 1..MaxRuns
NoRun == 0

ASSUME SyncAssumption ==
  /\ NoWorker \notin Workers
  /\ Nodes \subseteq Nat \ {0} /\ IsFiniteSet(Nodes)
  /\ Docx \subseteq Docs
  /\ Pages \in Nat \ {0} /\ PageOf \in [Nodes -> 1..Pages]
  /\ MaxRuns \in Nat /\ MaxEdits \in Nat /\ MaxTrouble \in Nat
  /\ MaxRetries \in Nat /\ MaxNodes \in Nat /\ ScanLimit \in Nat \ {0}
  /\ InitPlace \in [Nodes -> Folders \cup {Gone, Elsewhere}]
  /\ InitTarget \in [Nodes -> Docs]
  /\ InitForeign \in [Nodes -> BOOLEAN]

\* A folder lies at the root of the space, here and after every move (MayHold).
ASSUME SpaceAssumption ==
  \A n \in Nodes : InitPlace[n] \in Nodes => InitPlace[InitPlace[n]] \notin Nodes

\* A revision is identified by its content: the source revision its blocks and
\* its media were read at.
RevIds == [doc : Docs, blocks : 0..MaxEdits, media : 0..MaxEdits \cup {Lost}]
ASSUME NoRevAssumption == NoRev \notin RevIds

Items ==
  ({"folder"} \X Folders) \cup ({"document"} \X Docs) \cup ({"confirmation"} \X Nodes)
NoItem == <<"none", Root>>

VARIABLES
  health, epoch, activeRun,                    \* KnowledgeSource
  lastRun, mode, status, phase, scanned, cursor,   \* KnowledgeRun
  nodeState, nodeDoc, nodeParent, nodeSeen, nodeEpoch, missingRun,   \* KnowledgeNode
  docStatus, docEpoch, revalidate, activeRev,  \* KnowledgeDocument
  revisions, published,                        \* KnowledgeRevision: stored, published
  item, page, attempts, delayed,               \* KnowledgeItem, of the active run
  agentFiles,                                  \* file_search.file_ids of the Agent
  holder, pc, loc,                             \* the lease and the workers
  place, target, foreign, content, access, open,   \* the wiki space in Feishu
  trouble, disturbed                           \* disturbances so far, documents touched

sourceVars == <<health, epoch, activeRun>>
runVars == <<lastRun, mode, status, phase, scanned, cursor>>
nodeVars == <<nodeState, nodeDoc, nodeParent, nodeSeen, nodeEpoch, missingRun>>
docVars == <<docStatus, docEpoch, revalidate, activeRev>>
revVars == <<revisions, published>>
itemVars == <<item, page, attempts, delayed>>
dbVars == <<sourceVars, runVars, nodeVars, docVars, revVars, itemVars, agentFiles>>
workerVars == <<holder, pc, loc>>
spaceVars == <<place, target, foreign, content, access, open, disturbed>>
vars == <<dbVars, workerVars, spaceVars, trouble>>

-----------------------------------------------------------------------------
(***************************************************************************)
(* What the records may hold                                               *)
(***************************************************************************)

Phases == {"validate", "enumerate", "extract", "reconcile", "finish"}
Ended == {"succeeded", "partial", "failed"}
Live == {"active", "missing"}
Offline == {"removed", "inaccessible"}
NodeStates == Live \cup Offline \cup {"unknown", "out_of_scope"}
DocStatuses == Offline \cup {"unknown", "pending", "extracting", "indexing",
                             "published", "partial", "failed", "unsupported"}
\* "missing" is a confirmation that succeeded with the outcome missing.
ItemStates == {"none", "pending", "succeeded", "partial", "failed", "missing"}
Entries == [doc : Docs, foreign : BOOLEAN, child : BOOLEAN]
Listings == UNION {[S -> Entries] : S \in SUBSET Nodes}
Drafts == [before : 0..MaxEdits, blocks : 0..MaxEdits, media : 0..MaxEdits \cup {Lost}]
Faults == {"none", "source", "transient", "denied", "not_found", "other"}
Replies == {"none", "present", "elsewhere", "not_found", "denied"}
Steps == {"idle", "picking", "loop", "resolved", "listed", "fetch", "blocks", "media",
          "after", "ready", "staged", "indexing", "verified", "looked", "faulted",
          "failing", "leaving"}
Locals == [run : RunIds \cup {NoRun}, item : Items \cup {NoItem}, listing : Listings,
           draft : Drafts, attempt : 0..MaxRetries, reply : Replies, fault : Faults]

NoListing == [n \in {} |-> NoItem]
NoDraft == [before |-> 0, blocks |-> 0, media |-> 0]
Fresh(run) ==
  [run |-> run, item |-> NoItem, listing |-> NoListing, draft |-> NoDraft,
   attempt |-> 0, reply |-> "none", fault |-> "none"]

SourceTypes ==
  /\ health \in {"pending", "healthy", "paused"} /\ epoch \in Nat
  /\ activeRun \in RunIds \cup {NoRun}
RunTypes ==
  /\ lastRun \in RunIds \cup {NoRun}
  /\ mode \in [RunIds -> {"full", "incremental"}]
  /\ status \in [RunIds -> Ended \cup {"absent", "queued", "running"}]
  /\ phase \in [RunIds -> Phases] /\ scanned \in [RunIds -> BOOLEAN]
  /\ cursor \in [RunIds -> Folders]
NodeTypes ==
  /\ nodeState \in [Nodes -> NodeStates] /\ nodeDoc \in [Nodes -> Docs]
  /\ nodeParent \in [Nodes -> Folders] /\ nodeEpoch \in [Nodes -> Nat]
  /\ nodeSeen \in [Nodes -> RunIds \cup {NoRun}]
  /\ missingRun \in [Nodes -> RunIds \cup {NoRun}]
DocTypes ==
  /\ docStatus \in [Docs -> DocStatuses] /\ docEpoch \in [Docs -> Int]
  /\ revalidate \in [Docs -> BOOLEAN] /\ activeRev \in [Docs -> RevIds \cup {NoRev}]
RevTypes ==
  /\ revisions \subseteq RevIds /\ published \subseteq RevIds /\ agentFiles \subseteq RevIds
ItemTypes ==
  /\ item \in [Items -> ItemStates] /\ page \in [Folders -> 1..Pages]
  /\ attempts \in [Items -> 0..MaxRetries] /\ delayed \subseteq Items
WorkerTypes ==
  /\ holder \in Workers \cup {NoWorker}
  /\ pc \in [Workers -> Steps] /\ loc \in [Workers -> Locals]
SpaceTypes ==
  /\ place \in [Nodes -> Folders \cup {Gone, Elsewhere}]
  /\ target \in [Nodes -> Docs] /\ foreign \in [Nodes -> BOOLEAN]
  /\ content \in [Docs -> 0..MaxEdits]
  /\ access \in [Docs -> {"ok", "denied", "gone"}] /\ open \in BOOLEAN
  /\ trouble \in 0..MaxTrouble /\ disturbed \subseteq Docs

TypeOK ==
  /\ SourceTypes /\ RunTypes /\ NodeTypes /\ DocTypes
  /\ RevTypes /\ ItemTypes /\ WorkerTypes /\ SpaceTypes

Init ==
  /\ health = "pending" /\ epoch = 0 /\ activeRun = NoRun
  /\ lastRun = NoRun
  /\ mode = [r \in RunIds |-> "full"]
  /\ status = [r \in RunIds |-> "absent"]
  /\ phase = [r \in RunIds |-> "validate"]
  /\ scanned = [r \in RunIds |-> FALSE]
  /\ cursor = [r \in RunIds |-> Root]
  /\ nodeState = [n \in Nodes |-> "unknown"]
  /\ nodeDoc = InitTarget
  /\ nodeParent = [n \in Nodes |-> Root]
  /\ nodeSeen = [n \in Nodes |-> NoRun]
  /\ nodeEpoch = [n \in Nodes |-> 0]
  /\ missingRun = [n \in Nodes |-> NoRun]
  /\ docStatus = [d \in Docs |-> "unknown"]
  /\ docEpoch = [d \in Docs |-> 0]
  /\ revalidate = [d \in Docs |-> FALSE]
  /\ activeRev = [d \in Docs |-> NoRev]
  /\ revisions = {} /\ published = {}
  /\ item = [i \in Items |-> "none"]
  /\ page = [f \in Folders |-> 1]
  /\ attempts = [i \in Items |-> 0] /\ delayed = {}
  /\ agentFiles = {}
  /\ holder = NoWorker
  /\ pc = [w \in Workers |-> "idle"]
  /\ loc = [w \in Workers |-> Fresh(NoRun)]
  /\ place = InitPlace /\ target = InitTarget /\ foreign = InitForeign
  /\ content = [d \in Docs |-> 0]
  /\ access = [d \in Docs |-> "ok"]
  /\ open = TRUE
  /\ trouble = 0 /\ disturbed = {}

-----------------------------------------------------------------------------
(***************************************************************************)
(* What readers are served, and the file list of the Agent                 *)
(***************************************************************************)

\* activeDocument: the document a reader may be given.
Readable(d) ==
  /\ health = "healthy"
  /\ docEpoch[d] = epoch
  /\ docStatus[d] \notin Offline
  /\ activeRev[d] # NoRev

\* The files of the documents in service, as refreshAgentFiles selects them.
ServedFiles == {activeRev[d] : d \in {e \in Docs : Readable(e)}} \cap published

\* A slip for comparison: the query runs outside the transaction.
RefreshOutsideSession == agentFiles' = ServedFiles
RefreshAgentFiles == agentFiles' = ServedFiles'

HasLiveNode(d) == \E n \in Nodes : nodeState[n] \in Live /\ nodeDoc[n] = d

\* listTree: the nodes a reader sees.
Listed(n) ==
  /\ health = "healthy"
  /\ nodeEpoch[n] = epoch
  /\ nodeState[n] \in Live \cup {"out_of_scope"}
  /\ ~revalidate[nodeDoc[n]]
  /\ activeRev[nodeDoc[n]] # NoRev => docEpoch[nodeDoc[n]] = epoch
  /\ docStatus[nodeDoc[n]] \notin Offline

-----------------------------------------------------------------------------
(***************************************************************************)
(* The frame of an invocation of processNext                               *)
(***************************************************************************)

Goto(w, step) == pc' = [pc EXCEPT ![w] = step]
Keep(w, what) == loc' = [loc EXCEPT ![w] = what]

\* mutate commits only under the lease.
MayCommit(w) == holder = w

\* The loop goes round: the run is read again and nothing else is remembered.
Again(w) == Goto(w, "loop") /\ Keep(w, Fresh(loc[w].run))
Leave(w) == Goto(w, "leaving") /\ Keep(w, Fresh(NoRun))

\* A disturbance happens, if its kind is explored and the bound allows it.
Disturb(kind) ==
  /\ kind \in Troubles
  /\ trouble < MaxTrouble
  /\ trouble' = trouble + 1

Acquire(w) ==
  /\ pc[w] = "idle"
  /\ holder = NoWorker
  /\ holder' = w
  /\ Goto(w, "picking")
  /\ UNCHANGED <<dbVars, loc, spaceVars, trouble>>

Queued == {r \in RunIds : status[r] = "queued"}

\* A slip: what is queued comes first, and an interrupted run is forgotten.
CurrentQueuedOnly == {r \in Queued : \A q \in Queued : r <= q}
\* The run to work on: the active one, or the oldest that waits.
Current ==
  IF activeRun # NoRun /\ status[activeRun] \in {"queued", "running"} THEN {activeRun}
  ELSE {r \in Queued : \A q \in Queued : r <= q}

Pick(w) ==
  /\ pc[w] = "picking"
  /\ MayCommit(w)
  /\ \/ /\ Current = {}
        /\ Leave(w)
        /\ UNCHANGED <<activeRun, status>>
     \/ \E r \in Current :
          /\ activeRun' = r
          /\ status' = [status EXCEPT ![r] = "running"]
          /\ Goto(w, "loop")
          /\ Keep(w, Fresh(r))
  /\ UNCHANGED <<health, epoch, lastRun, mode, phase, scanned, cursor, nodeVars, docVars,
                 revVars, itemVars, agentFiles, holder, spaceVars, trouble>>

\* The head of the loop, in a phase of the run that is being worked on.
InPhase(w, p) ==
  /\ pc[w] = "loop"
  /\ status[loc[w].run] = "running"
  /\ phase[loc[w].run] = p

\* The run has ended under another worker.
StopLoop(w) ==
  /\ pc[w] = "loop"
  /\ status[loc[w].run] \in Ended
  /\ Leave(w)
  /\ UNCHANGED <<dbVars, holder, spaceVars, trouble>>

\* The invocation stops between two steps: its thousand steps are spent, or a
\* renewal failed.
Yield(w) ==
  /\ pc[w] = "loop"
  /\ MayCommit(w)
  /\ Disturb("yield")
  /\ Leave(w)
  /\ UNCHANGED <<dbVars, holder, spaceVars>>

\* A transaction of a worker that lost its lease is refused, and leaseLost ends
\* its loop.  Its release finds another lease and does nothing.
CommitPoints == {"picking", "loop", "resolved", "listed", "ready", "staged", "verified",
                 "looked", "faulted", "failing", "leaving"}

LeaseLost(w) ==
  /\ pc[w] \in CommitPoints
  /\ ~MayCommit(w)
  /\ Goto(w, "idle")
  /\ Keep(w, Fresh(NoRun))
  /\ UNCHANGED <<dbVars, holder, spaceVars, trouble>>

Release(w) ==
  /\ pc[w] = "leaving"
  /\ holder = w
  /\ holder' = NoWorker
  /\ Goto(w, "idle")
  /\ UNCHANGED <<dbVars, loc, spaceVars, trouble>>

\* The process dies and leaves its lease behind.
Crash(w) ==
  /\ pc[w] # "idle"
  /\ Disturb("crash")
  /\ Goto(w, "idle")
  /\ Keep(w, Fresh(NoRun))
  /\ UNCHANGED <<dbVars, holder, spaceVars>>

\* The lease runs out: its holder is dead, or stalls past it.
Expire ==
  /\ holder # NoWorker
  /\ \/ pc[holder] = "idle" /\ UNCHANGED trouble
     \/ pc[holder] # "idle" /\ Disturb("expire")
  /\ holder' = NoWorker
  /\ UNCHANGED <<dbVars, pc, loc, spaceVars>>

-----------------------------------------------------------------------------
(***************************************************************************)
(* What every item has in common: faults, retries, failures (performItem)  *)
(***************************************************************************)

PhaseOf(kind) ==
  CASE kind = "folder" -> "enumerate"
    [] kind = "document" -> "extract"
    [] kind = "confirmation" -> "reconcile"

\* The worker is about to perform the item <<kind, k>>.
Performs(w, kind, k) ==
  /\ InPhase(w, PhaseOf(kind))
  /\ item[<<kind, k>>] = "pending"
  /\ <<kind, k>> \notin delayed
NonePending(kind) == \A i \in Items : i[1] = kind => item[i] # "pending"
Add(items, new) == [i \in Items |-> IF i \in new /\ items[i] = "none" THEN "pending"
                                    ELSE items[i]]
Kind(w) == loc[w].item[1]
Key(w) == loc[w].item[2]

Fault(w, it, f) ==
  /\ Goto(w, "faulted")
  /\ Keep(w, [loc[w] EXCEPT !.item = it, !.fault = f])

\* A call that fails whatever it asks for: the credentials are refused, the
\* network or the service fails beyond the client's own retries, or the answer
\* is malformed.
CallFails(w, it) ==
  \/ ~open /\ Fault(w, it, "source") /\ UNCHANGED trouble
  \/ Disturb("transient") /\ Fault(w, it, "transient")
  \/ Disturb("invalid") /\ Fault(w, it, "other")

\* The next item of the phase has a retryAt that lies ahead: the invocation ends.
NotDue(w) ==
  /\ \E i \in delayed : InPhase(w, PhaseOf(i[1])) /\ item[i] = "pending"
  /\ Leave(w)
  /\ UNCHANGED <<dbVars, holder, spaceVars, trouble>>

\* The time of a retry comes.
Due(i) ==
  /\ i \in delayed
  /\ delayed' = delayed \ {i}
  /\ UNCHANGED <<sourceVars, runVars, nodeVars, docVars, revVars, item, page, attempts,
                 agentFiles, workerVars, spaceVars, trouble>>

Fail(w, f) ==
  /\ Goto(w, "failing")
  /\ Keep(w, [Fresh(loc[w].run) EXCEPT !.fault = f])

\* A slip: one retry too many.
MayRetryOnceMore(w) ==
  loc[w].fault = "transient" /\ attempts[loc[w].item] <= MaxRetries
MayRetry(w) == loc[w].fault = "transient" /\ attempts[loc[w].item] < MaxRetries
\* A slip: any failure of a document counts as its loss.
DocumentLostByAnyFault(w) == Kind(w) = "document" /\ loc[w].fault # "source"
DocumentLost(w) == Kind(w) = "document" /\ loc[w].fault \in {"denied", "not_found"}

\* A fault of the space, or one that a folder cannot get over, fails the run.
GiveUpRun(w) ==
  /\ pc[w] = "faulted"
  /\ \/ loc[w].fault = "source"
     \/ Kind(w) = "folder" /\ ~MayRetry(w)
  /\ Fail(w, loc[w].fault)
  /\ UNCHANGED <<dbVars, holder, spaceVars, trouble>>

\* Feishu says that the document is gone or denied: it goes off line at once.
TakeOffline(w) ==
  LET d == Key(w) IN
  /\ pc[w] = "faulted"
  /\ MayCommit(w)
  /\ DocumentLost(w)
  /\ docStatus' = [docStatus EXCEPT ![d] =
       IF loc[w].fault = "denied" THEN "inaccessible" ELSE "removed"]
  /\ docEpoch' = [docEpoch EXCEPT ![d] = -1]
  /\ revalidate' = [revalidate EXCEPT ![d] = TRUE]
  /\ item' = [item EXCEPT ![loc[w].item] = "failed"]
  /\ UNCHANGED <<sourceVars, activeRev, published>>
  /\ RefreshAgentFiles
  /\ Again(w)
  /\ UNCHANGED <<runVars, nodeVars, revisions, page, attempts, delayed,
                 holder, spaceVars, trouble>>

RetryLater(w) ==
  /\ pc[w] = "faulted"
  /\ MayCommit(w)
  /\ MayRetry(w)
  /\ attempts' = [attempts EXCEPT ![loc[w].item] = @ + 1]
  /\ delayed' = delayed \cup {loc[w].item}
  /\ Leave(w)
  /\ UNCHANGED <<sourceVars, runVars, nodeVars, docVars, revVars, item, page, agentFiles,
                 holder, spaceVars, trouble>>

ItemFails(w) ==
  /\ pc[w] = "faulted"
  /\ MayCommit(w)
  /\ loc[w].fault # "source" /\ Kind(w) # "folder"
  /\ ~DocumentLost(w) /\ ~MayRetry(w)
  /\ item' = [item EXCEPT ![loc[w].item] = "failed"]
  /\ docStatus' = [d \in Docs |->
       IF loc[w].item = <<"document", d>> THEN "failed" ELSE docStatus[d]]
  /\ Again(w)
  /\ UNCHANGED <<sourceVars, runVars, nodeVars, docEpoch, revalidate, activeRev, revVars,
                 page, attempts, delayed, agentFiles, holder, spaceVars, trouble>>

\* The run fails.  A fault of the space pauses the source: the access epoch moves
\* on, so that nothing published before is served again unchecked.
\* The items of a run that has ended are not read again.
ForgetItems ==
  /\ item' = [i \in Items |-> "none"] /\ page' = [f \in Folders |-> 1]
  /\ attempts' = [i \in Items |-> 0] /\ delayed' = {}

\* A slip: pausing does not move the epoch.
PausedEpochKept == epoch
PausedEpoch == IF health = "paused" THEN epoch ELSE epoch + 1

FailRun(w) ==
  /\ pc[w] = "failing"
  /\ MayCommit(w)
  /\ \/ /\ loc[w].fault = "source"
        /\ health' = "paused"
        /\ epoch' = PausedEpoch
        /\ UNCHANGED <<docVars, published>>
        /\ RefreshAgentFiles
     \/ /\ loc[w].fault # "source"
        /\ UNCHANGED <<health, epoch, docVars, published, agentFiles>>
  /\ status' = [status EXCEPT ![loc[w].run] = "failed"]
  /\ activeRun' = NoRun
  /\ ForgetItems
  /\ Leave(w)
  /\ UNCHANGED <<lastRun, mode, phase, scanned, cursor, nodeVars, revisions, holder,
                 spaceVars, trouble>>

-----------------------------------------------------------------------------
(***************************************************************************)
(* validate and enumerate                                                  *)
(***************************************************************************)

Resolve(w) ==
  /\ InPhase(w, "validate")
  /\ \/ open /\ Goto(w, "resolved") /\ UNCHANGED <<loc, trouble>>
     \/ ~open /\ Fail(w, "source") /\ UNCHANGED trouble
     \/ Disturb("transient") /\ Fail(w, "transient")
  /\ UNCHANGED <<dbVars, holder, spaceVars>>

Validate(w) ==
  /\ pc[w] = "resolved"
  /\ MayCommit(w)
  /\ health' = "healthy"
  /\ item' = Add(item, {<<"folder", Root>>})
  /\ phase' = [phase EXCEPT ![loc[w].run] = "enumerate"]
  /\ UNCHANGED <<epoch, docVars, published>>
  /\ RefreshAgentFiles
  /\ Again(w)
  /\ UNCHANGED <<activeRun, lastRun, mode, status, scanned, cursor, nodeVars, revisions,
                 page, attempts, delayed, holder, spaceVars, trouble>>

\* The node is in the space: neither it nor the folder it lies in went away.
Present(n) == place[n] \in Folders /\ (place[n] # Root => place[place[n]] = Root)
Shown(f) == IF f = Root THEN TRUE ELSE Present(f)

\* One page of a folder, as Feishu shows it at that moment.
PageOfFolder(f) ==
  [n \in {m \in Nodes : place[m] = f /\ PageOf[m] = page[f]} |->
     [doc |-> target[n], foreign |-> foreign[n], child |-> \E m \in Nodes : place[m] = n]]

\* listNodes asks in the scope of the source: a folder that is gone is a failure of
\* the space.
ListPage(w, f) ==
  LET it == <<"folder", f>> IN
  /\ Performs(w, "folder", f)
  /\ \/ /\ open /\ Shown(f)
        /\ Goto(w, "listed")
        /\ Keep(w, [loc[w] EXCEPT !.item = it, !.listing = PageOfFolder(f)])
        /\ UNCHANGED trouble
     \/ open /\ ~Shown(f) /\ Fault(w, it, "source") /\ UNCHANGED trouble
     \/ CallFails(w, it)
  /\ UNCHANGED <<dbVars, holder, spaceVars>>

\* A node this run has already met in another folder.
MetElsewhere(w, n) == nodeSeen[n] = loc[w].run /\ nodeParent[n] # Key(w)

Orders(S) == {o \in [S -> 1..Cardinality(S)] : \A m, n \in S : o[m] = o[n] => m = n}

\* Discover records the nodes of one page, one after the other; o is their order.
\* Held(n, d): once n is recorded, a live node has the document d.
Recorded(o, n, m) == m \in DOMAIN o /\ o[m] <= o[n]
Held(o, page1, n, d) == \E m \in Nodes :
  IF Recorded(o, n, m) THEN page1[m].doc = d /\ ~page1[m].foreign
  ELSE nodeDoc[m] = d /\ nodeState[m] \in Live

\* n had another document, which no node has any longer.
Orphans(o, page1, n, d) ==
  /\ nodeState[n] # "unknown"
  /\ nodeDoc[n] = d /\ page1[n].doc # d
  /\ ~Held(o, page1, n, d)
\* n is a shortcut to a document of another space, which no node of this one has.
Expels(o, page1, n, d) == page1[n].foreign /\ page1[n].doc = d /\ ~Held(o, page1, n, d)
Unserved(o, page1, d) ==
  {n \in DOMAIN o : Orphans(o, page1, n, d) \/ Expels(o, page1, n, d)}
FirstStatus(entry) ==
  IF entry.foreign \/ entry.doc \notin Docx THEN "unsupported" ELSE "pending"

DocStatusAfter(o, page1, d) ==
  LET offs == Unserved(o, page1, d)
      hits == {n \in DOMAIN o : page1[n].doc = d}
  IN IF offs # {} THEN
       LET n == CHOOSE m \in offs : \A k \in offs : o[k] <= o[m]
       IN IF Expels(o, page1, n, d) THEN "unsupported" ELSE "removed"
     ELSE IF docStatus[d] = "unknown" /\ hits # {} THEN
       FirstStatus(page1[CHOOSE m \in hits : \A k \in hits : o[m] <= o[k]])
     ELSE docStatus[d]

\* The nodes a page brings: recorded as of this run, live unless they are foreign.
RecordNodes(w, page1) ==
  LET S == DOMAIN page1 IN
  /\ nodeState' = [n \in Nodes |-> IF n \notin S THEN nodeState[n]
                                   ELSE IF page1[n].foreign THEN "out_of_scope" ELSE "active"]
  /\ nodeDoc' = [n \in Nodes |-> IF n \in S THEN page1[n].doc ELSE nodeDoc[n]]
  /\ nodeParent' = [n \in Nodes |-> IF n \in S THEN Key(w) ELSE nodeParent[n]]
  /\ nodeSeen' = [n \in Nodes |-> IF n \in S THEN loc[w].run ELSE nodeSeen[n]]
  /\ nodeEpoch' = [n \in Nodes |-> IF n \in S THEN epoch ELSE nodeEpoch[n]]
  /\ missingRun' = [n \in Nodes |-> IF n \in S THEN NoRun ELSE missingRun[n]]

NewItems(page1) ==
  {<<"document", page1[n].doc>> : n \in DOMAIN page1} \cup
  {<<"folder", n>> : n \in {m \in DOMAIN page1 : page1[m].child /\ ~page1[m].foreign}}

TooMany(w, page1) ==
  Cardinality({n \in Nodes : n \in DOMAIN page1 \/ nodeSeen[n] = loc[w].run}) > MaxNodes

Discover(w) ==
  LET f == Key(w)
      page1 == loc[w].listing
      it == loc[w].item
  IN
  /\ pc[w] = "listed"
  /\ MayCommit(w)
  /\ \A n \in DOMAIN page1 : ~MetElsewhere(w, n)
  /\ ~TooMany(w, page1)
  /\ \E o \in Orders(DOMAIN page1) :
       LET off == {d \in Docs : Unserved(o, page1, d) # {}} IN
       /\ docStatus' = [d \in Docs |-> DocStatusAfter(o, page1, d)]
       /\ docEpoch' = [d \in Docs |-> IF d \in off THEN -1 ELSE docEpoch[d]]
       /\ revalidate' = [d \in Docs |->
            revalidate[d] \/ \E n \in DOMAIN page1 : Orphans(o, page1, n, d)]
       /\ UNCHANGED <<sourceVars, activeRev, revVars>>
       /\ IF off = {} THEN UNCHANGED agentFiles ELSE RefreshAgentFiles
  /\ RecordNodes(w, page1)
  /\ IF page[f] < Pages
     THEN page' = [page EXCEPT ![f] = @ + 1] /\ item' = Add(item, NewItems(page1))
     ELSE /\ item' = [Add(item, NewItems(page1)) EXCEPT ![it] = "succeeded"]
          /\ UNCHANGED page
  /\ Again(w)
  /\ UNCHANGED <<runVars, attempts, delayed, holder, spaceVars, trouble>>

\* A node met twice, or too many nodes: the transaction is given up.
RefusePage(w) ==
  /\ pc[w] = "listed"
  /\ MayCommit(w)
  /\ \/ \E n \in DOMAIN loc[w].listing : MetElsewhere(w, n)
     \/ TooMany(w, loc[w].listing)
  /\ Fault(w, loc[w].item, "other")
  /\ UNCHANGED <<dbVars, holder, spaceVars, trouble>>

EndEnumerate(w) ==
  /\ InPhase(w, "enumerate")
  /\ MayCommit(w)
  /\ NonePending("folder")
  /\ scanned' = [scanned EXCEPT ![loc[w].run] = TRUE]
  /\ phase' = [phase EXCEPT ![loc[w].run] = "extract"]
  /\ Again(w)
  /\ UNCHANGED <<sourceVars, lastRun, mode, status, cursor, nodeVars, docVars, revVars,
                 itemVars, agentFiles, holder, spaceVars, trouble>>

-----------------------------------------------------------------------------
(***************************************************************************)
(* extract: read a document, stage a revision, index it, publish it        *)
(***************************************************************************)

Extractable(d) == d \in Docx /\ HasLiveNode(d)

\* A document of another type or out of the space is recorded as unsupported.
SkipDocument(w, d) ==
  /\ Performs(w, "document", d)
  /\ MayCommit(w)
  /\ ~Extractable(d)
  /\ docStatus' = [docStatus EXCEPT ![d] = "unsupported"]
  /\ item' = [item EXCEPT ![<<"document", d>>] = "partial"]
  /\ Again(w)
  /\ UNCHANGED <<sourceVars, runVars, nodeVars, docEpoch, revalidate, activeRev, revVars,
                 page, attempts, delayed, agentFiles, holder, spaceVars, trouble>>

BeginExtract(w, d) ==
  /\ Performs(w, "document", d)
  /\ MayCommit(w)
  /\ Extractable(d)
  /\ docStatus' = [docStatus EXCEPT ![d] = "extracting"]
  /\ Goto(w, "fetch")
  /\ Keep(w, [loc[w] EXCEPT !.item = <<"document", d>>])
  /\ UNCHANGED <<sourceVars, runVars, nodeVars, docEpoch, revalidate, activeRev, revVars,
                 itemVars, agentFiles, holder, spaceVars, trouble>>

\* A call for a document that Feishu refuses or no longer knows.
DocumentFails(w, d) ==
  \/ open /\ access[d] = "denied" /\ Fault(w, loc[w].item, "denied") /\ UNCHANGED trouble
  \/ open /\ access[d] = "gone" /\ Fault(w, loc[w].item, "not_found") /\ UNCHANGED trouble
  \/ CallFails(w, loc[w].item)
Answers(d) == open /\ access[d] = "ok"
Read(w, field, value) == Keep(w, [loc[w] EXCEPT !.draft[field] = value])

FetchBefore(w) ==
  LET d == Key(w) IN
  /\ pc[w] = "fetch"
  /\ \/ /\ Answers(d) /\ UNCHANGED trouble
        /\ Goto(w, "blocks") /\ Read(w, "before", content[d])
     \/ DocumentFails(w, d)
  /\ UNCHANGED <<dbVars, holder, spaceVars>>

FetchBlocks(w) ==
  LET d == Key(w) IN
  /\ pc[w] = "blocks"
  /\ \/ /\ Answers(d) /\ UNCHANGED trouble
        /\ Goto(w, "media") /\ Read(w, "blocks", content[d])
     \/ DocumentFails(w, d)
  /\ UNCHANGED <<dbVars, holder, spaceVars>>

\* A media object that cannot be had makes the extraction incomplete; a refusal
\* and a failure of the space end it.
FetchMedia(w) ==
  LET d == Key(w) IN
  /\ pc[w] = "media"
  /\ \/ /\ Answers(d) /\ UNCHANGED trouble
        /\ Goto(w, "after") /\ Read(w, "media", content[d])
     \/ /\ open
        /\ \/ access[d] = "gone" /\ UNCHANGED trouble
           \/ access[d] = "ok" /\ Disturb("media")
        /\ Goto(w, "after") /\ Read(w, "media", Lost)
     \/ open /\ access[d] = "denied" /\ Fault(w, loc[w].item, "denied") /\ UNCHANGED trouble
     \/ ~open /\ Fault(w, loc[w].item, "source") /\ UNCHANGED trouble
  /\ UNCHANGED <<dbVars, holder, spaceVars>>

\* A slip: the second revision number is not compared.
UnchangedUnchecked(w, now) == loc[w].draft.before <= now
Unchanged(w, now) == loc[w].draft.before = now

\* The revision is asked for again; if it moved, everything is read anew.
FetchAfter(w) ==
  LET d == Key(w) IN
  /\ pc[w] = "after"
  /\ \/ /\ Answers(d) /\ Unchanged(w, content[d])
        /\ Goto(w, "ready") /\ UNCHANGED <<loc, trouble>>
     \/ /\ Answers(d) /\ ~Unchanged(w, content[d]) /\ loc[w].attempt < MaxRetries
        /\ Goto(w, "fetch")
        /\ Keep(w, [loc[w] EXCEPT !.draft = NoDraft, !.attempt = @ + 1])
        /\ UNCHANGED trouble
     \/ /\ Answers(d) /\ ~Unchanged(w, content[d]) /\ loc[w].attempt = MaxRetries
        /\ Fault(w, loc[w].item, "other") /\ UNCHANGED trouble
     \/ DocumentFails(w, d)
  /\ UNCHANGED <<dbVars, holder, spaceVars>>

Extracted(w) ==
  [doc |-> Key(w), blocks |-> loc[w].draft.blocks, media |-> loc[w].draft.media]
Complete(rev) == rev.media # Lost

\* The revision is stored.  An incomplete one goes no further.
Stage(w) ==
  LET d == Key(w) IN
  /\ pc[w] = "ready"
  /\ MayCommit(w)
  /\ revisions' = revisions \cup {Extracted(w)}
  /\ \/ /\ Complete(Extracted(w))
        /\ Goto(w, "staged") /\ UNCHANGED <<docStatus, item, loc>>
     \/ /\ ~Complete(Extracted(w))
        /\ docStatus' = [docStatus EXCEPT ![d] = "partial"]
        /\ item' = [item EXCEPT ![loc[w].item] = "partial"]
        /\ Again(w)
  /\ UNCHANGED <<sourceVars, runVars, nodeVars, docEpoch, revalidate, activeRev, published,
                 page, attempts, delayed, agentFiles, holder, spaceVars, trouble>>

\* The snapshot is read back.  A revision whose native files are still in order is
\* not indexed again.
Verify(w) ==
  /\ pc[w] = "staged"
  /\ \/ Extracted(w) \in published /\ Goto(w, "verified") /\ UNCHANGED <<loc, trouble>>
     \/ Disturb("index") /\ Fault(w, loc[w].item, "other")
  /\ UNCHANGED <<dbVars, holder, spaceVars>>

BeginIndex(w) ==
  /\ pc[w] = "staged"
  /\ MayCommit(w)
  /\ \/ Extracted(w) \notin published /\ UNCHANGED trouble
     \/ Extracted(w) \in published /\ Disturb("index")
  /\ docStatus' = [docStatus EXCEPT ![Key(w)] = "indexing"]
  /\ Goto(w, "indexing")
  /\ UNCHANGED <<sourceVars, runVars, nodeVars, docEpoch, revalidate, activeRev, revVars,
                 itemVars, agentFiles, holder, loc, spaceVars>>

Index(w) ==
  /\ pc[w] = "indexing"
  /\ \/ Goto(w, "verified") /\ UNCHANGED <<loc, trouble>>
     \/ Disturb("index") /\ Fault(w, loc[w].item, "other")
  /\ UNCHANGED <<dbVars, holder, spaceVars>>

\* A slip: the publication is not fenced by the lease.
PublishesUnfenced(w) == health = "healthy" /\ w # NoWorker
\* The publication commits under the lease, and to a source in service.
MayPublish(w) == MayCommit(w) /\ health = "healthy"

\* The document goes over to the verified revision, in one transaction with the
\* files of the Agent.
Publish(w) ==
  LET d == Key(w) IN
  /\ pc[w] = "verified"
  /\ MayPublish(w)
  /\ published' = published \cup {Extracted(w)}
  /\ activeRev' = [activeRev EXCEPT ![d] = Extracted(w)]
  /\ docEpoch' = [docEpoch EXCEPT ![d] = epoch]
  /\ revalidate' = [revalidate EXCEPT ![d] = FALSE]
  /\ docStatus' = [docStatus EXCEPT ![d] = "published"]
  /\ item' = [item EXCEPT ![loc[w].item] = "succeeded"]
  /\ UNCHANGED sourceVars
  /\ RefreshAgentFiles
  /\ Again(w)
  /\ UNCHANGED <<runVars, nodeVars, revisions, page, attempts, delayed, holder, spaceVars,
                 trouble>>

EndExtract(w) ==
  /\ InPhase(w, "extract")
  /\ MayCommit(w)
  /\ NonePending("document")
  /\ phase' = [phase EXCEPT ![loc[w].run] = "reconcile"]
  /\ Again(w)
  /\ UNCHANGED <<sourceVars, lastRun, mode, status, scanned, cursor, nodeVars, docVars,
                 revVars, itemVars, agentFiles, holder, spaceVars, trouble>>

-----------------------------------------------------------------------------
(***************************************************************************)
(* reconcile: what became of the nodes that the scan did not meet          *)
(***************************************************************************)

Unseen(r) == {n \in Nodes : nodeState[n] \in Live /\ nodeSeen[n] # r}
Ahead(r) == {n \in Unseen(r) : n > cursor[r]}
NextBatch(r) ==
  {n \in Ahead(r) : Cardinality({m \in Ahead(r) : m < n}) < ScanLimit}

QueueMissing(w) ==
  LET r == loc[w].run IN
  /\ InPhase(w, "reconcile")
  /\ MayCommit(w)
  /\ mode[r] = "full" /\ NonePending("confirmation")
  /\ item' = Add(item, {<<"confirmation", n>> : n \in NextBatch(r)})
  /\ \E last \in NextBatch(r) :
       /\ \A n \in NextBatch(r) : n <= last
       /\ cursor' = [cursor EXCEPT ![r] = last]
  /\ Again(w)
  /\ UNCHANGED <<sourceVars, lastRun, mode, status, phase, scanned, nodeVars, docVars, revVars,
                 page, attempts, delayed, agentFiles, holder, spaceVars, trouble>>

\* getNode: what Feishu says of a node.
ReplyFor(n) ==
  IF place[n] = Elsewhere \/ (Present(n) /\ access[target[n]] = "ok" /\ foreign[n])
  THEN "elsewhere"
  ELSE IF ~Present(n) THEN "not_found"
  ELSE IF access[target[n]] = "denied" THEN "denied"
  ELSE "present"

LookUp(w, n) ==
  LET it == <<"confirmation", n>> IN
  /\ Performs(w, "confirmation", n)
  /\ \/ /\ open
        /\ Goto(w, "looked")
        /\ Keep(w, [loc[w] EXCEPT !.item = it, !.reply = ReplyFor(n)])
        /\ UNCHANGED trouble
     \/ CallFails(w, it)
  /\ UNCHANGED <<dbVars, holder, spaceVars>>

\* A slip: the scan that counts is the current one.
MissedNow(w, n) == scanned[loc[w].run]
\* An earlier run missed the node, and that run is a complete scan that ended well.
MissedBefore(w, n) ==
  /\ missingRun[n] \notin {NoRun, loc[w].run}
  /\ scanned[missingRun[n]]
  /\ status[missingRun[n]] \in {"succeeded", "partial"}

Verdict(w, n) ==
  CASE loc[w].reply = "denied" -> "inaccessible"
    [] loc[w].reply \in {"elsewhere", "not_found"} -> "removed"
    [] OTHER -> IF MissedBefore(w, n) THEN "removed" ELSE "missing"

\* Slips: nodes that are gone count too; the other nodes are not asked for.
HeldByAnyNode(n, d) == \E m \in Nodes \ {n} : nodeDoc[m] = d
HeldByNobody(n, d) == n = Root
HeldByAnother(n, d) == \E m \in Nodes \ {n} : nodeState[m] \in Live /\ nodeDoc[m] = d

Confirm(w) ==
  LET n == Key(w)
      d == nodeDoc[n]
      verdict == Verdict(w, n)
  IN
  /\ pc[w] = "looked"
  /\ MayCommit(w)
  /\ nodeState' = [nodeState EXCEPT ![n] = verdict]
  /\ missingRun' = [missingRun EXCEPT ![n] = loc[w].run]
  /\ item' = [item EXCEPT ![loc[w].item] =
       IF verdict = "missing" THEN "missing" ELSE "succeeded"]
  /\ UNCHANGED <<sourceVars, activeRev, published, nodeDoc>>
  /\ IF verdict # "missing" /\ ~HeldByAnother(n, d)
     THEN /\ docStatus' = [docStatus EXCEPT ![d] = verdict]
          /\ docEpoch' = [docEpoch EXCEPT ![d] = -1]
          /\ revalidate' = [revalidate EXCEPT ![d] = TRUE]
          /\ RefreshAgentFiles
     ELSE UNCHANGED <<docStatus, docEpoch, revalidate, agentFiles>>
  /\ Again(w)
  /\ UNCHANGED <<runVars, nodeParent, nodeSeen, nodeEpoch, revisions, page, attempts, delayed,
                 holder, spaceVars, trouble>>

-----------------------------------------------------------------------------
(***************************************************************************)
(* The end of a run, and new runs                                          *)
(***************************************************************************)

\* Some node is still missing: a full run is queued to confirm it.
ConfirmAgain == (\E i \in Items : item[i] = "missing") /\ lastRun < MaxRuns

Outcome ==
  IF \E i \in Items : item[i] \in {"failed", "partial"} THEN "partial" ELSE "succeeded"

\* A slip: the run ends after the first batch.
NothingAheadOfBatch(r) == cursor[r] # Root \/ (mode[r] = "full" => NextBatch(r) = {})
NothingAhead(r) == mode[r] = "full" => NextBatch(r) = {}

Finish(w) ==
  LET r == loc[w].run
      ended == [status EXCEPT ![r] = Outcome]
  IN
  /\ InPhase(w, "reconcile")
  /\ MayCommit(w)
  /\ NonePending("confirmation") /\ NothingAhead(r)
  /\ phase' = [phase EXCEPT ![r] = "finish"]
  /\ activeRun' = NoRun
  /\ IF ConfirmAgain
     THEN /\ lastRun' = lastRun + 1
          /\ status' = [ended EXCEPT ![lastRun + 1] = "queued"]
     ELSE status' = ended /\ UNCHANGED lastRun
  /\ ForgetItems
  /\ Leave(w)
  /\ UNCHANGED <<health, epoch, mode, scanned, cursor, nodeVars, docVars, revVars, agentFiles,
                 holder, spaceVars, trouble>>

\* tick on schedule, or an administrator, any time.
Enqueue(m) ==
  /\ lastRun < MaxRuns
  /\ lastRun' = lastRun + 1
  /\ status' = [status EXCEPT ![lastRun + 1] = "queued"]
  /\ mode' = [mode EXCEPT ![lastRun + 1] = m]
  /\ UNCHANGED <<sourceVars, phase, scanned, cursor, nodeVars, docVars, revVars, itemVars,
                 agentFiles, workerVars, spaceVars, trouble>>

-----------------------------------------------------------------------------
(***************************************************************************)
(* The wiki space changes under the workers                                *)
(***************************************************************************)

\* The documents found at or under a node.
DocsUnder(n) == {target[m] : m \in {k \in Nodes : k = n \/ place[k] = n}}
Touched(docs) == disturbed' = disturbed \cup docs

Edit(d) ==
  /\ content[d] < MaxEdits
  /\ Disturb("edit")
  /\ content' = [content EXCEPT ![d] = @ + 1]
  /\ UNCHANGED <<dbVars, workerVars, place, target, foreign, access, open, disturbed>>

\* A node goes under another folder, into the trash, or to another space, or comes
\* from one.  A folder lies at the root.
MayHold(f, n) == IF f = Root THEN TRUE
                 ELSE f # n /\ place[f] = Root /\ \A m \in Nodes : place[m] # n
Move(n, f) ==
  /\ place[n] # f
  /\ \/ f \in Folders /\ MayHold(f, n) /\ Present(n) /\ Disturb("move")
     \/ f \in Folders /\ MayHold(f, n) /\ place[n] = Elsewhere /\ Disturb("enter")
     \/ f = Gone /\ Present(n) /\ Disturb("delete")
     \/ f = Elsewhere /\ Present(n) /\ Disturb("leave")
  /\ place' = [place EXCEPT ![n] = f]
  /\ Touched(DocsUnder(n))
  /\ UNCHANGED <<dbVars, workerVars, target, foreign, content, access, open>>

\* A node stands for another document from now on, or becomes a shortcut to one of
\* another space.
Retarget(n, d) ==
  /\ Present(n) /\ target[n] # d
  /\ Disturb("retarget")
  /\ target' = [target EXCEPT ![n] = d]
  /\ Touched({target[n], d})
  /\ UNCHANGED <<dbVars, workerVars, place, foreign, content, access, open>>

Rescope(n) ==
  /\ Present(n) /\ ~foreign[n]
  /\ Disturb("rescope")
  /\ foreign' = [foreign EXCEPT ![n] = TRUE]
  /\ Touched(DocsUnder(n))
  /\ UNCHANGED <<dbVars, workerVars, place, target, content, access, open>>

\* The right to read a document is withdrawn or given back; a document is deleted.
ChangeAccess(d, a) ==
  /\ access[d] # a /\ access[d] # "gone"
  /\ Disturb(a)
  /\ access' = [access EXCEPT ![d] = a]
  /\ Touched({d})
  /\ UNCHANGED <<dbVars, workerVars, place, target, foreign, content, open>>

\* The credentials, or the right to the space, are withdrawn and given back.
Close ==
  /\ open /\ Disturb("close")
  /\ open' = FALSE
  /\ UNCHANGED <<dbVars, workerVars, place, target, foreign, content, access, disturbed>>

Reopen ==
  /\ ~open
  /\ open' = TRUE
  /\ UNCHANGED <<dbVars, workerVars, place, target, foreign, content, access, disturbed,
                 trouble>>

-----------------------------------------------------------------------------

Frame(w) ==
  \/ Acquire(w) \/ Pick(w) \/ StopLoop(w) \/ NotDue(w) \/ LeaseLost(w) \/ Release(w)
Handling(w) == GiveUpRun(w) \/ TakeOffline(w) \/ RetryLater(w) \/ ItemFails(w) \/ FailRun(w)
Enumerating(w) ==
  \/ Resolve(w) \/ Validate(w)
  \/ \E f \in Folders : ListPage(w, f)
  \/ Discover(w) \/ RefusePage(w) \/ EndEnumerate(w)
Extracting(w) ==
  \/ \E d \in Docs : SkipDocument(w, d) \/ BeginExtract(w, d)
  \/ FetchBefore(w) \/ FetchBlocks(w) \/ FetchMedia(w) \/ FetchAfter(w) \/ Stage(w)
  \/ Verify(w) \/ BeginIndex(w) \/ Index(w) \/ Publish(w) \/ EndExtract(w)
Reconciling(w) ==
  \/ QueueMissing(w) \/ (\E n \in Nodes : LookUp(w, n)) \/ Confirm(w) \/ Finish(w)
Progress(w) ==
  Frame(w) \/ Handling(w) \/ Enumerating(w) \/ Extracting(w) \/ Reconciling(w)
Failure == Expire \/ \E w \in Workers : Yield(w) \/ Crash(w)
Time == \E i \in Items : Due(i)
Requests == \E m \in {"full", "incremental"} : Enqueue(m)
Space ==
  \/ \E d \in Docs : Edit(d) \/ \E a \in {"ok", "denied", "gone"} : ChangeAccess(d, a)
  \/ \E n \in Nodes :
       \/ \E f \in Folders \cup {Gone, Elsewhere} : Move(n, f)
       \/ \E d \in Docs : Retarget(n, d)
       \/ Rescope(n)
  \/ Close \/ Reopen

Next ==
  \/ \E w \in Workers : Progress(w)
  \/ Failure \/ Time \/ Requests \/ Space

Spec == Init /\ [][Next]_vars

\* The worker script calls tick for ever and its supervisor restarts it; a lease
\* and a retry's delay run out with time.
Fairness ==
  /\ \A w \in Workers : WF_vars(Progress(w))
  /\ WF_vars(Expire /\ pc[holder] = "idle")
  /\ \A i \in Items : WF_vars(Due(i))
FairSpec == Spec /\ Fairness

-----------------------------------------------------------------------------
(***************************************************************************)
(* What the synchronisation promises                                       *)
(***************************************************************************)

\* The Agent searches exactly the files of the documents that a reader may open:
\* every transaction that changes what is served calls refreshAgentFiles.
AgentFilesExact == agentFiles = ServedFiles

\* One run at a time, and the source knows which: a crash, a takeover or a failure
\* never leaves a running run that no worker would pick up again.
RunningIsActive == \A r \in RunIds : status[r] = "running" <=> activeRun = r

\* A document in service is still found at some node of the space, as far as the
\* database knows: whatever takes the last node away takes the document away too
\* (discover, confirmMissing, the scope check of extractDocument).
ServedHasNode == \A d \in Docs : Readable(d) => HasLiveNode(d)

\* A published revision has been stored, and its media are those of its text: the
\* revision numbers read before and after the download agree.
PublishedIsWhole == \A rev \in published : rev \in revisions /\ rev.media = rev.blocks

\* Only the publication of a document brings it back into service: not the
\* recovery of the source, and not a status written by another step.
OnlyPublicationServes ==
  [][\A d \in Docs : ~Readable(d) /\ Readable(d)' =>
       \E w \in Workers : pc[w] = "verified" /\ Key(w) = d
                          /\ activeRev'[d] = Extracted(w)]_vars

\* A publication never puts an older revision in the place of a newer one, though
\* a worker that lost its lease may still hold what it read long ago.
NoRollback ==
  [][\A d \in Docs : activeRev[d] # NoRev => activeRev'[d] # NoRev
                     /\ activeRev'[d].blocks >= activeRev[d].blocks]_vars

\* Timeouts, crashes, takeovers, failed items and failed runs take nothing off line:
\* a document leaves service only with the whole source, or after a change in Feishu
\* of that document, of a node that shows it, or of the folder of one.
OfflineNeedsCause ==
  [][\A d \in Docs : Readable(d) /\ ~Readable(d)' =>
       health' = "paused" \/ d \in disturbed]_vars

\* A node is given up only after every folder of the space was listed to its end.
\* One that Feishu still shows must have been missed by two complete scans, both
\* later than the last one that met it.
RemovedAfterTwoScans ==
  [][\A n \in Nodes : nodeState[n] \in Live /\ nodeState'[n] = "removed" =>
       \E w \in Workers :
         /\ loc[w].item = <<"confirmation", n>> /\ scanned[loc[w].run]
         /\ \A f \in Folders : item[<<"folder", f>>] \in {"none", "succeeded"}
         /\ loc[w].reply = "present" =>
              \E q \in RunIds :
                /\ nodeSeen[n] < q /\ q < loc[w].run
                /\ scanned[q] /\ status[q] \in {"succeeded", "partial"}]_vars

\* A full run that ends well has met every live node, or found it missing, or says
\* that it could not find out.
FullScanAccounts ==
  [][\A r \in RunIds : mode[r] = "full" /\ status[r] = "running"
                       /\ status'[r] \in {"succeeded", "partial"} =>
       \A n \in Nodes : nodeState[n] \in Live =>
         \/ nodeSeen[n] = r
         \/ nodeState[n] = "missing" /\ missingRun[n] = r
         \/ item[<<"confirmation", n>>] = "failed" /\ status'[r] = "partial"]_vars

\* A run that succeeds leaves every document it met inside the space in service,
\* though it was published phases ago and reconcile has taken others off line.
SucceededServesAll ==
  [][\A r \in RunIds : status[r] = "running" /\ status'[r] = "succeeded" =>
       \A n \in Nodes :
         nodeSeen[n] = r /\ nodeState[n] = "active" => Readable(nodeDoc[n])']_vars

\* Every run that is requested comes to an end, whatever fails on the way: no crash,
\* takeover, retry or early stop of an invocation leaves a run or an item behind that
\* nobody works on.
RequestedEnds == \A r \in RunIds : status[r] = "queued" ~> status[r] \in Ended

(***************************************************************************)
(* What the documentation says and the code does not do                    *)
(***************************************************************************)

\* sync.md: the whole source is paused when access to the space is refused.  Here a
\* folder that is deleted while a run lists the space is enough (sync.ts:66-72).
PausedByTheSpaceOnly == [][health' = "paused" => ~open]_vars

\* sync.md: deleted and moved nodes are recognised by the next complete scan.  Here
\* reconcile asks for active and missing nodes only (sync.ts:335-339): a shortcut to
\* another space that is deleted stays in the tree that listTree returns.
ScanFindsDeleted ==
  [][\A r \in RunIds : mode[r] = "full" /\ status[r] = "running"
                       /\ status'[r] = "succeeded" =>
       \A n \in Nodes : Listed(n)' => nodeSeen[n] = r \/ nodeState[n] = "missing"]_vars
=============================================================================
