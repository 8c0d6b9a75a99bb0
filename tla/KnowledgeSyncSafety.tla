------------------------- MODULE KnowledgeSyncSafety -------------------------
(***************************************************************************)
(* Safety theorems about KnowledgeSync, for any space, any number of       *)
(* workers and any bounds: the type invariant, which rests on where a      *)
(* worker is (what it has in hand fits the step it is at, Fits), and what  *)
(* follows the workers: which run the worker that holds the lease is on    *)
(* (RunsInv), and what a worker has read so far of the document it         *)
(* extracts (DraftInv).                                                    *)
(***************************************************************************)
EXTENDS KnowledgeSync, TLAPS

(***************************************************************************)
(* The types                                                               *)
(***************************************************************************)

Busy == Steps \ {"idle", "picking", "leaving"}
Extraction == {"fetch", "blocks", "media", "after", "ready", "staged", "indexing", "verified"}

\* A worker in a run knows which; one with an item in hand has an item of the kind
\* that its step is about.
Fits(step, l) ==
  /\ step \in Busy => l.run \in RunIds
  /\ step = "listed" => l.item \in {"folder"} \X Folders
  /\ step \in Extraction => l.item \in {"document"} \X Docs
  /\ step = "looked" => l.item \in {"confirmation"} \X Nodes
  /\ step = "faulted" => l.item \in Items

Placed == \A w \in Workers : Fits(pc[w], loc[w])

Typed == TypeOK /\ Placed

-----------------------------------------------------------------------------
(***************************************************************************)
(* Values                                                                  *)
(***************************************************************************)

LEMMA Bounds ==
  /\ MaxRuns \in Nat /\ MaxEdits \in Nat /\ MaxRetries \in Nat /\ MaxTrouble \in Nat
  /\ Pages \in Nat \ {0} /\ NoRun \notin RunIds
BY SyncAssumption DEF SyncAssumption, RunIds, NoRun

LEMMA FreshTyped ==
  ASSUME NEW r \in RunIds \cup {NoRun}
  PROVE  Fresh(r) \in Locals /\ Fresh(r).run = r
<1>1. NoDraft \in Drafts
  BY Bounds DEF NoDraft, Drafts
<1>2. NoListing \in Listings
  <2>1. NoListing \in [{} -> Entries]
    BY DEF NoListing
  <2> QED  BY <2>1 DEF Listings
<1> QED
  BY <1>1, <1>2, Bounds DEF Fresh, Locals, Replies, Faults

\* What a group of variables does not touch keeps its type.
LEMMA GroupsKept ==
  /\ SourceTypes /\ UNCHANGED sourceVars => SourceTypes'
  /\ RunTypes /\ UNCHANGED runVars => RunTypes'
  /\ NodeTypes /\ UNCHANGED nodeVars => NodeTypes'
  /\ DocTypes /\ UNCHANGED docVars => DocTypes'
  /\ RevTypes /\ UNCHANGED <<revVars, agentFiles>> => RevTypes'
  /\ ItemTypes /\ UNCHANGED itemVars => ItemTypes'
  /\ WorkerTypes /\ Placed /\ UNCHANGED workerVars => WorkerTypes' /\ Placed'
  /\ SpaceTypes /\ UNCHANGED <<spaceVars, trouble>> => SpaceTypes'
BY DEF SourceTypes, RunTypes, NodeTypes, DocTypes, RevTypes, ItemTypes, WorkerTypes, SpaceTypes,
       sourceVars, runVars, nodeVars, docVars, revVars, itemVars, workerVars, spaceVars, Placed, Fits

-----------------------------------------------------------------------------
(***************************************************************************)
(* Workers                                                                 *)
(***************************************************************************)

\* A worker goes to a step with something in hand that fits it.
LEMMA Moved ==
  ASSUME WorkerTypes, Placed, NEW w \in Workers, NEW step \in Steps, NEW l \in Locals,
         Goto(w, step), Keep(w, l), Fits(step, l),
         holder' \in Workers \cup {NoWorker}
  PROVE  WorkerTypes' /\ Placed'
<1>1. /\ pc' \in [Workers -> Steps] /\ loc' \in [Workers -> Locals]
      /\ pc'[w] = step /\ loc'[w] = l
      /\ \A v \in Workers \ {w} : pc'[v] = pc[v] /\ loc'[v] = loc[v]
  BY DEF WorkerTypes, Goto, Keep
<1> QED  BY <1>1 DEF WorkerTypes, Placed

LEMMA Stayed ==
  ASSUME WorkerTypes, Placed, NEW w \in Workers, NEW step \in Steps,
         Goto(w, step), UNCHANGED loc, Fits(step, loc[w]),
         holder' \in Workers \cup {NoWorker}
  PROVE  WorkerTypes' /\ Placed'
BY Moved DEF WorkerTypes, Keep

LEMMA AgainTyped ==
  ASSUME WorkerTypes, Placed, NEW w \in Workers, loc[w].run \in RunIds, Again(w),
         UNCHANGED holder
  PROVE  WorkerTypes' /\ Placed'
BY Moved, FreshTyped DEF Again, WorkerTypes, Fits, Steps, Extraction

LEMMA LeaveTyped ==
  ASSUME WorkerTypes, Placed, NEW w \in Workers, Leave(w), UNCHANGED holder
  PROVE  WorkerTypes' /\ Placed'
BY Moved, FreshTyped DEF Leave, WorkerTypes, Fits, Steps, Busy, Extraction

\* The parts of a worker's local state can be replaced one by one.
LEMMA LocalParts ==
  ASSUME NEW l \in Locals, NEW it \in Items \cup {NoItem}, NEW f \in Faults,
         NEW s \in Listings, NEW p \in Replies, NEW d \in Drafts
  PROVE  /\ [l EXCEPT !.item = it, !.fault = f] \in Locals
         /\ [l EXCEPT !.item = it, !.listing = s] \in Locals
         /\ [l EXCEPT !.item = it, !.reply = p] \in Locals
         /\ [l EXCEPT !.item = it] \in Locals
         /\ [l EXCEPT !.fault = f] \in Locals
         /\ [l EXCEPT !.draft = d] \in Locals
BY DEF Locals

LEMMA FaultTyped ==
  ASSUME WorkerTypes, Placed, NEW w \in Workers, loc[w].run \in RunIds,
         NEW it \in Items, NEW f \in Faults, Fault(w, it, f), UNCHANGED holder
  PROVE  WorkerTypes' /\ Placed'
<1> DEFINE l == [loc[w] EXCEPT !.item = it, !.fault = f]
<1>1. loc[w] \in Locals
  BY DEF WorkerTypes
<1>2. l \in Locals
  BY <1>1 DEF Locals
<1>3. l.run = loc[w].run /\ l.item = it
  BY <1>1 DEF Locals
<1>4. Fits("faulted", l)
  BY <1>3 DEF Fits, Extraction
<1> QED  BY <1>2, <1>4, Moved DEF Fault, WorkerTypes, Steps

LEMMA FailTyped ==
  ASSUME WorkerTypes, Placed, NEW w \in Workers, loc[w].run \in RunIds,
         NEW f \in Faults, Fail(w, f), UNCHANGED holder
  PROVE  WorkerTypes' /\ Placed'
<1> DEFINE l == [Fresh(loc[w].run) EXCEPT !.fault = f]
<1>1. Fresh(loc[w].run) \in Locals /\ Fresh(loc[w].run).run = loc[w].run
  BY FreshTyped
<1>2. l \in Locals /\ l.run = loc[w].run
  BY <1>1 DEF Locals
<1>3. Fits("failing", l)
  BY <1>2 DEF Fits, Extraction
<1> QED  BY <1>2, <1>3, Moved DEF Fail, WorkerTypes, Steps

-----------------------------------------------------------------------------
(***************************************************************************)
(* The frame of an invocation, and what every item has in common           *)
(***************************************************************************)

LEMMA FrameTyped ==
  ASSUME Typed, NEW w \in Workers, Frame(w)
  PROVE  Typed'
<1> USE DEF Typed, TypeOK
<1>1. CASE Acquire(w)
  BY <1>1, GroupsKept, Stayed DEF Acquire, dbVars, Steps, Fits, Busy, Extraction
<1>2. CASE Pick(w)
  <2>1. SourceTypes' /\ RunTypes'
    BY <1>2 DEF Pick, SourceTypes, RunTypes, Current, Queued
  <2>2. WorkerTypes' /\ Placed'
    <3>1. CASE Leave(w)
      BY <1>2, <3>1, LeaveTyped DEF Pick
    <3>2. CASE \E r \in Current : Goto(w, "loop") /\ Keep(w, Fresh(r))
      <4>1. Current \subseteq RunIds
        BY DEF Current, Queued, SourceTypes
      <4> QED
        BY <1>2, <3>2, <4>1, FreshTyped, Moved
        DEF Pick, WorkerTypes, Fits, Steps, Extraction
    <3> QED  BY <1>2, <3>1, <3>2 DEF Pick
  <2> QED  BY <1>2, <2>1, <2>2, GroupsKept DEF Pick
<1>3. CASE StopLoop(w)
  BY <1>3, GroupsKept, LeaveTyped DEF StopLoop, dbVars
<1>4. CASE NotDue(w)
  BY <1>4, GroupsKept, LeaveTyped DEF NotDue, dbVars
<1>5. CASE LeaseLost(w)
  BY <1>5, GroupsKept, Moved, FreshTyped
  DEF LeaseLost, dbVars, Fits, Steps, Busy, Extraction, WorkerTypes
<1>6. CASE Release(w)
  BY <1>6, GroupsKept, Stayed DEF Release, dbVars, Steps, Fits, Busy, Extraction
<1> QED  BY <1>1, <1>2, <1>3, <1>4, <1>5, <1>6 DEF Frame

\* At these steps a worker has a run, and an item.
LEMMA AtWork ==
  ASSUME Typed, NEW w \in Workers
  PROVE  /\ loc[w] \in Locals
         /\ pc[w] \in Busy => loc[w].run \in RunIds
         /\ pc[w] = "listed" => loc[w].item \in Items /\ Kind(w) = "folder" /\ Key(w) \in Folders
         /\ pc[w] \in Extraction =>
              loc[w].item \in Items /\ Kind(w) = "document" /\ Key(w) \in Docs
         /\ pc[w] = "looked" =>
              loc[w].item \in Items /\ Kind(w) = "confirmation" /\ Key(w) \in Nodes
         /\ pc[w] = "faulted" => loc[w].item \in Items
BY DEF Typed, TypeOK, WorkerTypes, Placed, Fits, Items, Kind, Key

LEMMA HandlingTyped ==
  ASSUME Typed, NEW w \in Workers, Handling(w)
  PROVE  Typed'
<1> USE DEF Typed, TypeOK
<1>0. loc[w].run \in RunIds /\ loc[w].fault \in Faults
  BY AtWork DEF Handling, GiveUpRun, TakeOffline, RetryLater, ItemFails, FailRun, Busy, Steps, Locals
<1>1. CASE GiveUpRun(w)
  BY <1>0, <1>1, GroupsKept, FailTyped DEF GiveUpRun, dbVars
<1>2. CASE TakeOffline(w)
  <2>1. loc[w].item \in Items /\ Key(w) \in Docs
    BY <1>2, AtWork DEF TakeOffline, DocumentLost, Items, Kind, Key
  <2>2. DocTypes'
    BY <1>2, <2>1 DEF TakeOffline, DocTypes, DocStatuses, Offline
  <2>3. ItemTypes'
    BY <1>2, <2>1 DEF TakeOffline, ItemTypes, ItemStates
  <2>4. RevTypes'
    BY <1>2, <2>2 DEF TakeOffline, RevTypes, RefreshAgentFiles, ServedFiles
  <2> QED  BY <1>0, <1>2, <2>2, <2>3, <2>4, GroupsKept, AgainTyped DEF TakeOffline
<1>3. CASE RetryLater(w)
  <2>1. loc[w].item \in Items
    BY <1>3, AtWork DEF RetryLater
  <2>2. ItemTypes'
    BY <1>3, <2>1, Bounds DEF RetryLater, ItemTypes, MayRetry
  <2> QED  BY <1>3, <2>2, GroupsKept, LeaveTyped DEF RetryLater
<1>4. CASE ItemFails(w)
  <2>1. loc[w].item \in Items
    BY <1>4, AtWork DEF ItemFails
  <2>2. ItemTypes'
    BY <1>4, <2>1 DEF ItemFails, ItemTypes, ItemStates
  <2>3. DocTypes'
    BY <1>4 DEF ItemFails, DocTypes, DocStatuses
  <2> QED  BY <1>0, <1>4, <2>2, <2>3, GroupsKept, AgainTyped DEF ItemFails
<1>5. CASE FailRun(w)
  <2>1. SourceTypes'
    BY <1>5 DEF FailRun, SourceTypes, PausedEpoch
  <2>2. RunTypes'
    BY <1>0, <1>5 DEF FailRun, RunTypes, Ended
  <2>3. ItemTypes'
    BY <1>5, Bounds DEF FailRun, ForgetItems, ItemTypes, ItemStates
  <2>4. DocTypes'
    BY <1>5, GroupsKept DEF FailRun
  <2>5. RevTypes'
    BY <1>5, <2>4 DEF FailRun, RevTypes, RefreshAgentFiles, ServedFiles
  <2> QED  BY <1>5, <2>1, <2>2, <2>3, <2>4, <2>5, GroupsKept, LeaveTyped DEF FailRun
<1> QED  BY <1>1, <1>2, <1>3, <1>4, <1>5 DEF Handling

LEMMA EnvironmentTyped ==
  ASSUME Typed, Failure \/ Time \/ Requests \/ Space
  PROVE  Typed'
<1> USE DEF Typed, TypeOK
<1>1. CASE Expire
  BY <1>1, GroupsKept, Bounds
  DEF Expire, dbVars, WorkerTypes, Placed, Fits, SpaceTypes, spaceVars, Disturb
<1>2. ASSUME NEW w \in Workers, Yield(w) \/ Crash(w)
      PROVE  Typed'
  <2>1. SpaceTypes'
    BY <1>2, Bounds DEF Yield, Crash, Disturb, SpaceTypes, spaceVars
  <2>2. CASE Yield(w)
    BY <2>1, <2>2, GroupsKept, LeaveTyped DEF Yield, dbVars
  <2>3. CASE Crash(w)
    BY <2>1, <2>3, GroupsKept, Moved, FreshTyped
    DEF Crash, dbVars, Fits, Steps, Busy, Extraction, WorkerTypes
  <2> QED  BY <1>2, <2>2, <2>3
<1>3. CASE Time
  BY <1>3, GroupsKept DEF Time, Due, ItemTypes
<1>4. CASE Requests
  <2>1. RunTypes'
    BY <1>4, Bounds DEF Requests, Enqueue, RunTypes, RunIds, NoRun
  <2> QED  BY <1>4, <2>1, GroupsKept DEF Requests, Enqueue
<1>5. CASE Space
  <2>1. SpaceTypes'
    <3>1. ASSUME NEW d \in Docs, Edit(d)  PROVE SpaceTypes'
      BY <3>1, Bounds DEF Edit, Disturb, SpaceTypes
    <3>2. ASSUME NEW n \in Nodes, NEW f \in Folders \cup {Gone, Elsewhere}, Move(n, f)
          PROVE  SpaceTypes'
      <4>1. DocsUnder(n) \subseteq Docs
        BY DEF DocsUnder, SpaceTypes
      <4> QED  BY <3>2, <4>1, Bounds DEF Move, Disturb, Touched, SpaceTypes
    <3>3. ASSUME NEW n \in Nodes, NEW d \in Docs, Retarget(n, d)  PROVE SpaceTypes'
      BY <3>3, Bounds DEF Retarget, Disturb, Touched, SpaceTypes
    <3>4. ASSUME NEW n \in Nodes, Rescope(n)  PROVE SpaceTypes'
      <4>1. DocsUnder(n) \subseteq Docs
        BY DEF DocsUnder, SpaceTypes
      <4> QED  BY <3>4, <4>1, Bounds DEF Rescope, Disturb, Touched, SpaceTypes
    <3>5. ASSUME NEW d \in Docs, NEW a \in {"ok", "denied", "gone"}, ChangeAccess(d, a)
          PROVE  SpaceTypes'
      BY <3>5, Bounds DEF ChangeAccess, Disturb, Touched, SpaceTypes
    <3>6. CASE Close \/ Reopen
      <4>1. open' \in BOOLEAN
        BY <3>6, Zenon DEF Close, Reopen
      <4>2. trouble' \in 0..MaxTrouble
        BY <3>6, Bounds DEF Close, Reopen, Disturb, SpaceTypes
      <4> QED  BY <3>6, <4>1, <4>2 DEF Close, Reopen, SpaceTypes
    <3> QED  BY <1>5, <3>1, <3>2, <3>3, <3>4, <3>5, <3>6 DEF Space
  <2>2. UNCHANGED <<dbVars, workerVars>>
    BY <1>5 DEF Space, Edit, Move, Retarget, Rescope, ChangeAccess, Close, Reopen
  <2> QED  BY <2>1, <2>2, GroupsKept DEF dbVars
<1> QED  BY <1>1, <1>2, <1>3, <1>4, <1>5 DEF Failure

-----------------------------------------------------------------------------
(***************************************************************************)
(* The phases of a run                                                     *)
(***************************************************************************)

\* A call that fails leaves the worker with a fault of its item.
LEMMA CallFailsTyped ==
  ASSUME Typed, NEW w \in Workers, loc[w].run \in RunIds, NEW it \in Items,
         CallFails(w, it), UNCHANGED <<dbVars, holder, spaceVars>>
  PROVE  Typed'
<1>1. WorkerTypes' /\ Placed'
  BY FaultTyped DEF CallFails, Typed, TypeOK, Faults
<1>2. SpaceTypes'
  BY Bounds DEF CallFails, Disturb, Typed, TypeOK, SpaceTypes, spaceVars
<1> QED  BY <1>1, <1>2, GroupsKept DEF Typed, TypeOK, dbVars

LEMMA EnumeratingTyped ==
  ASSUME Typed, NEW w \in Workers, Enumerating(w)
  PROVE  Typed'
<1> USE DEF Typed, TypeOK
<1>0. loc[w].run \in RunIds
  BY AtWork DEF Enumerating, Resolve, Validate, ListPage, Discover, RefusePage, EndEnumerate,
                Performs, InPhase, Busy, Steps
<1>1. CASE Resolve(w)
  <2>1. WorkerTypes' /\ Placed'
    <3>1. CASE Goto(w, "resolved") /\ UNCHANGED loc
      BY <1>0, <1>1, <3>1, Stayed DEF Resolve, Steps, Fits, Extraction, WorkerTypes
    <3>2. CASE Fail(w, "source") \/ Fail(w, "transient")
      BY <1>0, <1>1, <3>2, FailTyped DEF Resolve, Faults
    <3> QED  BY <1>1, <3>1, <3>2 DEF Resolve
  <2>2. SpaceTypes'
    BY <1>1, Bounds DEF Resolve, Disturb, SpaceTypes, spaceVars
  <2> QED  BY <1>1, <2>1, <2>2, GroupsKept DEF Resolve, dbVars
<1>2. CASE Validate(w)
  <2>1. SourceTypes' /\ RunTypes'
    BY <1>0, <1>2 DEF Validate, SourceTypes, RunTypes, Phases
  <2>2. ItemTypes'
    BY <1>2 DEF Validate, ItemTypes, Add, ItemStates
  <2>3. DocTypes'
    BY <1>2, GroupsKept DEF Validate
  <2>4. RevTypes'
    BY <1>2, <2>3 DEF Validate, RevTypes, RefreshAgentFiles, ServedFiles
  <2> QED  BY <1>0, <1>2, <2>1, <2>2, <2>3, <2>4, GroupsKept, AgainTyped DEF Validate
<1>3. ASSUME NEW f \in Folders, ListPage(w, f)
      PROVE  Typed'
  <2> DEFINE it == <<"folder", f>>
  <2>1. it \in Items /\ it \in {"folder"} \X Folders
    BY DEF Items
  <2>2. CASE Goto(w, "listed") /\ UNCHANGED trouble
             /\ Keep(w, [loc[w] EXCEPT !.item = it, !.listing = PageOfFolder(f)])
    <3> DEFINE l == [loc[w] EXCEPT !.item = it, !.listing = PageOfFolder(f)]
    <3>1. PageOfFolder(f) \in Listings
      <4> DEFINE S == {m \in Nodes : place[m] = f /\ PageOf[m] = page[f]}
      <4>1. PageOfFolder(f) \in [S -> Entries]
        BY DEF PageOfFolder, Entries, SpaceTypes
      <4> QED  BY <4>1 DEF Listings
    <3>2. loc[w] \in Locals
      BY AtWork
    <3>3. l \in Locals /\ l.run = loc[w].run /\ l.item = it
      BY <2>1, <3>1, <3>2 DEF Locals
    <3>4. Fits("listed", l)
      BY <1>0, <2>1, <3>3 DEF Fits, Extraction
    <3>5. WorkerTypes' /\ Placed'
      BY <1>3, <2>2, <3>3, <3>4, Moved DEF ListPage, WorkerTypes, Steps
    <3> QED  BY <1>3, <2>2, <3>5, GroupsKept DEF ListPage, dbVars
  <2>3. CASE Fault(w, it, "source") /\ UNCHANGED trouble
    <3>1. WorkerTypes' /\ Placed'
      BY <1>0, <1>3, <2>1, <2>3, FaultTyped DEF ListPage, Faults
    <3> QED  BY <1>3, <2>3, <3>1, GroupsKept DEF ListPage, dbVars
  <2>4. CASE CallFails(w, it)
    BY <1>0, <1>3, <2>1, <2>4, CallFailsTyped DEF ListPage
  <2> QED  BY <1>3, <2>2, <2>3, <2>4 DEF ListPage
<1>4. CASE Discover(w)
  <2> DEFINE page1 == loc[w].listing
  <2>0. /\ loc[w].item \in Items /\ Key(w) \in Folders
        /\ DOMAIN page1 \subseteq Nodes /\ page1 \in [DOMAIN page1 -> Entries]
    BY <1>4, AtWork DEF Discover, Locals, Listings
  <2>1. NodeTypes'
    BY <1>0, <1>4, <2>0 DEF Discover, RecordNodes, NodeTypes, NodeStates, Live, Entries, SourceTypes
  <2>2. DocTypes'
    <3>1. PICK o \in Orders(DOMAIN page1) :
            LET off == {d \in Docs : Unserved(o, page1, d) # {}} IN
            /\ docStatus' = [d \in Docs |-> DocStatusAfter(o, page1, d)]
            /\ docEpoch' = [d \in Docs |-> IF d \in off THEN -1 ELSE docEpoch[d]]
            /\ revalidate' = [d \in Docs |->
                 revalidate[d] \/ \E n \in DOMAIN page1 : Orphans(o, page1, n, d)]
            /\ activeRev' = activeRev
      BY <1>4 DEF Discover
    <3>2. ASSUME NEW d \in Docs  PROVE DocStatusAfter(o, page1, d) \in DocStatuses
      BY DEF DocStatusAfter, FirstStatus, DocTypes, DocStatuses, Offline
    <3>3. revalidate' \in [Docs -> BOOLEAN]
      BY <3>1, Zenon DEF DocTypes
    <3>4. docEpoch' \in [Docs -> Int]
      BY <3>1 DEF DocTypes
    <3> QED  BY <3>1, <3>2, <3>3, <3>4 DEF DocTypes
  <2>3. ItemTypes'
    <3>1. \A new : Add(item, new) \in [Items -> ItemStates]
      BY DEF Add, ItemTypes, ItemStates
    <3> QED  BY <1>4, <2>0, <3>1, Bounds DEF Discover, ItemTypes, ItemStates
  <2>4. RevTypes'
    BY <1>4, <2>2 DEF Discover, RevTypes, RefreshAgentFiles, ServedFiles, revVars
  <2> QED  BY <1>0, <1>4, <2>1, <2>2, <2>3, <2>4, GroupsKept, AgainTyped DEF Discover
<1>5. CASE RefusePage(w)
  <2>1. WorkerTypes' /\ Placed'
    BY <1>0, <1>5, AtWork, FaultTyped DEF RefusePage, Faults
  <2> QED  BY <1>5, <2>1, GroupsKept DEF RefusePage, dbVars
<1>6. CASE EndEnumerate(w)
  <2>1. RunTypes'
    BY <1>0, <1>6 DEF EndEnumerate, RunTypes, Phases
  <2> QED  BY <1>0, <1>6, <2>1, GroupsKept, AgainTyped DEF EndEnumerate
<1> QED  BY <1>1, <1>2, <1>3, <1>4, <1>5, <1>6 DEF Enumerating

\* A call for a document that fails.
LEMMA DocumentFailsTyped ==
  ASSUME Typed, NEW w \in Workers, loc[w].run \in RunIds, loc[w].item \in Items,
         NEW d, DocumentFails(w, d), UNCHANGED <<dbVars, holder, spaceVars>>
  PROVE  Typed'
<1>1. CASE CallFails(w, loc[w].item)
  BY <1>1, CallFailsTyped
<1>2. CASE /\ UNCHANGED trouble
           /\ Fault(w, loc[w].item, "denied") \/ Fault(w, loc[w].item, "not_found")
  <2>1. WorkerTypes' /\ Placed'
    BY <1>2, FaultTyped DEF Typed, TypeOK, Faults
  <2> QED  BY <1>2, <2>1, GroupsKept DEF Typed, TypeOK, dbVars
<1> QED  BY <1>1, <1>2 DEF DocumentFails

\* A worker reads a part of a document and goes on to the next.
LEMMA ReadTyped ==
  ASSUME Typed, NEW w \in Workers, pc[w] \in Extraction, NEW step \in Extraction,
         NEW field \in {"before", "blocks", "media"},
         NEW value \in 0..MaxEdits \cup {Lost}, field = "media" \/ value # Lost,
         Goto(w, step), Read(w, field, value), UNCHANGED holder
  PROVE  WorkerTypes' /\ Placed'
<1> DEFINE dr == [loc[w].draft EXCEPT ![field] = value]
           l == [loc[w] EXCEPT !.draft[field] = value]
<1>0. loc[w] \in Locals /\ loc[w].draft \in Drafts /\ loc[w].run \in RunIds
  BY AtWork DEF Locals, Extraction, Busy, Steps
<1>1. dr \in Drafts
  BY <1>0 DEF Drafts
<1>2. l = [loc[w] EXCEPT !.draft = dr]
  BY <1>0
<1>3. l \in Locals /\ l.run = loc[w].run /\ l.item = loc[w].item
  BY <1>0, <1>1, <1>2 DEF Locals
<1>4. Fits(step, l)
  BY <1>0, <1>3 DEF Fits, Extraction, Typed, Placed
<1> QED
  BY <1>3, <1>4, Moved DEF Read, Typed, TypeOK, WorkerTypes, Extraction, Steps

LEMMA ExtractingTyped ==
  ASSUME Typed, NEW w \in Workers, Extracting(w)
  PROVE  Typed'
<1> USE DEF Typed, TypeOK
<1>0. /\ loc[w].run \in RunIds
      /\ pc[w] \in Extraction =>
           loc[w].item \in Items /\ Key(w) \in Docs /\ loc[w] \in Locals
      /\ pc[w] \in Extraction => Fits(pc[w], loc[w])
  BY AtWork DEF Extracting, SkipDocument, BeginExtract, FetchBefore, FetchBlocks, FetchMedia,
     FetchAfter, Stage, Verify, BeginIndex, Index, Publish, EndExtract, Performs, InPhase, Busy,
     Steps, Placed
<1>1. ASSUME NEW d \in Docs, SkipDocument(w, d)  PROVE Typed'
  <2>1. DocTypes' /\ ItemTypes'
    BY <1>1 DEF SkipDocument, DocTypes, DocStatuses, ItemTypes, ItemStates, Items
  <2> QED  BY <1>0, <1>1, <2>1, GroupsKept, AgainTyped DEF SkipDocument
<1>2. ASSUME NEW d \in Docs, BeginExtract(w, d)  PROVE Typed'
  <2> DEFINE l == [loc[w] EXCEPT !.item = <<"document", d>>]
  <2>1. DocTypes'
    BY <1>2 DEF BeginExtract, DocTypes, DocStatuses
  <2>2. <<"document", d>> \in Items /\ <<"document", d>> \in {"document"} \X Docs
    BY DEF Items
  <2>3. l \in Locals /\ l.run = loc[w].run /\ l.item = <<"document", d>>
    BY <2>2, AtWork DEF Locals
  <2>4. WorkerTypes' /\ Placed'
    BY <1>0, <1>2, <2>2, <2>3, Moved
    DEF BeginExtract, Fits, Extraction, Steps, WorkerTypes
  <2> QED  BY <1>2, <2>1, <2>4, GroupsKept DEF BeginExtract
<1>3. CASE FetchBefore(w)
  <2>1. content[Key(w)] \in 0..MaxEdits
    BY <1>0, <1>3 DEF FetchBefore, Extraction, SpaceTypes
  <2>2. CASE Goto(w, "blocks") /\ Read(w, "before", content[Key(w)]) /\ UNCHANGED trouble
    BY <1>3, <2>1, <2>2, ReadTyped, GroupsKept DEF FetchBefore, Extraction, Lost, dbVars
  <2> QED  BY <1>0, <1>3, <2>2, DocumentFailsTyped DEF FetchBefore, Extraction
<1>4. CASE FetchBlocks(w)
  <2>1. content[Key(w)] \in 0..MaxEdits
    BY <1>0, <1>4 DEF FetchBlocks, Extraction, SpaceTypes
  <2>2. CASE Goto(w, "media") /\ Read(w, "blocks", content[Key(w)]) /\ UNCHANGED trouble
    BY <1>4, <2>1, <2>2, ReadTyped, GroupsKept DEF FetchBlocks, Extraction, Lost, dbVars
  <2> QED  BY <1>0, <1>4, <2>2, DocumentFailsTyped DEF FetchBlocks, Extraction
<1>5. CASE FetchMedia(w)
  <2>1. content[Key(w)] \in 0..MaxEdits
    BY <1>0, <1>5 DEF FetchMedia, Extraction, SpaceTypes
  <2>2. SpaceTypes'
    BY <1>5, Bounds DEF FetchMedia, Disturb, SpaceTypes, spaceVars
  <2>3. CASE Goto(w, "after") /\ (Read(w, "media", content[Key(w)]) \/ Read(w, "media", Lost))
    BY <1>5, <2>1, <2>2, <2>3, ReadTyped, GroupsKept DEF FetchMedia, Extraction, dbVars
  <2>4. CASE Fault(w, loc[w].item, "denied") \/ Fault(w, loc[w].item, "source")
    BY <1>0, <1>5, <2>2, <2>4, FaultTyped, GroupsKept DEF FetchMedia, Extraction, Faults, dbVars
  <2> QED  BY <1>5, <2>3, <2>4 DEF FetchMedia
<1>6. CASE FetchAfter(w)
  <2>1. CASE Goto(w, "ready") /\ UNCHANGED <<loc, trouble>>
    <3>1. Fits("ready", loc[w])
      BY <1>0, <1>6 DEF FetchAfter, Fits, Extraction
    <3> QED  BY <1>6, <2>1, <3>1, Stayed, GroupsKept DEF FetchAfter, Steps, dbVars, WorkerTypes
  <2>2. CASE /\ Goto(w, "fetch") /\ loc[w].attempt < MaxRetries /\ UNCHANGED trouble
             /\ Keep(w, [loc[w] EXCEPT !.draft = NoDraft, !.attempt = @ + 1])
    <3> DEFINE l == [loc[w] EXCEPT !.draft = NoDraft, !.attempt = @ + 1]
    <3>1. NoDraft \in Drafts
      BY Bounds DEF NoDraft, Drafts
    <3>2. l \in Locals /\ l.run = loc[w].run /\ l.item = loc[w].item
      <4>1. loc[w] \in Locals
        BY AtWork
      <4>2. loc[w].attempt + 1 \in 0..MaxRetries
        BY <2>2, <4>1, Bounds DEF Locals
      <4> QED  BY <3>1, <4>1, <4>2 DEF Locals
    <3>3. Fits("fetch", l)
      BY <1>0, <1>6, <3>2 DEF FetchAfter, Fits, Extraction
    <3> QED
      BY <1>6, <2>2, <3>2, <3>3, Moved, GroupsKept DEF FetchAfter, Steps, dbVars, WorkerTypes
  <2>3. CASE Fault(w, loc[w].item, "other") /\ UNCHANGED trouble
    BY <1>0, <1>6, <2>3, FaultTyped, GroupsKept DEF FetchAfter, Extraction, Faults, dbVars
  <2>4. CASE DocumentFails(w, Key(w))
    BY <1>0, <1>6, <2>4, DocumentFailsTyped DEF FetchAfter, Extraction
  <2> QED  BY <1>6, <2>1, <2>2, <2>3, <2>4 DEF FetchAfter
<1>7. CASE Stage(w)
  <2>1. Extracted(w) \in RevIds /\ loc[w].item \in Items /\ pc[w] \in Extraction
    BY <1>0, <1>7 DEF Stage, Extracted, RevIds, Extraction, Locals, Drafts
  <2>2. RevTypes'
    BY <1>7, <2>1 DEF Stage, RevTypes
  <2>3. DocTypes' /\ ItemTypes'
    BY <1>7, <2>1 DEF Stage, DocTypes, DocStatuses, ItemTypes, ItemStates
  <2>4. WorkerTypes' /\ Placed'
    <3>1. CASE Goto(w, "staged") /\ UNCHANGED loc
      <4>1. Fits("staged", loc[w])
        BY <1>0, <1>7 DEF Stage, Fits, Extraction
      <4> QED  BY <1>7, <3>1, <4>1, Stayed DEF Stage, Steps, WorkerTypes
    <3>2. CASE Again(w)
      BY <1>0, <1>7, <3>2, AgainTyped DEF Stage
    <3> QED  BY <1>7, <3>1, <3>2 DEF Stage
  <2> QED  BY <1>7, <2>2, <2>3, <2>4, GroupsKept DEF Stage
<1>8. CASE Verify(w) \/ Index(w)
  <2>1. CASE Goto(w, "verified") /\ UNCHANGED <<loc, trouble>>
    <3>1. Fits("verified", loc[w])
      BY <1>0, <1>8 DEF Verify, Index, Fits, Extraction
    <3> QED
      BY <1>8, <2>1, <3>1, Stayed, GroupsKept DEF Verify, Index, Steps, dbVars, WorkerTypes
  <2>2. CASE Disturb("index") /\ Fault(w, loc[w].item, "other")
    <3>1. WorkerTypes' /\ Placed'
      BY <1>0, <1>8, <2>2, FaultTyped DEF Verify, Index, Extraction, Faults
    <3>2. SpaceTypes'
      BY <1>8, <2>2, Bounds DEF Verify, Index, Disturb, SpaceTypes, spaceVars
    <3> QED  BY <1>8, <3>1, <3>2, GroupsKept DEF Verify, Index, dbVars
  <2> QED  BY <1>8, <2>1, <2>2 DEF Verify, Index
<1>9. CASE BeginIndex(w)
  <2>1. DocTypes'
    BY <1>9 DEF BeginIndex, DocTypes, DocStatuses
  <2>2. SpaceTypes'
    BY <1>9, Bounds DEF BeginIndex, Disturb, SpaceTypes, spaceVars
  <2>3. Fits("indexing", loc[w])
    BY <1>0, <1>9 DEF BeginIndex, Fits, Extraction
  <2>4. WorkerTypes' /\ Placed'
    BY <1>9, <2>3, Stayed DEF BeginIndex, Steps, WorkerTypes
  <2> QED  BY <1>9, <2>1, <2>2, <2>4, GroupsKept DEF BeginIndex
<1>10. CASE Publish(w)
  <2>1. Extracted(w) \in RevIds /\ loc[w].item \in Items
    BY <1>0, <1>10 DEF Publish, Extracted, RevIds, Extraction, Locals, Drafts
  <2>2. DocTypes'
    <3>1. revalidate' \in [Docs -> BOOLEAN]
      BY <1>10 DEF Publish, DocTypes
    <3>2. activeRev' \in [Docs -> RevIds \cup {NoRev}]
      BY <1>10, <2>1 DEF Publish, DocTypes
    <3> QED  BY <1>10, <3>1, <3>2 DEF Publish, DocTypes, SourceTypes, DocStatuses
  <2>3. ItemTypes'
    BY <1>10, <2>1 DEF Publish, ItemTypes, ItemStates
  <2>4. RevTypes'
    BY <1>10, <2>1, <2>2 DEF Publish, RevTypes, RefreshAgentFiles, ServedFiles
  <2> QED  BY <1>0, <1>10, <2>2, <2>3, <2>4, GroupsKept, AgainTyped DEF Publish
<1>11. CASE EndExtract(w)
  <2>1. RunTypes'
    BY <1>0, <1>11 DEF EndExtract, RunTypes, Phases
  <2> QED  BY <1>0, <1>11, <2>1, GroupsKept, AgainTyped DEF EndExtract
<1> QED
  BY <1>1, <1>2, <1>3, <1>4, <1>5, <1>6, <1>7, <1>8, <1>9, <1>10, <1>11 DEF Extracting

LEMMA ReconcilingTyped ==
  ASSUME Typed, NEW w \in Workers, Reconciling(w)
  PROVE  Typed'
<1> USE DEF Typed, TypeOK
<1>0. loc[w].run \in RunIds
  BY AtWork DEF Reconciling, QueueMissing, LookUp, Confirm, Finish, Performs, InPhase, Busy, Steps
<1>1. CASE QueueMissing(w)
  <2>1. RunTypes'
    BY <1>0, <1>1 DEF QueueMissing, RunTypes, NextBatch, Ahead, Unseen, Folders
  <2>2. ItemTypes'
    BY <1>1 DEF QueueMissing, ItemTypes, Add, ItemStates
  <2> QED  BY <1>0, <1>1, <2>1, <2>2, GroupsKept, AgainTyped DEF QueueMissing
<1>2. ASSUME NEW n \in Nodes, LookUp(w, n)  PROVE Typed'
  <2> DEFINE it == <<"confirmation", n>>
             l == [loc[w] EXCEPT !.item = it, !.reply = ReplyFor(n)]
  <2>1. it \in Items /\ it \in {"confirmation"} \X Nodes
    BY DEF Items
  <2>2. CASE Goto(w, "looked") /\ Keep(w, l) /\ UNCHANGED trouble
    <3>1. ReplyFor(n) \in Replies
      BY DEF ReplyFor, Replies
    <3>2. l \in Locals /\ l.run = loc[w].run /\ l.item = it
      BY <2>1, <3>1, AtWork DEF Locals
    <3>3. Fits("looked", l)
      BY <1>0, <2>1, <3>2 DEF Fits, Extraction
    <3>4. WorkerTypes' /\ Placed'
      BY <1>2, <2>2, <3>2, <3>3, Moved DEF LookUp, WorkerTypes, Steps
    <3> QED  BY <1>2, <2>2, <3>4, GroupsKept DEF LookUp, dbVars
  <2>3. CASE CallFails(w, it)
    BY <1>0, <1>2, <2>1, <2>3, CallFailsTyped DEF LookUp
  <2> QED  BY <1>2, <2>2, <2>3 DEF LookUp
<1>3. CASE Confirm(w)
  <2>1. loc[w].item \in Items /\ Key(w) \in Nodes
    BY <1>3, AtWork DEF Confirm
  <2>2. Verdict(w, Key(w)) \in Offline \cup {"missing"}
    BY DEF Verdict, Offline
  <2>3. NodeTypes'
    BY <1>0, <1>3, <2>1, <2>2 DEF Confirm, NodeTypes, NodeStates, Live
  <2>4. DocTypes'
    <3>1. UNCHANGED activeRev /\ nodeDoc[Key(w)] \in Docs
      BY <1>3, <2>1 DEF Confirm, NodeTypes
    <3>2. revalidate' \in [Docs -> BOOLEAN]
      BY <1>3 DEF Confirm, DocTypes
    <3>3. docStatus' \in [Docs -> DocStatuses] /\ docEpoch' \in [Docs -> Int]
      BY <1>3, <2>2, <3>1 DEF Confirm, DocTypes, DocStatuses
    <3> QED  BY <3>1, <3>2, <3>3 DEF DocTypes
  <2>5. ItemTypes'
    BY <1>3, <2>1 DEF Confirm, ItemTypes, ItemStates
  <2>6. RevTypes'
    BY <1>3, <2>4 DEF Confirm, RevTypes, RefreshAgentFiles, ServedFiles
  <2> QED  BY <1>0, <1>3, <2>3, <2>4, <2>5, <2>6, GroupsKept, AgainTyped DEF Confirm
<1>4. CASE Finish(w)
  <2>1. RunTypes' /\ SourceTypes'
    <3>1. Outcome \in Ended
      BY DEF Outcome, Ended
    <3>2. ConfirmAgain => lastRun + 1 \in RunIds
      BY Bounds DEF ConfirmAgain, RunTypes, RunIds, NoRun
    <3> QED  BY <1>0, <1>4, <3>1, <3>2 DEF Finish, RunTypes, SourceTypes, Phases
  <2>2. ItemTypes'
    BY <1>4, Bounds DEF Finish, ForgetItems, ItemTypes, ItemStates
  <2> QED  BY <1>4, <2>1, <2>2, GroupsKept, LeaveTyped DEF Finish
<1> QED  BY <1>1, <1>2, <1>3, <1>4 DEF Reconciling

-----------------------------------------------------------------------------

LEMMA InitTyped == Init => Typed
<1> SUFFICES ASSUME Init PROVE Typed
  OBVIOUS
<1>1. SourceTypes /\ RunTypes /\ NodeTypes
  BY SyncAssumption DEF SyncAssumption, Init, SourceTypes, RunTypes, NodeTypes, Phases, Folders,
                        NodeStates
<1>2. DocTypes /\ RevTypes /\ ItemTypes
  BY Bounds DEF Init, DocTypes, RevTypes, ItemTypes, DocStatuses, ItemStates
<1>3. WorkerTypes /\ Placed
  BY FreshTyped DEF Init, WorkerTypes, Placed, Fits, Steps, Busy, Extraction
<1>4. SpaceTypes
  <2>1. open \in BOOLEAN
    BY Zenon DEF Init
  <2> QED  BY <2>1, SyncAssumption DEF SyncAssumption, Init, SpaceTypes
<1> QED  BY <1>1, <1>2, <1>3, <1>4 DEF Typed, TypeOK

LEMMA NextTyped == Typed /\ [Next]_vars => Typed'
<1> SUFFICES ASSUME Typed, [Next]_vars PROVE Typed'
  OBVIOUS
<1>1. ASSUME NEW w \in Workers, Progress(w)  PROVE Typed'
  BY <1>1, FrameTyped, HandlingTyped, EnumeratingTyped, ExtractingTyped, ReconcilingTyped
  DEF Progress
<1>2. CASE Failure \/ Time \/ Requests \/ Space
  BY <1>2, EnvironmentTyped
<1>3. CASE UNCHANGED vars
  BY <1>3, GroupsKept DEF Typed, TypeOK, vars, dbVars
<1> QED  BY <1>1, <1>2, <1>3 DEF Next

\* Every record of the database, every worker and the space hold what they may hold,
\* at every moment: a worker that comes back from a call to Feishu, takes a lease over
\* or gives up still has in hand what its next transaction is about.
THEOREM TypeCorrect == Spec => []TypeOK
<1>1. Typed => TypeOK
  BY DEF Typed
<1> QED  BY <1>1, InitTyped, NextTyped, PTL DEF Spec
-----------------------------------------------------------------------------
(***************************************************************************)
(* What the workers have in hand                                           *)
(***************************************************************************)

\* The steps at which a worker has an item in hand.
Handed == {"listed", "looked", "faulted"} \cup Extraction

Stays(v) == pc'[v] = pc[v] /\ loc'[v] = loc[v] /\ (holder' = v => holder = v)
\* v goes on with the item it has.
HeldOn(v) ==
  pc[v] \in Handed /\ loc'[v].item = loc[v].item /\ loc'[v].run = loc[v].run
\* v takes an item of the run it is on.
Took(v) ==
  /\ Performs(v, Kind(v)', Key(v)') /\ loc'[v].run = loc[v].run
  /\ loc'[v].item \in Items /\ loc'[v].item = <<Kind(v)', Key(v)'>>

HandKept(v) ==
  /\ pc'[v] \in Handed => (holder' = v => holder = v) /\ (Took(v) \/ HeldOn(v))
  /\ pc'[v] = "listed" => Stays(v) \/ (Took(v) /\ loc'[v].listing = PageOfFolder(Key(v)'))
  /\ pc'[v] = "looked" => Stays(v) \/ (Took(v) /\ loc'[v].reply = ReplyFor(Key(v)'))
  /\ pc'[v] \in Extraction =>
       \/ pc[v] \in Extraction /\ HeldOn(v)
       \/ Took(v) /\ Extractable(Key(v)')
  /\ pc'[v] = "faulted" /\ loc'[v].fault \in {"denied", "not_found"} =>
       Stays(v) \/ (HeldOn(v) /\ access[Key(v)] # "ok")
  /\ pc'[v] = "resolved" =>
       \/ Stays(v)
       \/ InPhase(v, "validate") /\ loc'[v].run = loc[v].run /\ (holder' = v => holder = v)

LEMMA StayedKept == ASSUME NEW v, Stays(v) PROVE HandKept(v)
<1>1. pc'[v] \in Handed => HeldOn(v) /\ (holder' = v => holder = v)
  BY DEF Stays, HeldOn
<1>2. pc'[v] \in Extraction => pc[v] \in Extraction /\ HeldOn(v)
  BY <1>1 DEF Stays, Handed
<1> QED  BY <1>1, <1>2 DEF HandKept

\* A step of w leaves the others as they are.
LEMMA OthersStay ==
  ASSUME Typed, NEW w \in Workers, NEW step, Goto(w, step), UNCHANGED holder,
         UNCHANGED loc \/ \E l : Keep(w, l)
  PROVE  /\ \A v \in Workers \ {w} : Stays(v)
         /\ pc'[w] = step
         /\ step \notin Handed \cup {"resolved"} => \A v \in Workers : HandKept(v)
<1>1. /\ \A v \in Workers \ {w} : Stays(v)
      /\ pc'[w] = step
  BY DEF Typed, TypeOK, WorkerTypes, Goto, Keep, Stays
<1>2. step \notin Handed \cup {"resolved"} => HandKept(w)
  BY <1>1 DEF HandKept, Handed
<1> QED  BY <1>1, <1>2, StayedKept

\* An answer from Feishu, or its failure, is about the item that was taken.
LEMMA TookItem ==
  ASSUME Typed, NEW w \in Workers, NEW kind, NEW k, <<kind, k>> \in Items,
         Performs(w, kind, k), NEW l, Keep(w, l), l.item = <<kind, k>>, l.run = loc[w].run
  PROVE  Took(w) /\ Key(w)' = k /\ loc'[w] = l
<1>1. loc'[w] = l
  BY DEF Keep, Typed, TypeOK, WorkerTypes
<1>2. Kind(w)' = kind /\ Key(w)' = k
  BY <1>1 DEF Kind, Key
<1> QED  BY <1>1, <1>2 DEF Took

LEMMA FaultHands ==
  ASSUME Typed, NEW w \in Workers, UNCHANGED holder, NEW it, NEW f,
         Fault(w, it, f),
         \/ pc[w] \in Handed /\ it = loc[w].item
         \/ \E kind, k : it = <<kind, k>> /\ it \in Items /\ Performs(w, kind, k),
         f \in {"denied", "not_found"} =>
            pc[w] \in Handed /\ it = loc[w].item /\ access[Key(w)] # "ok"
  PROVE  \A v \in Workers : HandKept(v)
<1> DEFINE l == [loc[w] EXCEPT !.item = it, !.fault = f]
<1>0. loc[w] \in Locals
  BY AtWork
<1>1. l.item = it /\ l.fault = f /\ l.run = loc[w].run
  BY <1>0 DEF Locals
<1>2. Goto(w, "faulted") /\ Keep(w, l)
  BY DEF Fault
<1> HIDE DEF l
<1>3. (\A v \in Workers \ {w} : Stays(v)) /\ pc'[w] = "faulted" /\ loc'[w] = l
  BY <1>2, OthersStay DEF Keep, Typed, TypeOK, WorkerTypes
<1>4. Took(w) \/ HeldOn(w)
  <2>1. CASE pc[w] \in Handed /\ it = loc[w].item
    BY <1>1, <1>3, <2>1 DEF HeldOn
  <2>2. CASE \E kind, k : it = <<kind, k>> /\ it \in Items /\ Performs(w, kind, k)
    BY <1>1, <1>2, <2>2, TookItem
  <2> QED  BY <2>1, <2>2
<1>5. HandKept(w)
  BY <1>1, <1>3, <1>4 DEF HandKept, HeldOn, Extraction
<1> QED  BY <1>3, <1>5, StayedKept

LEMMA CallFailsHands ==
  ASSUME Typed, NEW w \in Workers, UNCHANGED holder, NEW it, CallFails(w, it),
         \/ pc[w] \in Handed /\ it = loc[w].item
         \/ \E kind, k : it = <<kind, k>> /\ it \in Items /\ Performs(w, kind, k)
  PROVE  \A v \in Workers : HandKept(v)
<1>1. PICK f \in {"source", "transient", "other"} : Fault(w, it, f)
  BY DEF CallFails
<1> QED  BY <1>1, FaultHands

LEMMA DocumentFailsHands ==
  ASSUME Typed, NEW w \in Workers, UNCHANGED holder, pc[w] \in Extraction,
         DocumentFails(w, Key(w))
  PROVE  \A v \in Workers : HandKept(v)
BY FaultHands, CallFailsHands DEF DocumentFails, Handed

LEMMA FrameHands ==
  ASSUME Typed, NEW w \in Workers,
         Frame(w) \/ Handling(w) \/ Yield(w) \/ Crash(w)
  PROVE  \A v \in Workers : HandKept(v)
<1>1. CASE Acquire(w) \/ Release(w)
  <2>1. \A v \in Workers : pc'[v] \notin Handed \cup {"resolved"} \/ Stays(v)
    BY <1>1, SyncAssumption
    DEF SyncAssumption, Acquire, Release, Goto, Typed, TypeOK, WorkerTypes, Stays, Handed, Extraction
  <2>2. ASSUME NEW v \in Workers, pc'[v] \notin Handed \cup {"resolved"}  PROVE HandKept(v)
    BY <2>2 DEF HandKept, Handed
  <2> QED  BY <2>1, <2>2, StayedKept
<1>2. CASE ~Acquire(w) /\ ~Release(w)
  <2>1. /\ UNCHANGED holder
        /\ (\E l : Keep(w, l)) /\ \E step \in {"idle", "leaving", "loop", "failing"} : Goto(w, step)
    BY <1>2
    DEF Frame, Pick, StopLoop, NotDue, LeaseLost, Handling, GiveUpRun, TakeOffline,
        RetryLater, ItemFails, FailRun, Yield, Crash, Again, Leave, Fail
  <2> QED  BY <2>1, OthersStay DEF Handed, Extraction
<1> QED  BY <1>1, <1>2

LEMMA EnumeratingHands ==
  ASSUME Typed, NEW w \in Workers, Enumerating(w)
  PROVE  \A v \in Workers : HandKept(v)
<1>0. loc[w] \in Locals
  BY AtWork
<1>1. CASE Resolve(w)
  <2>1. CASE Goto(w, "resolved") /\ UNCHANGED loc
    <3>1. (\A v \in Workers \ {w} : Stays(v)) /\ pc'[w] = "resolved"
      BY <1>1, <2>1, OthersStay DEF Resolve
    <3>2. HandKept(w)
      BY <1>1, <2>1, <3>1 DEF Resolve, HandKept, Handed, Extraction
    <3> QED  BY <3>1, <3>2, StayedKept
  <2>2. CASE \E f : Fail(w, f)
    BY <1>1, <2>2, OthersStay DEF Resolve, Fail, Handed, Extraction
  <2> QED  BY <1>1, <2>1, <2>2 DEF Resolve
<1>2. CASE Validate(w) \/ Discover(w) \/ EndEnumerate(w)
  <2>1. UNCHANGED holder /\ Again(w)
    BY <1>2 DEF Validate, Discover, EndEnumerate
  <2> QED  BY <2>1, OthersStay DEF Again, Handed, Extraction
<1>3. ASSUME NEW f \in Folders, ListPage(w, f)  PROVE \A v \in Workers : HandKept(v)
  <2> DEFINE it == <<"folder", f>>
             l == [loc[w] EXCEPT !.item = it, !.listing = PageOfFolder(f)]
  <2>1. it \in Items /\ Performs(w, "folder", f) /\ UNCHANGED holder
    BY <1>3 DEF ListPage, Items
  <2>2. CASE Goto(w, "listed") /\ Keep(w, l)
    <3>1. l.item = it /\ l.listing = PageOfFolder(f) /\ l.run = loc[w].run
      BY <1>0 DEF Locals
    <3> HIDE DEF l
    <3>2. Took(w) /\ Key(w)' = f /\ loc'[w] = l
      BY <2>1, <2>2, <3>1, TookItem
    <3>3. (\A v \in Workers \ {w} : Stays(v)) /\ pc'[w] = "listed"
      BY <2>1, <2>2, OthersStay
    <3>4. HandKept(w)
      BY <2>1, <3>1, <3>2, <3>3 DEF HandKept, Handed, Extraction
    <3> QED  BY <3>3, <3>4, StayedKept
  <2>3. CASE Fault(w, it, "source")
    BY <2>1, <2>3, FaultHands
  <2>4. CASE CallFails(w, it)
    BY <2>1, <2>4, CallFailsHands
  <2> QED  BY <1>3, <2>2, <2>3, <2>4 DEF ListPage
<1>4. CASE RefusePage(w)
  BY <1>4, FaultHands DEF RefusePage, Handed
<1> QED  BY <1>1, <1>2, <1>3, <1>4 DEF Enumerating

\* A worker that extracts a document goes on with it.
LEMMA GoesOnHands ==
  ASSUME Typed, NEW w \in Workers, pc[w] \in Extraction, UNCHANGED holder,
         NEW step \in Extraction, Goto(w, step), NEW l, l.item = loc[w].item,
         l.run = loc[w].run, Keep(w, l)
  PROVE  \A v \in Workers : HandKept(v)
<1>1. (\A v \in Workers \ {w} : Stays(v)) /\ pc'[w] = step
  BY OthersStay
<1>2. loc'[w] = l
  BY DEF Keep, Typed, TypeOK, WorkerTypes
<1>3. HandKept(w)
  BY <1>1, <1>2 DEF HandKept, HeldOn, Handed, Extraction
<1> QED  BY <1>1, <1>3, StayedKept

LEMMA ExtractingHands ==
  ASSUME Typed, NEW w \in Workers, Extracting(w)
  PROVE  \A v \in Workers : HandKept(v)
<1>0. loc[w] \in Locals /\ loc = [loc EXCEPT ![w] = loc[w]]
  BY AtWork DEF Typed, TypeOK, WorkerTypes
<1>1. ASSUME NEW d \in Docs, BeginExtract(w, d)  PROVE \A v \in Workers : HandKept(v)
  <2> DEFINE it == <<"document", d>>
             l == [loc[w] EXCEPT !.item = it]
  <2>1. /\ it \in Items /\ Performs(w, "document", d) /\ UNCHANGED holder /\ Extractable(d)
        /\ Goto(w, "fetch") /\ Keep(w, l)
    BY <1>1 DEF BeginExtract, Items
  <2>2. l.item = it /\ l.run = loc[w].run
    BY <1>0 DEF Locals
  <2> HIDE DEF l
  <2>3. Took(w) /\ Key(w)' = d
    BY <2>1, <2>2, TookItem
  <2>4. (\A v \in Workers \ {w} : Stays(v)) /\ pc'[w] = "fetch"
    BY <2>1, OthersStay
  <2>5. HandKept(w)
    BY <2>1, <2>3, <2>4 DEF HandKept, Handed, Extraction
  <2> QED  BY <2>4, <2>5, StayedKept
<1>2. CASE FetchBefore(w) \/ FetchBlocks(w) \/ FetchMedia(w) \/ FetchAfter(w)
  <2>1. UNCHANGED holder /\ pc[w] \in Extraction
    BY <1>2 DEF FetchBefore, FetchBlocks, FetchMedia, FetchAfter, Extraction
  <2>2. \/ \E step \in Extraction : \E field, value : Goto(w, step) /\ Read(w, field, value)
        \/ \E step \in Extraction : Goto(w, step) /\ UNCHANGED loc
        \/ Goto(w, "fetch")
           /\ Keep(w, [loc[w] EXCEPT !.draft = NoDraft, !.attempt = loc[w].attempt + 1])
        \/ \E f \in {"other", "source"} : Fault(w, loc[w].item, f)
        \/ access[Key(w)] = "denied" /\ Fault(w, loc[w].item, "denied")
        \/ DocumentFails(w, Key(w))
    BY <1>2 DEF FetchBefore, FetchBlocks, FetchMedia, FetchAfter, Extraction
  <2>3. CASE \E step \in Extraction : \E field, value : Goto(w, step) /\ Read(w, field, value)
    <3>1. PICK step \in Extraction : \E field, value : Goto(w, step) /\ Read(w, field, value)
      BY <2>3
    <3>a. PICK field, value : Goto(w, step) /\ Read(w, field, value)
      BY <3>1
    <3> DEFINE l == [loc[w] EXCEPT !.draft[field] = value]
    <3>2. l.item = loc[w].item /\ l.run = loc[w].run
      BY <1>0 DEF Locals
    <3>3. Keep(w, l)
      BY <3>a DEF Read
    <3> HIDE DEF l
    <3> QED  BY <2>1, <3>1, <3>2, <3>3, GoesOnHands
  <2>4. CASE \E step \in Extraction : Goto(w, step) /\ UNCHANGED loc
    <3>1. Keep(w, loc[w])
      BY <1>0, <2>4 DEF Keep
    <3> QED  BY <2>1, <2>4, <3>1, GoesOnHands
  <2>5. CASE Goto(w, "fetch")
             /\ Keep(w, [loc[w] EXCEPT !.draft = NoDraft, !.attempt = loc[w].attempt + 1])
    <3> DEFINE l == [loc[w] EXCEPT !.draft = NoDraft, !.attempt = loc[w].attempt + 1]
    <3>1. l.item = loc[w].item /\ l.run = loc[w].run /\ Goto(w, "fetch") /\ Keep(w, l)
      BY <1>0, <2>5 DEF Locals
    <3> HIDE DEF l
    <3> QED  BY <2>1, <3>1, GoesOnHands DEF Extraction
  <2>6. CASE (\E f \in {"other", "source"} : Fault(w, loc[w].item, f))
             \/ (access[Key(w)] = "denied" /\ Fault(w, loc[w].item, "denied"))
    BY <2>1, <2>6, FaultHands DEF Handed
  <2>7. CASE DocumentFails(w, Key(w))
    BY <2>1, <2>7, DocumentFailsHands
  <2> QED  BY <2>2, <2>3, <2>4, <2>5, <2>6, <2>7
<1>3. CASE Stage(w) \/ Verify(w) \/ BeginIndex(w) \/ Index(w)
  <2>1. UNCHANGED holder /\ pc[w] \in Extraction
    BY <1>3 DEF Stage, Verify, BeginIndex, Index, Extraction
  <2>2. \/ Again(w)
        \/ Fault(w, loc[w].item, "other")
        \/ \E step \in Extraction : Goto(w, step) /\ UNCHANGED loc
    BY <1>3 DEF Stage, Verify, BeginIndex, Index, Extraction
  <2>3. CASE \E step \in Extraction : Goto(w, step) /\ UNCHANGED loc
    <3>1. Keep(w, loc[w])
      BY <1>0, <2>3 DEF Keep
    <3> QED  BY <2>1, <2>3, <3>1, GoesOnHands
  <2>4. CASE Fault(w, loc[w].item, "other")
    BY <2>1, <2>4, FaultHands DEF Handed
  <2>5. CASE Again(w)
    BY <2>1, <2>5, OthersStay DEF Again, Handed, Extraction
  <2> QED  BY <2>2, <2>3, <2>4, <2>5
<1>4. CASE (\E d \in Docs : SkipDocument(w, d)) \/ Publish(w) \/ EndExtract(w)
  <2>1. UNCHANGED holder /\ Again(w)
    BY <1>4 DEF SkipDocument, Publish, EndExtract
  <2> QED  BY <2>1, OthersStay DEF Again, Handed, Extraction
<1> QED  BY <1>1, <1>2, <1>3, <1>4 DEF Extracting

LEMMA ReconcilingHands ==
  ASSUME Typed, NEW w \in Workers, Reconciling(w)
  PROVE  \A v \in Workers : HandKept(v)
<1>0. loc[w] \in Locals
  BY AtWork
<1>1. CASE QueueMissing(w) \/ Confirm(w) \/ Finish(w)
  <2>1. UNCHANGED holder /\ (Again(w) \/ Leave(w))
    BY <1>1 DEF QueueMissing, Confirm, Finish
  <2> QED  BY <2>1, OthersStay DEF Again, Leave, Handed, Extraction
<1>2. ASSUME NEW n \in Nodes, LookUp(w, n)  PROVE \A v \in Workers : HandKept(v)
  <2> DEFINE it == <<"confirmation", n>>
             l == [loc[w] EXCEPT !.item = it, !.reply = ReplyFor(n)]
  <2>1. it \in Items /\ Performs(w, "confirmation", n) /\ UNCHANGED holder
    BY <1>2 DEF LookUp, Items
  <2>2. CASE Goto(w, "looked") /\ Keep(w, l)
    <3>1. l.item = it /\ l.reply = ReplyFor(n) /\ l.run = loc[w].run
      BY <1>0 DEF Locals
    <3> HIDE DEF l
    <3>2. Took(w) /\ Key(w)' = n /\ loc'[w] = l
      BY <2>1, <2>2, <3>1, TookItem
    <3>3. (\A v \in Workers \ {w} : Stays(v)) /\ pc'[w] = "looked"
      BY <2>1, <2>2, OthersStay
    <3>4. HandKept(w)
      BY <2>1, <3>1, <3>2, <3>3 DEF HandKept, Handed, Extraction
    <3> QED  BY <3>3, <3>4, StayedKept
  <2>3. CASE CallFails(w, it)
    BY <2>1, <2>3, CallFailsHands
  <2> QED  BY <1>2, <2>2, <2>3 DEF LookUp
<1> QED  BY <1>1, <1>2 DEF Reconciling

LEMMA HandsStep ==
  ASSUME Typed, [Next]_vars
  PROVE  \A v \in Workers : HandKept(v)
<1>1. ASSUME NEW w \in Workers, Progress(w) \/ Yield(w) \/ Crash(w)
      PROVE  \A v \in Workers : HandKept(v)
  BY <1>1, FrameHands, EnumeratingHands, ExtractingHands, ReconcilingHands DEF Progress
<1>2. CASE Expire \/ Time \/ Requests \/ Space \/ UNCHANGED vars
  <2>1. UNCHANGED <<pc, loc>>
    BY <1>2 DEF Expire, Time, Due, Requests, Enqueue, Space, Edit, Move, Retarget, Rescope,
                ChangeAccess, Close, Reopen, vars, workerVars
  <2>2. holder' \in {holder, NoWorker}
    BY <1>2 DEF Expire, Time, Due, Requests, Enqueue, Space, Edit, Move, Retarget, Rescope,
                ChangeAccess, Close, Reopen, vars, workerVars
  <2>3. \A v \in Workers : Stays(v)
    BY <2>1, <2>2, SyncAssumption DEF SyncAssumption, Stays
  <2> QED  BY <2>3, StayedKept
<1> QED  BY <1>1, <1>2 DEF Next, Failure
-----------------------------------------------------------------------------

(***************************************************************************)
(* The active run                                                          *)
(***************************************************************************)

\* The worker that holds the lease is on the active run, whatever it is doing.
HolderOnActive == \A w \in Workers : holder = w /\ pc[w] \in Busy => activeRun = loc[w].run
\* Runs not yet requested have no status.
FutureAbsent == \A r \in RunIds : r > lastRun => status[r] = "absent"

RunsInv == Typed /\ RunningIsActive /\ HolderOnActive /\ FutureAbsent

\* Nobody gets to work, takes the lease while at work, or changes the run it is on.
Carries ==
  \A v \in Workers : pc'[v] \in Busy =>
    pc[v] \in Busy /\ loc'[v].run = loc[v].run /\ (holder' = v => holder = v)

Quiet == UNCHANGED <<activeRun, lastRun, status>> /\ Carries

LEMMA QuietStep == RunsInv /\ Quiet /\ Typed' => RunsInv'
BY DEF RunsInv, Quiet, Carries, RunningIsActive, HolderOnActive, FutureAbsent

\* What a worker's step does to the workers.
LEMMA Carried ==
  ASSUME Typed, NEW w \in Workers, NEW step \in Steps, NEW l \in Locals,
         Goto(w, step), Keep(w, l), UNCHANGED holder,
         step \in Busy => pc[w] \in Busy /\ l.run = loc[w].run
  PROVE  Carries
BY DEF Typed, TypeOK, WorkerTypes, Goto, Keep, Carries

LEMMA CarriedStill ==
  ASSUME Typed, NEW w \in Workers, NEW step \in Steps,
         Goto(w, step), UNCHANGED <<loc, holder>>, step \in Busy => pc[w] \in Busy
  PROVE  Carries
BY DEF Typed, TypeOK, WorkerTypes, Goto, Carries

LEMMA CarriedAgain ==
  ASSUME Typed, NEW w \in Workers, pc[w] \in Busy, UNCHANGED holder, Again(w) \/ Leave(w)
  PROVE  Carries
<1>1. loc[w].run \in RunIds
  BY AtWork
<1>2. CASE Again(w)
  BY <1>1, <1>2, FreshTyped, Carried DEF Again, Steps
<1>3. CASE Leave(w)
  BY <1>3, FreshTyped, Carried DEF Leave, Steps, Busy
<1> QED  BY <1>2, <1>3

LEMMA CarriedFault ==
  ASSUME Typed, NEW w \in Workers, pc[w] \in Busy, UNCHANGED holder,
         NEW it, NEW f, Fault(w, it, f) \/ Fail(w, f)
  PROVE  Carries
<1>1. loc[w].run \in RunIds /\ loc[w] \in Locals
  BY AtWork
<1>2. [loc[w] EXCEPT !.item = it, !.fault = f].run = loc[w].run
  BY <1>1 DEF Locals
<1>3. [Fresh(loc[w].run) EXCEPT !.fault = f].run = loc[w].run
  BY <1>1 DEF Fresh
<1> QED
  BY <1>1, <1>2, <1>3 DEF Fault, Fail, Typed, TypeOK, WorkerTypes, Goto, Keep, Carries

LEMMA AtWorkLoop ==
  ASSUME NEW w \in Workers,
         \/ Handling(w) \/ Enumerating(w) \/ Extracting(w) \/ Reconciling(w)
         \/ StopLoop(w) \/ NotDue(w) \/ Yield(w)
  PROVE  pc[w] \in Busy
<1> USE DEF Busy, Steps, InPhase, Performs
<1>1. Handling(w) => pc[w] \in Busy
  BY DEF Handling, GiveUpRun, TakeOffline, RetryLater, ItemFails, FailRun
<1>2. Enumerating(w) => pc[w] \in Busy
  BY DEF Enumerating, Resolve, Validate, ListPage, Discover, RefusePage, EndEnumerate
<1>3. Extracting(w) => pc[w] \in Busy
  BY DEF Extracting, SkipDocument, BeginExtract, FetchBefore, FetchBlocks, FetchMedia, FetchAfter,
         Stage, Verify, BeginIndex, Index, Publish, EndExtract
<1>4. Reconciling(w) => pc[w] \in Busy
  BY DEF Reconciling, QueueMissing, LookUp, Confirm, Finish
<1> QED
  BY <1>1, <1>2, <1>3, <1>4 DEF StopLoop, NotDue, Yield

LEMMA CallFailsCarries ==
  ASSUME Typed, NEW w \in Workers, pc[w] \in Busy, UNCHANGED holder, NEW it,
         CallFails(w, it) \/ DocumentFails(w, it)
  PROVE  Carries
BY CarriedFault DEF CallFails, DocumentFails

LEMMA FrameRuns ==
  ASSUME RunsInv, NEW w \in Workers, Frame(w) \/ Yield(w) \/ Crash(w), Typed'
  PROVE  RunsInv'
<1> USE DEF dbVars, sourceVars, runVars
<1>0. Typed
  BY DEF RunsInv
<1>1. CASE Acquire(w)
  <2>1. Carries
    BY <1>0, <1>1 DEF Acquire, Goto, Carries, Typed, TypeOK, WorkerTypes, Busy
  <2> QED  BY <1>1, <2>1, QuietStep DEF Acquire, Quiet
<1>2. CASE Pick(w)
  <2>0. \A v \in Workers : v # w => pc'[v] = pc[v] /\ loc'[v] = loc[v]
    BY <1>0, <1>2 DEF Pick, Leave, Goto, Keep, Typed, TypeOK, WorkerTypes
  <2>1. CASE Leave(w) /\ UNCHANGED <<activeRun, status>>
    <3>1. Carries
      BY <1>0, <1>2, <2>1, Carried, FreshTyped DEF Pick, Leave, Steps, Busy
    <3> QED  BY <1>2, <2>1, <3>1, QuietStep DEF Pick, Quiet
  <2>2. ASSUME NEW r \in Current, activeRun' = r,
               status' = [status EXCEPT ![r] = "running"], Goto(w, "loop"), Keep(w, Fresh(r))
        PROVE  RunsInv'
    <3>1. r \in RunIds /\ status[r] \in {"queued", "running"}
      BY <1>0 DEF Current, Queued, Typed, TypeOK, SourceTypes, NoRun
    <3>2. ASSUME NEW q \in RunIds, status[q] = "running"  PROVE q = r
      <4>1. activeRun = q /\ activeRun # NoRun
        BY <3>2, Bounds DEF RunsInv, RunningIsActive
      <4>2. Current = {activeRun}
        BY <3>2, <4>1 DEF Current
      <4> QED  BY <4>1, <4>2, <2>2
    <3>3. \A q \in RunIds : status'[q] = IF q = r THEN "running" ELSE status[q]
      BY <1>0, <2>2, <3>1 DEF Typed, TypeOK, RunTypes
    <3>4. RunningIsActive' /\ FutureAbsent'
      BY <1>2, <2>2, <3>1, <3>2, <3>3 DEF RunsInv, RunningIsActive, FutureAbsent, Pick
    <3>5. HolderOnActive'
      <4>1. holder' = w /\ loc'[w].run = r
        BY <1>0, <1>2, <2>2
        DEF Pick, MayCommit, Keep, Fresh, Typed, TypeOK, WorkerTypes
      <4> QED  BY <2>2, <4>1 DEF HolderOnActive
    <3> QED  BY <3>4, <3>5 DEF RunsInv
  <2> QED  BY <1>2, <2>1, <2>2 DEF Pick
<1>3. CASE StopLoop(w) \/ NotDue(w) \/ Yield(w)
  <2>1. Carries
    BY <1>0, <1>3, AtWorkLoop, CarriedAgain DEF StopLoop, NotDue, Yield
  <2> QED  BY <1>3, <2>1, QuietStep DEF StopLoop, NotDue, Yield, Quiet
<1>4. CASE LeaseLost(w) \/ Crash(w)
  <2>1. Carries
    BY <1>0, <1>4, FreshTyped, Carried DEF LeaseLost, Crash, Steps, Busy
  <2> QED  BY <1>4, <2>1, QuietStep DEF LeaseLost, Crash, Quiet
<1>5. CASE Release(w)
  <2>1. Carries
    BY <1>0, <1>5, SyncAssumption
    DEF SyncAssumption, Release, Goto, Carries, Typed, TypeOK, WorkerTypes, Busy
  <2> QED  BY <1>5, <2>1, QuietStep DEF Release, Quiet
<1> QED  BY <1>1, <1>2, <1>3, <1>4, <1>5 DEF Frame

\* A run that ends under the lease is the active one, and none is active after it.
LEMMA EndOfRun ==
  ASSUME RunsInv, NEW w \in Workers, holder = w, pc[w] \in Busy, NEW outcome \in Ended,
         activeRun' = NoRun, Leave(w), UNCHANGED holder, Typed',
         \/ /\ status' = [status EXCEPT ![loc[w].run] = outcome]
            /\ UNCHANGED lastRun
         \/ /\ lastRun' = lastRun + 1
            /\ status' = [status EXCEPT ![loc[w].run] = outcome, ![lastRun + 1] = "queued"]
  PROVE  RunsInv'
<1>0. Typed /\ loc[w].run \in RunIds /\ loc[w].run = activeRun
  BY AtWork DEF RunsInv, HolderOnActive
<1>1. \A q \in RunIds : status[q] = "running" <=> q = loc[w].run
  BY <1>0 DEF RunsInv, RunningIsActive
<1>2. \A q \in RunIds : status'[q] # "running"
  BY <1>0, <1>1 DEF Typed, TypeOK, RunTypes, Ended
<1>3. RunningIsActive'
  BY <1>2, Bounds DEF RunningIsActive
<1>4. HolderOnActive'
  <2>1. pc'[w] \notin Busy
    BY <1>0 DEF Leave, Goto, Busy, Typed, TypeOK, WorkerTypes
  <2> QED  BY <2>1 DEF HolderOnActive
<1>5. FutureAbsent'
  <2>1. loc[w].run <= lastRun /\ lastRun \in Int
    BY <1>0, <1>1, Bounds DEF RunsInv, FutureAbsent, RunIds, NoRun, Typed, TypeOK, RunTypes
  <2>2. ASSUME NEW q \in RunIds, q > lastRun'  PROVE status'[q] = "absent"
    <3>1. q > lastRun /\ q # loc[w].run /\ (status'[q] = status[q])
      BY <1>0, <2>1, <2>2 DEF Typed, TypeOK, RunTypes, RunIds
    <3> QED  BY <3>1 DEF RunsInv, FutureAbsent
  <2> QED  BY <2>2 DEF FutureAbsent
<1> QED  BY <1>3, <1>4, <1>5 DEF RunsInv

LEMMA HandlingRuns ==
  ASSUME RunsInv, NEW w \in Workers, Handling(w), Typed'
  PROVE  RunsInv'
<1> USE DEF dbVars, sourceVars, runVars
<1>0. Typed /\ pc[w] \in Busy
  BY AtWorkLoop DEF RunsInv
<1>1. CASE FailRun(w)
  BY <1>0, <1>1, EndOfRun DEF FailRun, MayCommit, Ended
<1>2. CASE GiveUpRun(w) \/ TakeOffline(w) \/ RetryLater(w) \/ ItemFails(w)
  <2>1. Carries
    BY <1>0, <1>2, CarriedAgain, CarriedFault DEF GiveUpRun, TakeOffline, RetryLater, ItemFails
  <2> QED
    BY <1>2, <2>1, QuietStep DEF GiveUpRun, TakeOffline, RetryLater, ItemFails, Quiet
<1> QED  BY <1>1, <1>2 DEF Handling

LEMMA EnumeratingRuns ==
  ASSUME RunsInv, NEW w \in Workers, Enumerating(w), Typed'
  PROVE  RunsInv'
<1> USE DEF dbVars, sourceVars, runVars
<1>0. Typed /\ pc[w] \in Busy /\ loc[w] \in Locals
  BY AtWorkLoop, AtWork DEF RunsInv
<1>1. CASE Resolve(w)
  <2>1. Carries
    BY <1>0, <1>1, CarriedStill, CarriedFault DEF Resolve, Steps
  <2> QED  BY <1>1, <2>1, QuietStep DEF Resolve, Quiet
<1>2. CASE Validate(w) \/ Discover(w) \/ EndEnumerate(w)
  <2>1. Carries
    BY <1>0, <1>2, CarriedAgain DEF Validate, Discover, EndEnumerate
  <2>2. UNCHANGED <<activeRun, lastRun, status>>
    BY <1>2 DEF Validate, Discover, EndEnumerate
  <2> QED  BY <2>1, <2>2, QuietStep DEF Quiet
<1>3. ASSUME NEW f \in Folders, ListPage(w, f)  PROVE RunsInv'
  <2> DEFINE l == [loc[w] EXCEPT !.item = <<"folder", f>>, !.listing = PageOfFolder(f)]
  <2>1. CASE Goto(w, "listed") /\ Keep(w, l)
    <3>1. l.run = loc[w].run
      BY <1>0 DEF Locals
    <3>2. Carries
      BY <1>0, <1>3, <2>1, <3>1 DEF ListPage, Goto, Keep, Carries, Typed, TypeOK, WorkerTypes
    <3> QED  BY <1>3, <3>2, QuietStep DEF ListPage, Quiet
  <2>2. CASE Fault(w, <<"folder", f>>, "source") \/ CallFails(w, <<"folder", f>>)
    <3>1. Carries
      BY <1>0, <1>3, <2>2, CarriedFault, CallFailsCarries DEF ListPage
    <3> QED  BY <1>3, <3>1, QuietStep DEF ListPage, Quiet
  <2> QED  BY <1>3, <2>1, <2>2 DEF ListPage
<1>4. CASE RefusePage(w)
  <2>1. Carries
    BY <1>0, <1>4, CarriedFault DEF RefusePage
  <2> QED  BY <1>4, <2>1, QuietStep DEF RefusePage, Quiet
<1> QED  BY <1>1, <1>2, <1>3, <1>4 DEF Enumerating

LEMMA ExtractingRuns ==
  ASSUME RunsInv, NEW w \in Workers, Extracting(w), Typed'
  PROVE  RunsInv'
<1> USE DEF dbVars, sourceVars, runVars
<1>0. Typed /\ pc[w] \in Busy /\ loc[w] \in Locals
  BY AtWorkLoop, AtWork DEF RunsInv
<1>1. UNCHANGED <<activeRun, lastRun, status>>
  BY DEF Extracting, SkipDocument, BeginExtract, FetchBefore, FetchBlocks, FetchMedia, FetchAfter,
         Stage, Verify, BeginIndex, Index, Publish, EndExtract
<1> SUFFICES Carries
  BY <1>1, QuietStep DEF Quiet
<1>2. ASSUME NEW d \in Docs, SkipDocument(w, d) \/ BeginExtract(w, d)  PROVE Carries
  <2>1. [loc[w] EXCEPT !.item = <<"document", d>>].run = loc[w].run
    BY <1>0 DEF Locals
  <2>2. CASE SkipDocument(w, d)
    BY <1>0, <2>2, CarriedAgain DEF SkipDocument
  <2>3. CASE BeginExtract(w, d)
    BY <1>0, <2>1, <2>3
    DEF BeginExtract, Goto, Keep, Carries, Typed, TypeOK, WorkerTypes
  <2> QED  BY <1>2, <2>2, <2>3
<1>3. CASE FetchBefore(w) \/ FetchBlocks(w) \/ FetchMedia(w) \/ FetchAfter(w)
  <2>1. UNCHANGED holder
    BY <1>3 DEF FetchBefore, FetchBlocks, FetchMedia, FetchAfter
  <2>2. \/ \E step, field, value : Goto(w, step) /\ Read(w, field, value)
        \/ \E step : Goto(w, step) /\ UNCHANGED loc
        \/ Goto(w, "fetch")
           /\ Keep(w, [loc[w] EXCEPT !.draft = NoDraft, !.attempt = loc[w].attempt + 1])
        \/ \E it, f : Fault(w, it, f)
        \/ DocumentFails(w, Key(w))
    BY <1>3 DEF FetchBefore, FetchBlocks, FetchMedia, FetchAfter
  <2>3. ASSUME NEW field, NEW value
        PROVE  [loc[w] EXCEPT !.draft[field] = value].run = loc[w].run
    BY <1>0 DEF Locals
  <2>4. [loc[w] EXCEPT !.draft = NoDraft, !.attempt = loc[w].attempt + 1].run = loc[w].run
    BY <1>0 DEF Locals
  <2>5. ASSUME NEW step, NEW l, Goto(w, step), l.run = loc[w].run, Keep(w, l) \/ UNCHANGED loc
        PROVE  Carries
    BY <1>0, <2>1, <2>5 DEF Goto, Keep, Carries, Typed, TypeOK, WorkerTypes
  <2>6. CASE \E step, field, value : Goto(w, step) /\ Read(w, field, value)
    BY <2>3, <2>5, <2>6 DEF Read
  <2>7. CASE \E step : Goto(w, step) /\ UNCHANGED loc
    BY <2>5, <2>7
  <2>8. CASE Goto(w, "fetch")
             /\ Keep(w, [loc[w] EXCEPT !.draft = NoDraft, !.attempt = loc[w].attempt + 1])
    BY <2>4, <2>5, <2>8
  <2> QED  BY <1>0, <2>1, <2>2, <2>6, <2>7, <2>8, CarriedFault, CallFailsCarries
<1>4. CASE Stage(w) \/ Verify(w) \/ BeginIndex(w) \/ Index(w)
  <2>1. UNCHANGED holder
    BY <1>4 DEF Stage, Verify, BeginIndex, Index
  <2>2. \/ Again(w)
        \/ \E it, f : Fault(w, it, f)
        \/ \E step \in Steps : Goto(w, step) /\ UNCHANGED loc
    BY <1>4 DEF Stage, Verify, BeginIndex, Index, Steps
  <2> QED  BY <1>0, <2>1, <2>2, CarriedAgain, CarriedFault, CarriedStill
<1>5. CASE Publish(w) \/ EndExtract(w)
  BY <1>0, <1>5, CarriedAgain DEF Publish, EndExtract
<1> QED  BY <1>2, <1>3, <1>4, <1>5 DEF Extracting

LEMMA ReconcilingRuns ==
  ASSUME RunsInv, NEW w \in Workers, Reconciling(w), Typed'
  PROVE  RunsInv'
<1> USE DEF dbVars, sourceVars, runVars
<1>0. Typed /\ pc[w] \in Busy /\ loc[w] \in Locals
  BY AtWorkLoop, AtWork DEF RunsInv
<1>1. CASE QueueMissing(w) \/ Confirm(w)
  <2>1. Carries
    BY <1>0, <1>1, CarriedAgain DEF QueueMissing, Confirm
  <2>2. UNCHANGED <<activeRun, lastRun, status>>
    BY <1>1 DEF QueueMissing, Confirm
  <2> QED  BY <2>1, <2>2, QuietStep DEF Quiet
<1>2. ASSUME NEW n \in Nodes, LookUp(w, n)  PROVE RunsInv'
  <2> DEFINE l == [loc[w] EXCEPT !.item = <<"confirmation", n>>, !.reply = ReplyFor(n)]
  <2>1. l.run = loc[w].run
    BY <1>0 DEF Locals
  <2>2. CASE Goto(w, "looked") /\ Keep(w, l)
    <3>1. Carries
      BY <1>0, <1>2, <2>1, <2>2 DEF LookUp, Goto, Keep, Carries, Typed, TypeOK, WorkerTypes
    <3> QED  BY <1>2, <3>1, QuietStep DEF LookUp, Quiet
  <2>3. CASE CallFails(w, <<"confirmation", n>>)
    <3>1. Carries
      BY <1>0, <1>2, <2>3, CallFailsCarries DEF LookUp
    <3> QED  BY <1>2, <3>1, QuietStep DEF LookUp, Quiet
  <2> QED  BY <1>2, <2>2, <2>3 DEF LookUp
<1>3. CASE Finish(w)
  <2>1. Outcome \in Ended
    BY DEF Outcome, Ended
  <2>2. \/ /\ status' = [status EXCEPT ![loc[w].run] = Outcome]
           /\ UNCHANGED lastRun
        \/ /\ lastRun' = lastRun + 1
           /\ status' = [status EXCEPT ![loc[w].run] = Outcome, ![lastRun + 1] = "queued"]
    BY <1>3 DEF Finish
  <2> QED  BY <1>0, <1>3, <2>1, <2>2, EndOfRun DEF Finish, MayCommit
<1> QED  BY <1>1, <1>2, <1>3 DEF Reconciling

LEMMA EnvironmentRuns ==
  ASSUME RunsInv, Expire \/ Time \/ Requests \/ Space, Typed'
  PROVE  RunsInv'
<1> USE DEF dbVars, sourceVars, runVars, workerVars
<1>1. CASE Expire
  <2>1. Carries
    BY <1>1, SyncAssumption DEF SyncAssumption, Expire, Carries
  <2> QED  BY <1>1, <2>1, QuietStep DEF Expire, Quiet
<1>2. CASE Time
  BY <1>2, QuietStep DEF Time, Due, Quiet, Carries
<1>3. CASE Requests
  <2>1. PICK m \in {"full", "incremental"} : Enqueue(m)
    BY <1>3 DEF Requests
  <2>2. lastRun \in Int /\ lastRun + 1 \in RunIds /\ status[lastRun + 1] = "absent"
    BY <2>1, Bounds DEF Enqueue, RunsInv, FutureAbsent, RunIds, NoRun, Typed, TypeOK, RunTypes
  <2>3. \A q \in RunIds : status'[q] = IF q = lastRun + 1 THEN "queued" ELSE status[q]
    BY <2>1 DEF Enqueue, RunsInv, Typed, TypeOK, RunTypes
  <2>4. RunningIsActive'
    BY <2>1, <2>2, <2>3 DEF Enqueue, RunsInv, RunningIsActive
  <2>5. FutureAbsent'
    BY <2>1, <2>2, <2>3 DEF Enqueue, RunsInv, FutureAbsent, RunIds
  <2>6. HolderOnActive'
    BY <2>1 DEF Enqueue, RunsInv, HolderOnActive
  <2> QED  BY <2>4, <2>5, <2>6 DEF RunsInv
<1>4. CASE Space
  <2>1. UNCHANGED <<dbVars, workerVars>>
    BY <1>4 DEF Space, Edit, Move, Retarget, Rescope, ChangeAccess, Close, Reopen
  <2> QED  BY <2>1, QuietStep DEF Quiet, Carries
<1> QED  BY <1>1, <1>2, <1>3, <1>4

LEMMA RunsStep == RunsInv /\ [Next]_vars => RunsInv'
<1> SUFFICES ASSUME RunsInv, [Next]_vars PROVE RunsInv'
  OBVIOUS
<1>0. Typed'
  BY NextTyped DEF RunsInv
<1>1. ASSUME NEW w \in Workers, Progress(w)  PROVE RunsInv'
  BY <1>0, <1>1, FrameRuns, HandlingRuns, EnumeratingRuns, ExtractingRuns, ReconcilingRuns
  DEF Progress
<1>2. CASE Failure \/ Time \/ Requests \/ Space
  BY <1>0, <1>2, FrameRuns, EnvironmentRuns DEF Failure
<1>3. CASE UNCHANGED vars
  BY <1>0, <1>3, QuietStep DEF vars, dbVars, sourceVars, runVars, workerVars, Quiet, Carries
<1> QED  BY <1>1, <1>2, <1>3 DEF Next

\* One run at a time is worked on, and the source knows which: no crash, takeover,
\* request or failure leaves a running run that no worker would pick up, and none
\* ends a run other than the one it works on.
THEOREM OneRunAtATime == Spec => []RunningIsActive
<1>1. Init => RunsInv
  BY InitTyped, Bounds
  DEF Init, RunsInv, RunningIsActive, HolderOnActive, FutureAbsent, Busy
<1>2. RunsInv => RunningIsActive
  BY DEF RunsInv
<1> QED  BY <1>1, <1>2, RunsStep, PTL DEF Spec

-----------------------------------------------------------------------------
(***************************************************************************)
(* What a worker has read of the document it extracts                      *)
(***************************************************************************)

Checked == {"ready", "staged", "indexing", "verified"}
Drafting == {"blocks", "media", "after"} \cup Checked
WholeSteps == Checked \ {"ready"}

\* The parts are read in order from a document that only moves on, now at revision
\* now; once the second revision number agrees with the first, so do the parts.
Sound(step, dr, now) ==
  /\ step \in Drafting => dr.before <= now
  /\ step \in {"media", "after"} => dr.before <= dr.blocks /\ dr.blocks <= now
  /\ step = "after" => dr.media = Lost \/ (dr.blocks <= dr.media /\ dr.media <= now)
  /\ step \in Checked => dr.blocks = dr.before /\ dr.media \in {dr.before, Lost}
  /\ step \in WholeSteps => dr.media # Lost

DraftsSound == \A w \in Workers : Sound(pc[w], loc[w].draft, content[Key(w)])
Stored == \A w \in Workers : pc[w] \in WholeSteps => Extracted(w) \in revisions

\* What was published last is no newer than the document, and no newer than what the
\* holder of the lease has read of it.
NoneNewer ==
  \A d \in Docs : activeRev[d] # NoRev =>
    /\ activeRev[d].blocks <= content[d]
    /\ \A w \in Workers : holder = w /\ pc[w] \in Drafting /\ Key(w) = d =>
         activeRev[d].blocks <= loc[w].draft.before

DraftInv == Typed /\ PublishedIsWhole /\ DraftsSound /\ Stored /\ NoneNewer

Publications == <<activeRev, published, revisions>>

\* A draft is kept as it is or dropped, and no one takes the lease with a draft.
DraftKept(v) ==
  pc'[v] \in Drafting =>
    /\ pc'[v] = pc[v] /\ loc'[v].draft = loc[v].draft /\ loc'[v].item = loc[v].item
    /\ holder' = v => holder = v

DraftTypes ==
  \A w \in Workers : pc[w] \in Drafting =>
    /\ Key(w) \in Docs /\ loc[w].draft \in Drafts
    /\ loc[w].draft.before \in Int /\ loc[w].draft.blocks \in Int /\ loc[w].draft.media \in Int

LEMMA DraftTyped == Typed => DraftTypes
<1> SUFFICES ASSUME Typed, NEW w \in Workers, pc[w] \in Drafting
             PROVE  /\ Key(w) \in Docs /\ loc[w].draft \in Drafts
                    /\ loc[w].draft.before \in Int /\ loc[w].draft.blocks \in Int
                    /\ loc[w].draft.media \in Int
  BY DEF DraftTypes
<1>1. Key(w) \in Docs /\ loc[w].draft \in Drafts
  BY AtWork DEF Drafting, Checked, Extraction, Locals
<1> QED  BY <1>1, Bounds DEF Drafts, Lost

\* Steps that leave the drafts, the publications and the documents alone.
LEMMA DraftsKept ==
  ASSUME DraftInv, Typed', UNCHANGED Publications, \A v \in Workers : DraftKept(v),
         content' = content
  PROVE  DraftInv'
<1>1. PublishedIsWhole'
  BY DEF DraftInv, PublishedIsWhole, Publications
<1>2. DraftsSound'
  BY DEF DraftInv, DraftsSound, Sound, DraftKept, Drafting, Checked, WholeSteps, Key
<1>3. Stored'
  BY DEF DraftInv, Stored, DraftKept, Drafting, Checked, WholeSteps, Key, Extracted, Publications
<1>4. NoneNewer'
  BY DEF DraftInv, NoneNewer, DraftKept, Key, Publications
<1> QED  BY <1>1, <1>2, <1>3, <1>4 DEF DraftInv

\* A document is edited.
LEMMA EditDraft ==
  ASSUME DraftInv, Typed', NEW d \in Docs, Edit(d)
  PROVE  DraftInv'
<1>1. UNCHANGED <<Publications, workerVars>>
  BY DEF Edit, dbVars, docVars, revVars, Publications
<1>2. \A e \in Docs : content[e] \in Int /\ content'[e] \in Int /\ content[e] <= content'[e]
  BY Bounds DEF Edit, DraftInv, Typed, TypeOK, SpaceTypes
<1>3. DraftTypes /\ \A e \in Docs : activeRev[e] # NoRev => activeRev[e].blocks \in Int
  BY DraftTyped, Bounds DEF DraftInv, Typed, TypeOK, DocTypes, RevIds
<1>4. DraftsSound'
  <2> SUFFICES ASSUME NEW w \in Workers, pc[w] \in Drafting
               PROVE  Sound(pc[w], loc[w].draft, content'[Key(w)])
    BY <1>1 DEF DraftsSound, Sound, workerVars, Key, Drafting, Checked, WholeSteps
  <2>1. Sound(pc[w], loc[w].draft, content[Key(w)])
    BY DEF DraftInv, DraftsSound
  <2> QED  BY <2>1, <1>2, <1>3 DEF Sound, DraftTypes
<1>5. NoneNewer'
  BY <1>1, <1>2, <1>3 DEF DraftInv, NoneNewer, workerVars, Key, Publications
<1> QED
  BY <1>1, <1>4, <1>5 DEF DraftInv, PublishedIsWhole, Stored, Publications, workerVars, Extracted, Key

LEMMA OthersKept ==
  ASSUME Typed, NEW w \in Workers, NEW step, Goto(w, step), UNCHANGED holder,
         UNCHANGED loc \/ \E l : Keep(w, l)
  PROVE  /\ \A v \in Workers \ {w} : DraftKept(v)
         /\ pc'[w] = step
         /\ step \notin Drafting => DraftKept(w)
BY DEF Typed, TypeOK, WorkerTypes, Goto, Keep, DraftKept

LEMMA FaultKept ==
  ASSUME Typed, NEW w \in Workers, UNCHANGED holder,
         \/ \E it, f : Fault(w, it, f)
         \/ \E f : Fail(w, f)
         \/ \E it : CallFails(w, it) \/ DocumentFails(w, it)
         \/ Again(w) \/ Leave(w)
  PROVE  \A v \in Workers : DraftKept(v)
<1> USE OthersKept DEF Drafting, Checked
<1>1. CASE (\E it, f : Fault(w, it, f)) \/ (\E it : CallFails(w, it) \/ DocumentFails(w, it))
  <2>1. PICK it, f : Fault(w, it, f)
    BY <1>1 DEF CallFails, DocumentFails
  <2>2. Goto(w, "faulted") /\ \E l : Keep(w, l)
    BY <2>1 DEF Fault
  <2> QED  BY <2>2
<1>2. CASE \E f : Fail(w, f)
  BY <1>2 DEF Fail
<1>3. CASE Again(w) \/ Leave(w)
  BY <1>3 DEF Again, Leave
<1> QED  BY <1>1, <1>2, <1>3

\* A worker reads one more part, from the document as it is now.
LEMMA ReadDraft ==
  ASSUME DraftInv, Typed', NEW w \in Workers, UNCHANGED <<holder, Publications, content>>,
         \/ FetchBefore(w) /\ Goto(w, "blocks") /\ Read(w, "before", content[Key(w)])
         \/ FetchBlocks(w) /\ Goto(w, "media") /\ Read(w, "blocks", content[Key(w)])
         \/ FetchMedia(w) /\ Goto(w, "after")
            /\ (Read(w, "media", content[Key(w)]) \/ Read(w, "media", Lost))
  PROVE  DraftInv'
<1> DEFINE c == content[Key(w)]
           dr == loc[w].draft
<1>0. Typed /\ loc[w] \in Locals /\ dr \in Drafts /\ Key(w) \in Docs /\ c \in Int
  BY AtWork, Bounds
  DEF DraftInv, FetchBefore, FetchBlocks, FetchMedia, Extraction, Locals, Typed, TypeOK, SpaceTypes
<1>1. PICK field \in {"before", "blocks", "media"}, value \in {c, Lost} :
        Read(w, field, value) /\ (field = "media" \/ value = c)
        /\ pc[w] = (CASE field = "before" -> "fetch" [] field = "blocks" -> "blocks"
                      [] field = "media" -> "media")
        /\ pc'[w] = (CASE field = "before" -> "blocks" [] field = "blocks" -> "media"
                      [] field = "media" -> "after")
  BY <1>0 DEF FetchBefore, FetchBlocks, FetchMedia, Goto, Typed, TypeOK, WorkerTypes
<1>2. /\ loc'[w].draft = [dr EXCEPT ![field] = value]
      /\ loc'[w].item = loc[w].item /\ Key(w)' = Key(w)
  BY <1>0, <1>1 DEF Read, Keep, Key, Locals, Typed, TypeOK, WorkerTypes
<1>3. \A v \in Workers \ {w} : pc'[v] = pc[v] /\ loc'[v] = loc[v] /\ Key(v)' = Key(v)
  BY <1>0, <1>1 DEF FetchBefore, FetchBlocks, FetchMedia, Read, Goto, Keep, Key, Typed, TypeOK,
                    WorkerTypes
<1>4. /\ field = "before" => loc'[w].draft.before = c
      /\ field # "before" => loc'[w].draft.before = dr.before
      /\ field = "blocks" => loc'[w].draft.blocks = c
      /\ field = "media" => loc'[w].draft.blocks = dr.blocks /\ loc'[w].draft.media = value
  BY <1>0, <1>1, <1>2 DEF Drafts
<1>5. Sound(pc[w], dr, c)
  BY <1>0 DEF DraftInv, DraftsSound
<1>6. DraftsSound'
  <2>1. Sound(pc'[w], loc'[w].draft, c)
    <3>1. dr.before \in Int /\ dr.blocks \in Int
      BY <1>0, Bounds DEF Drafts
    <3> QED  BY <1>0, <1>1, <1>4, <1>5, <3>1 DEF Sound, Drafting, Checked, WholeSteps
  <2> QED  BY <1>2, <1>3, <2>1 DEF DraftInv, DraftsSound
<1>7. Stored'
  BY <1>1, <1>3 DEF DraftInv, Stored, WholeSteps, Checked, Extracted, Publications
<1>8. NoneNewer'
  <2> SUFFICES ASSUME NEW d \in Docs, activeRev[d] # NoRev,
                      NEW v \in Workers, holder = v, pc'[v] \in Drafting, Key(v)' = d
               PROVE  activeRev[d].blocks <= loc'[v].draft.before
    BY DEF DraftInv, NoneNewer, Publications
  <2>1. CASE v # w
    BY <1>3, <2>1 DEF DraftInv, NoneNewer
  <2>2. CASE v = w /\ field = "before"
    BY <1>2, <1>4, <2>2 DEF DraftInv, NoneNewer
  <2>3. CASE v = w /\ field # "before"
    BY <1>1, <1>2, <1>4, <2>3 DEF DraftInv, NoneNewer, Drafting
  <2> QED  BY <2>1, <2>2, <2>3
<1>9. PublishedIsWhole'
  BY DEF DraftInv, PublishedIsWhole, Publications
<1> QED  BY <1>6, <1>7, <1>8, <1>9 DEF DraftInv

\* The draft stays as it is, and its worker goes on to a step that it is good for.
LEMMA DraftGoesOn ==
  ASSUME DraftInv, Typed', NEW w \in Workers, pc[w] \in Drafting, NEW step \in Drafting,
         Goto(w, step), UNCHANGED <<holder, loc, content, activeRev, published>>,
         Sound(step, loc[w].draft, content[Key(w)]),
         revisions \subseteq revisions', step \in WholeSteps => Extracted(w) \in revisions'
  PROVE  DraftInv'
<1>1. pc'[w] = step /\ \A v \in Workers \ {w} : pc'[v] = pc[v]
  BY DEF DraftInv, Typed, TypeOK, WorkerTypes, Goto
<1>2. DraftsSound'
  BY <1>1 DEF DraftInv, DraftsSound, Key
<1>3. Stored'
  BY <1>1 DEF DraftInv, Stored, Key, Extracted
<1>4. NoneNewer'
  BY <1>1 DEF DraftInv, NoneNewer, Key
<1>5. PublishedIsWhole'
  BY DEF DraftInv, PublishedIsWhole
<1> QED  BY <1>2, <1>3, <1>4, <1>5 DEF DraftInv

Extends(d) == activeRev[d] # NoRev =>
                activeRev'[d] # NoRev /\ activeRev'[d].blocks >= activeRev[d].blocks
GoesForward == \A d \in Docs : Extends(d)

LEMMA SameForward == Typed /\ UNCHANGED activeRev => GoesForward
BY Bounds DEF Typed, TypeOK, DocTypes, RevIds, GoesForward, Extends

\* The lease and the second revision number together: what the holder publishes is
\* whole, and no older than what was published before.
LEMMA PublishDraft ==
  ASSUME DraftInv, NEW w \in Workers, Publish(w), Typed'
  PROVE  DraftInv' /\ GoesForward
<1> DEFINE dr == loc[w].draft
           d == Key(w)
<1>0. /\ Typed /\ dr \in Drafts /\ d \in Docs /\ pc[w] = "verified" /\ holder = w
      /\ content[d] \in Int /\ dr.before \in Int /\ dr.blocks \in Int /\ dr.media \in Int
  BY DraftTyped, Bounds
  DEF DraftInv, DraftTypes, Publish, MayPublish, MayCommit, Drafting, Checked, Typed, TypeOK,
      SpaceTypes
<1>1. /\ dr.before <= content[d] /\ dr.blocks = dr.before /\ dr.media = dr.before
      /\ Extracted(w) \in revisions
  BY <1>0 DEF DraftInv, DraftsSound, Sound, Stored, Drafting, Checked, WholeSteps
<1>2. Extracted(w).blocks = dr.blocks /\ Extracted(w).media = dr.media /\ Extracted(w) \in RevIds
  BY <1>0, <1>1 DEF Extracted, Typed, TypeOK, RevTypes
<1>3. Extracted(w) # NoRev
  BY <1>2, NoRevAssumption
<1>4. /\ activeRev'[d] = Extracted(w)
      /\ \A e \in Docs \ {d} : activeRev'[e] = activeRev[e]
      /\ \A e \in Docs : activeRev[e] # NoRev => activeRev[e].blocks \in Int
  BY <1>0, Bounds DEF Publish, Typed, TypeOK, DocTypes, RevIds
<1>5. UNCHANGED <<holder, revisions, content>> /\ \A v \in Workers : DraftKept(v)
  BY <1>0, FaultKept DEF Publish, spaceVars
<1>6. pc'[w] \notin Drafting
  BY <1>0 DEF Publish, Again, Goto, Drafting, Checked, Typed, TypeOK, WorkerTypes
<1>7. PublishedIsWhole'
  BY <1>1, <1>2, <1>5 DEF Publish, DraftInv, PublishedIsWhole
<1>8. DraftsSound' /\ Stored'
  BY <1>5 DEF DraftInv, DraftsSound, Stored, Sound, DraftKept, Drafting, Checked, WholeSteps, Key,
              Extracted
<1>9. NoneNewer'
  <2>1. \A e \in Docs : activeRev'[e] # NoRev => activeRev'[e].blocks <= content[e]
    BY <1>1, <1>2, <1>4 DEF DraftInv, NoneNewer
  <2>2. \A v \in Workers : holder' = v => pc'[v] \notin Drafting
    BY <1>0, <1>5, <1>6
  <2> QED  BY <1>5, <2>1, <2>2 DEF NoneNewer
<1>10. GoesForward
  <2>1. activeRev[d] # NoRev => activeRev[d].blocks <= dr.before
    BY <1>0 DEF DraftInv, NoneNewer, Drafting, Checked
  <2>2. Extends(d)
    BY <1>0, <1>1, <1>2, <1>3, <1>4, <2>1 DEF Extends
  <2>3. \A e \in Docs \ {d} : Extends(e)
    BY <1>4 DEF Extends
  <2> QED  BY <2>2, <2>3 DEF GoesForward
<1> QED  BY <1>7, <1>8, <1>9, <1>10 DEF DraftInv

LEMMA ExtractingDraft ==
  ASSUME DraftInv, NEW w \in Workers, Extracting(w), ~Publish(w), Typed'
  PROVE  DraftInv' /\ UNCHANGED activeRev
<1> USE DEF dbVars, docVars, revVars, spaceVars, Publications
<1>0. Typed /\ DraftTypes
  BY DraftTyped DEF DraftInv
<1>1. ASSUME NEW d \in Docs, SkipDocument(w, d) \/ BeginExtract(w, d)
      PROVE  DraftInv' /\ UNCHANGED activeRev
  <2>1. UNCHANGED <<Publications, content, holder>>
    BY <1>1 DEF SkipDocument, BeginExtract
  <2>2. CASE SkipDocument(w, d)
    BY <1>0, <2>1, <2>2, FaultKept, DraftsKept DEF SkipDocument
  <2>3. CASE BeginExtract(w, d)
    <3>1. Goto(w, "fetch") /\ \E l : Keep(w, l)
      BY <2>3 DEF BeginExtract
    <3>2. \A v \in Workers : DraftKept(v)
      BY <1>0, <2>1, <3>1, OthersKept DEF Drafting, Checked
    <3> QED  BY <2>1, <3>2, DraftsKept
  <2> QED  BY <1>1, <2>2, <2>3
<1>2. CASE FetchBefore(w) \/ FetchBlocks(w) \/ FetchMedia(w)
  <2>1. UNCHANGED <<Publications, content, holder>>
    BY <1>2 DEF FetchBefore, FetchBlocks, FetchMedia
  <2>2. CASE (\E it, f : Fault(w, it, f)) \/ DocumentFails(w, Key(w))
    BY <1>0, <2>1, <2>2, FaultKept, DraftsKept
  <2>3. CASE /\ ~(\E it, f : Fault(w, it, f))
             /\ ~DocumentFails(w, Key(w))
    <3>1. \/ FetchBefore(w) /\ Goto(w, "blocks") /\ Read(w, "before", content[Key(w)])
          \/ FetchBlocks(w) /\ Goto(w, "media") /\ Read(w, "blocks", content[Key(w)])
          \/ FetchMedia(w) /\ Goto(w, "after")
             /\ (Read(w, "media", content[Key(w)]) \/ Read(w, "media", Lost))
      BY <1>2, <2>3 DEF FetchBefore, FetchBlocks, FetchMedia
    <3> QED  BY <2>1, <3>1, ReadDraft
  <2> QED  BY <2>1, <2>2, <2>3
<1>3. CASE FetchAfter(w)
  <2>1. UNCHANGED <<Publications, content, holder>> /\ pc[w] = "after"
    BY <1>3 DEF FetchAfter
  <2>2. CASE Unchanged(w, content[Key(w)]) /\ Goto(w, "ready") /\ UNCHANGED loc
    <3>1. Sound("after", loc[w].draft, content[Key(w)])
      BY <2>1 DEF DraftInv, DraftsSound
    <3>2. Key(w) \in Docs /\ content[Key(w)] \in Int
      BY <1>0, <2>1, Bounds DEF DraftTypes, Drafting, Typed, TypeOK, SpaceTypes
    <3>3. Sound("ready", loc[w].draft, content[Key(w)])
      BY <1>0, <2>1, <2>2, <3>1, <3>2
      DEF Sound, Unchanged, DraftTypes, Drafting, Checked, WholeSteps
    <3> QED
      BY <2>1, <2>2, <3>3, DraftGoesOn DEF Drafting, Checked, WholeSteps
  <2>3. CASE Goto(w, "fetch") /\ \E l : Keep(w, l)
    <3>1. \A v \in Workers : DraftKept(v)
      BY <1>0, <2>1, <2>3, OthersKept DEF Drafting, Checked
    <3> QED  BY <2>1, <3>1, DraftsKept
  <2>4. CASE (\E it, f : Fault(w, it, f)) \/ DocumentFails(w, Key(w))
    BY <1>0, <2>1, <2>4, FaultKept, DraftsKept
  <2>5. \/ Unchanged(w, content[Key(w)]) /\ Goto(w, "ready") /\ UNCHANGED loc
        \/ Goto(w, "fetch") /\ \E l : Keep(w, l)
        \/ \E it, f : Fault(w, it, f)
        \/ DocumentFails(w, Key(w))
    BY <1>3 DEF FetchAfter
  <2> QED  BY <2>2, <2>3, <2>4, <2>5
<1>4. CASE Stage(w)
  <2>1. /\ UNCHANGED <<content, holder, activeRev, published>> /\ pc[w] = "ready"
        /\ revisions \subseteq revisions' /\ Extracted(w) \in revisions'
    BY <1>4 DEF Stage
  <2>2. Sound("ready", loc[w].draft, content[Key(w)])
    BY <2>1 DEF DraftInv, DraftsSound
  <2>3. CASE Complete(Extracted(w)) /\ Goto(w, "staged") /\ UNCHANGED loc
    <3>1. Sound("staged", loc[w].draft, content[Key(w)])
      BY <2>2, <2>3 DEF Sound, Complete, Extracted, Drafting, Checked, WholeSteps
    <3> QED  BY <2>1, <2>3, <3>1, DraftGoesOn DEF Drafting, Checked
  <2>4. CASE Again(w)
    <3>1. \A v \in Workers : DraftKept(v)
      BY <1>0, <2>1, <2>4, FaultKept
    <3>2. PublishedIsWhole' /\ DraftsSound' /\ Stored' /\ NoneNewer'
      BY <2>1, <3>1
      DEF DraftInv, PublishedIsWhole, DraftsSound, Stored, NoneNewer, Sound, DraftKept, Drafting,
          Checked, WholeSteps, Key, Extracted
    <3> QED  BY <2>1, <3>2 DEF DraftInv
  <2> QED  BY <1>4, <2>3, <2>4 DEF Stage
<1>5. CASE Verify(w) \/ BeginIndex(w) \/ Index(w)
  <2>1. UNCHANGED <<Publications, content, holder>> /\ pc[w] \in {"staged", "indexing"}
    BY <1>5 DEF Verify, BeginIndex, Index
  <2>2. CASE (\E step \in {"indexing", "verified"} : Goto(w, step)) /\ UNCHANGED loc
    <3>1. PICK step \in {"indexing", "verified"} : Goto(w, step)
      BY <2>2
    <3>2. Sound(pc[w], loc[w].draft, content[Key(w)]) /\ Extracted(w) \in revisions
      BY <2>1 DEF DraftInv, DraftsSound, Stored, WholeSteps, Checked
    <3>3. Sound(step, loc[w].draft, content[Key(w)])
      BY <2>1, <3>2 DEF Sound, Drafting, Checked, WholeSteps
    <3> QED  BY <2>1, <2>2, <3>1, <3>2, <3>3, DraftGoesOn DEF Drafting, Checked
  <2>3. CASE \E it, f : Fault(w, it, f)
    BY <1>0, <2>1, <2>3, FaultKept, DraftsKept
  <2> QED  BY <1>5, <2>2, <2>3 DEF Verify, BeginIndex, Index
<1>6. CASE EndExtract(w)
  BY <1>0, <1>6, FaultKept, DraftsKept DEF EndExtract
<1> QED  BY <1>1, <1>2, <1>3, <1>4, <1>5, <1>6 DEF Extracting

LEMMA RestDraft ==
  ASSUME DraftInv, Typed', NEW w \in Workers,
         Frame(w) \/ Handling(w) \/ Enumerating(w) \/ Reconciling(w) \/ Yield(w) \/ Crash(w)
  PROVE  DraftInv' /\ UNCHANGED activeRev
<1> USE DEF dbVars, docVars, revVars, spaceVars, Publications
<1>0. Typed
  BY DEF DraftInv
<1> SUFFICES UNCHANGED <<Publications, content>> /\ \A v \in Workers : DraftKept(v)
  BY DraftsKept
<1>1. CASE Frame(w) \/ Yield(w) \/ Crash(w)
  <2>1. UNCHANGED <<Publications, content>>
    BY <1>1 DEF Frame, Acquire, Pick, StopLoop, NotDue, LeaseLost, Release, Yield, Crash
  <2>2. CASE StopLoop(w) \/ NotDue(w) \/ Yield(w)
    BY <1>0, <2>1, <2>2, FaultKept DEF StopLoop, NotDue, Yield
  <2>3. CASE LeaseLost(w) \/ Crash(w)
    <3>1. UNCHANGED holder /\ Goto(w, "idle") /\ \E l : Keep(w, l)
      BY <2>3 DEF LeaseLost, Crash
    <3> QED  BY <1>0, <2>1, <3>1, OthersKept DEF Drafting, Checked
  <2>4. CASE Pick(w)
    <3>1. UNCHANGED holder /\ (Leave(w) \/ (Goto(w, "loop") /\ \E l : Keep(w, l)))
      BY <2>4 DEF Pick
    <3> QED  BY <1>0, <2>1, <3>1, OthersKept, FaultKept DEF Drafting, Checked
  <2>5. CASE Acquire(w) \/ Release(w)
    <3>1. ASSUME NEW v \in Workers, pc'[v] \in Drafting
          PROVE  pc'[v] = pc[v] /\ (holder' = v => holder = v)
      BY <1>0, <2>5, <3>1, SyncAssumption
      DEF SyncAssumption, Acquire, Release, Goto, Typed, TypeOK, WorkerTypes, Drafting, Checked
    <3> QED  BY <2>1, <2>5, <3>1 DEF Acquire, Release, DraftKept
  <2> QED  BY <1>1, <2>2, <2>3, <2>4, <2>5 DEF Frame
<1>2. CASE Handling(w)
  <2>1. UNCHANGED <<Publications, content, holder>>
    BY <1>2 DEF Handling, GiveUpRun, TakeOffline, RetryLater, ItemFails, FailRun
  <2>2. (\E f : Fail(w, f)) \/ Again(w) \/ Leave(w)
    BY <1>2 DEF Handling, GiveUpRun, TakeOffline, RetryLater, ItemFails, FailRun
  <2> QED  BY <1>0, <2>1, <2>2, FaultKept
<1>3. CASE Enumerating(w)
  <2>1. UNCHANGED <<Publications, content, holder>>
    BY <1>3 DEF Enumerating, Resolve, Validate, ListPage, Discover, RefusePage, EndEnumerate
  <2>2. \/ (\E f : Fail(w, f)) \/ Again(w) \/ (\E it, f : Fault(w, it, f))
        \/ \E it : CallFails(w, it)
        \/ \E step \in {"resolved", "listed"} :
             Goto(w, step) /\ (UNCHANGED loc \/ \E l : Keep(w, l))
    BY <1>3 DEF Enumerating, Resolve, Validate, ListPage, Discover, RefusePage, EndEnumerate
  <2> QED  BY <1>0, <2>1, <2>2, FaultKept, OthersKept DEF Drafting, Checked
<1>4. CASE Reconciling(w)
  <2>1. UNCHANGED <<Publications, content, holder>>
    BY <1>4 DEF Reconciling, QueueMissing, LookUp, Confirm, Finish
  <2>2. \/ Again(w) \/ Leave(w) \/ (\E it : CallFails(w, it))
        \/ Goto(w, "looked") /\ \E l : Keep(w, l)
    BY <1>4 DEF Reconciling, QueueMissing, LookUp, Confirm, Finish
  <2> QED  BY <1>0, <2>1, <2>2, FaultKept, OthersKept DEF Drafting, Checked
<1> QED  BY <1>1, <1>2, <1>3, <1>4

LEMMA DraftStep == DraftInv /\ [Next]_vars => DraftInv' /\ GoesForward
<1> SUFFICES ASSUME DraftInv, [Next]_vars PROVE DraftInv' /\ GoesForward
  OBVIOUS
<1>0. Typed /\ Typed'
  BY NextTyped DEF DraftInv
<1>1. ASSUME NEW w \in Workers, Progress(w) \/ Yield(w) \/ Crash(w)
      PROVE  DraftInv' /\ GoesForward
  BY <1>0, <1>1, RestDraft, ExtractingDraft, PublishDraft, SameForward DEF Progress
<1>2. ASSUME NEW d \in Docs, Edit(d)  PROVE DraftInv' /\ GoesForward
  <2>1. UNCHANGED activeRev
    BY <1>2 DEF Edit, dbVars, docVars
  <2> QED  BY <1>0, <1>2, <2>1, EditDraft, SameForward
<1>3. CASE \/ Expire \/ Time \/ Requests \/ UNCHANGED vars
           \/ Space /\ \A d \in Docs : ~Edit(d)
  <2>1. UNCHANGED <<Publications, content, pc, loc>>
    BY <1>3 DEF Expire, Time, Due, Requests, Enqueue, Space, Move, Retarget, Rescope, ChangeAccess,
                Close, Reopen, vars, dbVars, docVars, revVars, workerVars, spaceVars, Publications
  <2>2. holder' \in {holder, NoWorker}
    BY <1>3 DEF Expire, Time, Due, Requests, Enqueue, Space, Move, Retarget, Rescope, ChangeAccess,
                Close, Reopen, vars, workerVars
  <2>3. \A v \in Workers : DraftKept(v)
    BY <2>1, <2>2, SyncAssumption DEF SyncAssumption, DraftKept
  <2> QED  BY <1>0, <2>1, <2>3, DraftsKept, SameForward DEF Publications
<1> QED  BY <1>1, <1>2, <1>3 DEF Next, Failure, Space

LEMMA InitDraft == Init => DraftInv
BY InitTyped
DEF Init, DraftInv, PublishedIsWhole, DraftsSound, Sound, Stored, NoneNewer, Drafting, Checked,
    WholeSteps

\* A published revision is stored and of one piece, whatever edits, losses of media,
\* faults and takeovers come between the calls that read it.
THEOREM PublishedWhole == Spec => []PublishedIsWhole
<1>1. DraftInv => PublishedIsWhole
  BY DEF DraftInv
<1> QED  BY <1>1, InitDraft, DraftStep, PTL DEF Spec

\* No publication takes a document back to an older revision: a worker that stalled
\* with an old draft has lost the lease, and the lease's holder has read the document
\* after the last publication.
THEOREM NeverRollsBack == Spec => NoRollback
<1>1. DraftInv /\ [Next]_vars =>
        [\A d \in Docs : activeRev[d] # NoRev => activeRev'[d] # NoRev
                         /\ activeRev'[d].blocks >= activeRev[d].blocks]_vars
  BY DraftStep DEF GoesForward, Extends
<1> QED  BY <1>1, InitDraft, DraftStep, PTL DEF Spec, NoRollback
=============================================================================
