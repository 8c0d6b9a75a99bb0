------------------------- MODULE KnowledgeSyncScans -------------------------
(***************************************************************************)
(* Theorems about a run of KnowledgeSync as a whole: what its items say    *)
(* about the space once it reaches reconcile and finish, and what may take *)
(* a document out of service on the way.                                   *)
(***************************************************************************)
EXTENDS KnowledgeSyncProofs

FolderItem(f) == item[<<"folder", f>>]
DocItem(d) == item[<<"document", d>>]
Answer(n) == item[<<"confirmation", n>>]

(***************************************************************************)
(* The steps that change the records of a run                              *)
(***************************************************************************)

scanVars == <<activeRun, phase, scanned, cursor, item, page>>

\* The phase goes on, an item gets its outcome, the run ends.
Advances(w) == Validate(w) \/ EndEnumerate(w) \/ EndExtract(w)
Settles(w) ==
  \/ TakeOffline(w) \/ ItemFails(w) \/ (\E d \in Docs : SkipDocument(w, d))
  \/ (Stage(w) /\ ~Complete(Extracted(w))) \/ Publish(w) \/ Confirm(w)
Ends(w) == FailRun(w) \/ Finish(w)
Writing(w) == Advances(w) \/ Settles(w) \/ Ends(w) \/ Discover(w) \/ QueueMissing(w)

LEMMA Untouched ==
  ASSUME [Next]_vars, \A w \in Workers : ~Pick(w) /\ ~Writing(w)
  PROVE  /\ UNCHANGED scanVars
         /\ UNCHANGED <<lastRun, mode, status>> \/ \E m \in {"full", "incremental"} : Enqueue(m)
<1> DEFINE Same == UNCHANGED <<scanVars, lastRun, mode, status>>
<1> USE DEF dbVars, sourceVars, runVars, itemVars, scanVars
<1>1. ASSUME NEW w \in Workers, Frame(w) \/ Yield(w) \/ Crash(w)
      PROVE  Same
  BY <1>1 DEF Frame, Acquire, StopLoop, NotDue, LeaseLost, Release, Yield, Crash
<1>2. ASSUME NEW w \in Workers, Handling(w)
      PROVE  Same
  BY <1>2 DEF Handling, GiveUpRun, RetryLater, Writing, Settles, Ends
<1>3. ASSUME NEW w \in Workers, Enumerating(w)
      PROVE  Same
  BY <1>3 DEF Enumerating, Resolve, ListPage, RefusePage, Writing, Advances
<1>4. ASSUME NEW w \in Workers, Extracting(w)
      PROVE  Same
  BY <1>4 DEF Extracting, BeginExtract, FetchBefore, FetchBlocks, FetchMedia, FetchAfter, Stage,
              Verify, BeginIndex, Index, Writing, Advances, Settles
<1>5. ASSUME NEW w \in Workers, Reconciling(w)
      PROVE  Same
  BY <1>5 DEF Reconciling, LookUp, Writing, Settles, Ends
<1>6. Expire \/ Time \/ Space \/ UNCHANGED vars => Same
  BY DEF Expire, Time, Due, Space, Edit, Move, Retarget, Rescope, ChangeAccess, Close, Reopen, vars
<1>7. ASSUME NEW m \in {"full", "incremental"}, Enqueue(m)
      PROVE  UNCHANGED scanVars
  BY <1>7 DEF Enqueue
<1> QED  BY <1>1, <1>2, <1>3, <1>4, <1>5, <1>6, <1>7 DEF Next, Progress, Failure, Requests

\* Whoever writes holds the lease, is on the run that is active, and has nothing in
\* hand afterwards.
LEMMA WritesActive ==
  ASSUME RunsInv, NEW w \in Workers, Writing(w)
  PROVE  /\ holder = w /\ holder' = w /\ loc[w].run = activeRun
         /\ activeRun \in RunIds /\ status[activeRun] = "running"
         /\ pc'[w] \in {"loop", "leaving"}
<1>1. Typed /\ pc \in [Workers -> Steps]
  BY DEF RunsInv, Typed, TypeOK, WorkerTypes
<1>2. /\ holder = w /\ holder' = w /\ pc[w] \in Busy
      /\ Again(w) \/ Leave(w)
  <2> USE DEF MayCommit, Busy, Steps, InPhase
  <2>1. CASE Advances(w)
    BY <2>1 DEF Advances, Validate, EndEnumerate, EndExtract
  <2>2. CASE Settles(w)
    BY <2>2 DEF Settles, TakeOffline, ItemFails, SkipDocument, Performs, Stage, Publish, MayPublish,
                Confirm
  <2>3. CASE Ends(w)
    BY <2>3 DEF Ends, FailRun, Finish
  <2>4. CASE Discover(w) \/ QueueMissing(w)
    BY <2>4 DEF Discover, QueueMissing
  <2> QED  BY <2>1, <2>2, <2>3, <2>4 DEF Writing
<1>3. pc'[w] \in {"loop", "leaving"}
  BY <1>1, <1>2 DEF Again, Leave, Goto
<1>4. loc[w].run = activeRun /\ activeRun \in RunIds
  BY <1>1, <1>2, AtWork DEF RunsInv, HolderOnActive
<1> QED  BY <1>2, <1>3, <1>4 DEF RunsInv, RunningIsActive

\* A worker picks the active run up again, or there is none and it takes the oldest
\* of those that wait.
LEMMA Picked ==
  ASSUME RunsInv, NEW w \in Workers, Pick(w)
  PROVE  /\ UNCHANGED <<lastRun, mode, phase, scanned, cursor, item, page>>
         /\ holder' = w /\ pc'[w] \in {"loop", "leaving"}
         /\ \/ UNCHANGED <<activeRun, status>>
            \/ /\ activeRun = NoRun /\ activeRun' \in Queued
               /\ \A q \in Queued : activeRun' <= q
               /\ status' = [status EXCEPT ![activeRun'] = "running"]
<1>1. status \in [RunIds -> Ended \cup {"absent", "queued", "running"}]
      /\ activeRun \in RunIds \cup {NoRun} /\ pc \in [Workers -> Steps]
  BY DEF RunsInv, Typed, TypeOK, RunTypes, SourceTypes, WorkerTypes
<1>2. holder' = w /\ pc'[w] \in {"loop", "leaving"}
  BY <1>1 DEF Pick, MayCommit, Leave, Goto
<1>3. activeRun # NoRun => status[activeRun] = "running"
  BY <1>1 DEF RunsInv, RunningIsActive
<1>4. ASSUME NEW r \in Current, activeRun' = r, status' = [status EXCEPT ![r] = "running"],
             activeRun # NoRun
      PROVE  UNCHANGED <<activeRun, status>>
  BY <1>1, <1>3, <1>4 DEF Current
<1>5. ASSUME NEW r \in Current, activeRun' = r, activeRun = NoRun
      PROVE  activeRun' \in Queued /\ \A q \in Queued : activeRun' <= q
  BY <1>5 DEF Current
<1> QED  BY <1>2, <1>4, <1>5 DEF Pick, itemVars

-----------------------------------------------------------------------------
(***************************************************************************)
(* The order of the runs                                                   *)
(***************************************************************************)

\* Runs are taken in the order of their requests, and each ends before the next one
\* begins; one that has not begun has no progress.
EndedBefore == \A p, q \in RunIds :
  p < q /\ status[q] \in Ended \cup {"running"} => status[p] \in Ended
Requested == \A q \in RunIds : q <= lastRun => status[q] # "absent"
NotBegun == \A q \in RunIds : status[q] \in {"absent", "queued"} =>
  phase[q] = "validate" /\ cursor[q] = Root
OrderInv == EndedBefore /\ Requested /\ NotBegun

OrderTypes ==
  /\ status \in [RunIds -> Ended \cup {"absent", "queued", "running"}]
  /\ phase \in [RunIds -> Phases] /\ cursor \in [RunIds -> Folders]
  /\ scanned \in [RunIds -> BOOLEAN]
  /\ lastRun \in RunIds \cup {NoRun} /\ activeRun \in RunIds \cup {NoRun}
  /\ RunIds \subseteq Nat /\ NoRun \notin RunIds

LEMMA OrderTyped == Typed => OrderTypes
BY Bounds DEF Typed, TypeOK, RunTypes, SourceTypes, OrderTypes, RunIds

\* One more run waits.
QueuesNext ==
  /\ lastRun < MaxRuns /\ lastRun' = lastRun + 1
  /\ lastRun + 1 \in RunIds /\ status[lastRun + 1] = "absent" /\ status'[lastRun + 1] = "queued"

LEMMA NextAbsent ==
  ASSUME RunsInv, lastRun < MaxRuns
  PROVE  lastRun + 1 \in RunIds /\ status[lastRun + 1] = "absent"
BY Bounds DEF RunsInv, FutureAbsent, RunIds, NoRun, Typed, TypeOK, RunTypes

\* What the end of a run does to the runs.
LEMMA EndedRun ==
  ASSUME RunsInv, NEW w \in Workers, Ends(w)
  PROVE  /\ activeRun' = NoRun /\ UNCHANGED <<mode, scanned, cursor>>
         /\ \A q \in RunIds : q # activeRun => phase'[q] = phase[q]
         /\ status'[activeRun] \in Ended
         /\ \/ /\ UNCHANGED lastRun
               /\ \A q \in RunIds : q # activeRun => status'[q] = status[q]
            \/ /\ QueuesNext
               /\ \A q \in RunIds : q # activeRun /\ q # lastRun + 1 => status'[q] = status[q]
         /\ \A i \in Items : item'[i] = "none"
         /\ \A f \in Folders : page'[f] = 1
<1>1. loc[w].run = activeRun /\ activeRun \in RunIds /\ status[activeRun] = "running"
  BY WritesActive DEF Writing
<1>2. OrderTypes
  BY OrderTyped DEF RunsInv
<1>3. CASE FailRun(w)
  BY <1>1, <1>2, <1>3 DEF FailRun, ForgetItems, OrderTypes, Ended
<1>4. CASE Finish(w)
  <2>0. Outcome \in Ended
    BY DEF Outcome, Ended
  <2>1. CASE ~ConfirmAgain
    BY <1>1, <1>2, <1>4, <2>0, <2>1 DEF Finish, ForgetItems, OrderTypes
  <2>2. CASE ConfirmAgain
    <3>1. /\ status' = [[status EXCEPT ![activeRun] = Outcome] EXCEPT ![lastRun + 1] = "queued"]
          /\ lastRun' = lastRun + 1
      BY <1>1, <1>4, <2>2 DEF Finish
    <3>2. lastRun < MaxRuns /\ lastRun + 1 \in RunIds /\ status[lastRun + 1] = "absent"
      BY <2>2, NextAbsent DEF ConfirmAgain
    <3>3. lastRun + 1 # activeRun
      BY <1>1, <3>2
    <3>4. /\ status'[lastRun + 1] = "queued" /\ status'[activeRun] = Outcome
          /\ \A q \in RunIds : q # activeRun /\ q # lastRun + 1 => status'[q] = status[q]
      BY <1>1, <1>2, <3>1, <3>2, <3>3 DEF OrderTypes
    <3> QED
      BY <1>1, <1>2, <1>4, <2>0, <3>1, <3>2, <3>4 DEF Finish, ForgetItems, OrderTypes, QueuesNext
  <2> QED  BY <2>1, <2>2
<1> QED  BY <1>3, <1>4 DEF Ends

LEMMA QueuedRun ==
  ASSUME RunsInv, NEW m \in {"full", "incremental"}, Enqueue(m)
  PROVE  /\ QueuesNext
         /\ \A q \in RunIds : q # lastRun + 1 => status'[q] = status[q] /\ mode'[q] = mode[q]
         /\ UNCHANGED <<activeRun, phase, scanned, cursor, item, page>>
<1>1. lastRun + 1 \in RunIds /\ status[lastRun + 1] = "absent"
  BY NextAbsent DEF Enqueue
<1> QED
  BY <1>1 DEF Enqueue, QueuesNext, sourceVars, itemVars, RunsInv, Typed, TypeOK, RunTypes

\* A phase goes on, and only of the run that is active; reconcile moves its cursor.
LEMMA ActiveOnly ==
  ASSUME RunsInv, NEW w \in Workers, Writing(w), ~Ends(w)
  PROVE  /\ UNCHANGED <<activeRun, lastRun, mode, status>>
         /\ \A q \in RunIds : q # activeRun =>
              phase'[q] = phase[q] /\ cursor'[q] = cursor[q] /\ scanned'[q] = scanned[q]
         /\ ~Advances(w) => UNCHANGED <<phase, scanned>>
         /\ ~QueueMissing(w) => UNCHANGED cursor
<1>1. loc[w].run = activeRun /\ activeRun \in RunIds /\ OrderTypes
  BY WritesActive, OrderTyped DEF RunsInv
<1>2. CASE Advances(w)
  BY <1>1, <1>2 DEF Advances, Validate, EndEnumerate, EndExtract, sourceVars, OrderTypes, QueueMissing
<1>3. CASE Settles(w)
  BY <1>3 DEF Settles, TakeOffline, ItemFails, SkipDocument, Stage, Publish, Confirm, sourceVars,
              runVars
<1>4. CASE Discover(w)
  BY <1>4 DEF Discover, sourceVars, runVars
<1>5. CASE QueueMissing(w)
  BY <1>1, <1>5 DEF QueueMissing, sourceVars, OrderTypes
<1> QED  BY <1>2, <1>3, <1>4, <1>5 DEF Writing

\* No run is left out when its status is read: a step that takes or ends a run, or
\* requests one.
LEMMA OrderStep ==
  ASSUME RunsInv, OrderInv, [Next]_vars
  PROVE  OrderInv'
<1>0. OrderTypes
  BY OrderTyped DEF RunsInv
<1>1. ASSUME UNCHANGED <<lastRun, status, phase, cursor>>
      PROVE  OrderInv'
  BY <1>1 DEF OrderInv, EndedBefore, Requested, NotBegun
<1>2. ASSUME NEW w \in Workers, Pick(w)
      PROVE  OrderInv'
  <2>1. CASE UNCHANGED status
    BY <1>1, <1>2, <2>1, Picked
  <2>2. CASE ~UNCHANGED status
    <3> DEFINE r == activeRun'
    <3>1. /\ activeRun = NoRun /\ r \in Queued /\ \A q \in Queued : r <= q
          /\ status' = [status EXCEPT ![r] = "running"]
          /\ UNCHANGED <<lastRun, phase, cursor>>
      BY <1>2, <2>2, Picked
    <3> HIDE DEF r
    <3>2. r \in RunIds /\ status[r] = "queued" /\ \A q \in RunIds : status[q] # "running"
      BY <1>0, <3>1 DEF Queued, RunsInv, RunningIsActive, OrderTypes
    <3>3. \A q \in RunIds : status'[q] = IF q = r THEN "running" ELSE status[q]
      BY <1>0, <3>1, <3>2 DEF OrderTypes
    <3>4. ASSUME NEW p \in RunIds, p < r  PROVE status[p] \in Ended
      <4>1. r <= lastRun
        BY <1>0, <3>2 DEF RunsInv, FutureAbsent, OrderTypes, NoRun
      <4>2. p <= lastRun /\ ~(r <= p)
        BY <1>0, <3>2, <3>4, <4>1 DEF OrderTypes, NoRun
      <4>3. status[p] \notin {"absent", "queued", "running"}
        BY <3>1, <3>2, <4>2 DEF OrderInv, Requested, Queued
      <4> QED  BY <1>0, <4>3 DEF OrderTypes
    <3>5. EndedBefore'
      <4> SUFFICES ASSUME NEW p \in RunIds, NEW q \in RunIds, p < q,
                          status'[q] \in Ended \cup {"running"}
                   PROVE  status'[p] \in Ended
        BY DEF EndedBefore
      <4>1. CASE q = r
        <5>1. p # r
          BY <1>0, <4>1, <3>2 DEF OrderTypes
        <5> QED  BY <3>3, <3>4, <4>1, <5>1
      <4>2. CASE q # r
        <5>1. status[p] \in Ended
          BY <3>3, <4>2 DEF OrderInv, EndedBefore
        <5> QED  BY <3>2, <3>3, <5>1 DEF Ended
      <4> QED  BY <4>1, <4>2
    <3>6. Requested' /\ NotBegun'
      BY <3>1, <3>2, <3>3 DEF OrderInv, Requested, NotBegun
    <3> QED  BY <3>5, <3>6 DEF OrderInv
  <2> QED  BY <2>1, <2>2
<1>3. ASSUME UNCHANGED cursor,
             QueuesNext,
             \A q \in RunIds : q # lastRun + 1 =>
               \/ status'[q] = status[q] /\ phase'[q] = phase[q]
               \/ status[q] = "running" /\ status'[q] \in Ended,
             phase'[lastRun + 1] = phase[lastRun + 1]
      PROVE  OrderInv'
  <2>1. EndedBefore'
    <3> SUFFICES ASSUME NEW p \in RunIds, NEW q \in RunIds, p < q,
                        status'[q] \in Ended \cup {"running"}
                 PROVE  status'[p] \in Ended
      BY DEF EndedBefore
    <3>1. q # lastRun + 1 /\ status[q] \in Ended \cup {"running"}
      BY <1>3 DEF QueuesNext, Ended
    <3>2. status[p] \in Ended
      BY <3>1 DEF OrderInv, EndedBefore
    <3>3. p # lastRun + 1
      BY <1>3, <3>2 DEF QueuesNext, Ended
    <3> QED  BY <1>3, <3>2, <3>3 DEF Ended
  <2>2. Requested'
    <3> SUFFICES ASSUME NEW q \in RunIds, q <= lastRun + 1  PROVE status'[q] # "absent"
      BY <1>3 DEF Requested, QueuesNext
    <3>1. CASE q = lastRun + 1
      BY <1>3, <3>1 DEF QueuesNext
    <3>2. CASE q # lastRun + 1
      <4>1. q <= lastRun
        BY <1>0, <3>2 DEF OrderTypes, NoRun
      <4> QED  BY <1>3, <3>2, <4>1 DEF OrderInv, Requested, Ended
    <3> QED  BY <3>1, <3>2
  <2>3. NotBegun'
    BY <1>3 DEF OrderInv, NotBegun, QueuesNext, Ended
  <2> QED  BY <2>1, <2>2, <2>3 DEF OrderInv
<1>4. ASSUME UNCHANGED lastRun,
             \A q \in RunIds :
               \/ status'[q] = status[q] /\ (phase'[q] = phase[q] /\ cursor'[q] = cursor[q])
               \/ status[q] = "running" /\ status'[q] \in Ended \cup {"running"}
      PROVE  OrderInv'
  <2>1. EndedBefore'
    BY <1>4 DEF OrderInv, EndedBefore, Ended
  <2>2. Requested' /\ NotBegun'
    BY <1>4 DEF OrderInv, Requested, NotBegun, Ended
  <2> QED  BY <2>1, <2>2 DEF OrderInv
<1>5. ASSUME NEW m \in {"full", "incremental"}, Enqueue(m)
      PROVE  OrderInv'
  BY <1>3, <1>5, QueuedRun
<1>6. ASSUME NEW w \in Workers, Ends(w)
      PROVE  OrderInv'
  <2>1. status[activeRun] = "running" /\ activeRun \in RunIds
    BY <1>6, WritesActive DEF Writing
  <2>2. CASE UNCHANGED lastRun
    <3>1. ~QueuesNext
      BY <1>0, <2>2 DEF QueuesNext, OrderTypes, NoRun
    <3> QED  BY <1>4, <1>6, <2>1, <2>2, <3>1, EndedRun
  <2>3. CASE QueuesNext
    <3>1. lastRun + 1 # activeRun /\ lastRun' # lastRun
      BY <1>0, <2>1, <2>3 DEF QueuesNext, OrderTypes, NoRun
    <3>2. /\ UNCHANGED cursor
          /\ \A q \in RunIds : q # lastRun + 1 =>
               \/ status'[q] = status[q] /\ phase'[q] = phase[q]
               \/ status[q] = "running" /\ status'[q] \in Ended
          /\ phase'[lastRun + 1] = phase[lastRun + 1]
      BY <1>6, <2>1, <2>3, <3>1, EndedRun DEF QueuesNext
    <3> QED  BY <1>3, <2>3, <3>2
  <2> QED  BY <1>6, <2>2, <2>3, EndedRun
<1>7. ASSUME NEW w \in Workers, Writing(w), ~Ends(w)
      PROVE  OrderInv'
  <2>1. status[activeRun] = "running" /\ activeRun \in RunIds
    BY <1>7, WritesActive
  <2> QED  BY <1>4, <1>7, <2>1, ActiveOnly
<1>8. CASE \A w \in Workers : ~Pick(w) /\ ~Writing(w)
  BY <1>1, <1>5, <1>8, Untouched DEF scanVars
<1> QED  BY <1>2, <1>6, <1>7, <1>8

-----------------------------------------------------------------------------
(***************************************************************************)
(* The items of the active run                                             *)
(***************************************************************************)

\* The item in the hands of the holder of the lease belongs to the phase of its run
\* and has no outcome yet.
InHand == \A w \in Workers : holder = w =>
  /\ pc[w] \in Handed =>
       phase[loc[w].run] = PhaseOf(Kind(w)) /\ item[loc[w].item] = "pending"
  /\ pc[w] = "resolved" => phase[loc[w].run] = "validate"

LEMMA InHandStep ==
  ASSUME RunsInv, InHand, [Next]_vars
  PROVE  InHand'
<1>1. CASE \E w \in Workers : Pick(w) \/ Writing(w)
  <2>1. PICK w \in Workers : Pick(w) \/ Writing(w)
    BY <1>1
  <2>2. holder' = w /\ pc'[w] \in {"loop", "leaving"}
    BY <2>1, Picked, WritesActive
  <2> QED  BY <2>2 DEF InHand, Handed, Extraction
<1>2. CASE \A w \in Workers : ~Pick(w) /\ ~Writing(w)
  <2>1. UNCHANGED <<phase, item>>
    BY <1>2, Untouched DEF scanVars
  <2> SUFFICES ASSUME NEW w \in Workers, holder' = w
               PROVE  /\ pc'[w] \in Handed =>
                           /\ phase[loc'[w].run] = PhaseOf(loc'[w].item[1])
                           /\ item[loc'[w].item] = "pending"
                      /\ pc'[w] = "resolved" => phase[loc'[w].run] = "validate"
    BY <2>1 DEF InHand, Kind
  <2>2. HandKept(w)
    BY HandsStep DEF RunsInv
  <2>3. CASE pc'[w] \in Handed
    <3>1. holder = w /\ (Took(w) \/ HeldOn(w))
      BY <2>2, <2>3 DEF HandKept
    <3>2. CASE Took(w)
      BY <2>3, <3>2 DEF Took, Performs, InPhase, Kind, Key, Handed, Extraction
    <3>3. CASE HeldOn(w)
      BY <2>3, <3>1, <3>3 DEF HeldOn, InHand, Kind, Handed, Extraction
    <3> QED  BY <3>1, <3>2, <3>3
  <2>4. CASE pc'[w] = "resolved"
    <3>1. holder = w /\ (Stays(w) \/ (InPhase(w, "validate") /\ loc'[w].run = loc[w].run))
      BY <2>2, <2>4 DEF HandKept, Stays
    <3> QED  BY <2>4, <3>1 DEF Stays, InPhase, InHand, Handed, Extraction
  <2> QED  BY <2>3, <2>4
<1> QED  BY <1>1, <1>2

Scanning == {"validate", "enumerate"}
Scanned == {"extract", "reconcile"}

\* The items of the active run and its phase.  A phase begins when nothing of the one
\* before is left to do, and its items come into being in it.
NothingYet == (\A i \in Items : item[i] = "none") /\ (\A f \in Folders : page[f] = 1)
FoldersSound ==
  /\ phase[activeRun] # "validate" => FolderItem(Root) # "none"
  /\ \A f \in Folders : FolderItem(f) \in {"none", "pending", "succeeded"}
  /\ phase[activeRun] \in Scanned =>
       scanned[activeRun] /\ \A f \in Folders : FolderItem(f) # "pending"
DocsSound ==
  /\ \A d \in Docs : DocItem(d) # "missing"
  /\ phase[activeRun] \in Scanning => \A d \in Docs : DocItem(d) \in {"none", "pending"}
  /\ phase[activeRun] = "reconcile" => \A d \in Docs : DocItem(d) # "pending"
AnswersSound ==
  /\ \A n \in Nodes : Answer(n) # "partial"
  /\ phase[activeRun] # "reconcile" =>
       cursor[activeRun] = Root /\ \A n \in Nodes : Answer(n) = "none"

ItemsInv ==
  /\ activeRun = NoRun \/ phase[activeRun] = "validate" => NothingYet
  /\ activeRun # NoRun =>
       /\ FoldersSound /\ DocsSound /\ AnswersSound

LEMMA ItemNames ==
  /\ \A f \in Folders : <<"folder", f>> \in Items
  /\ \A d \in Docs : <<"document", d>> \in Items
  /\ \A n \in Nodes : <<"confirmation", n>> \in Items
  /\ Root \in Folders
BY DEF Items, Folders

LEMMA NamedItem ==
  ASSUME Typed, NEW w \in Workers, loc[w].item \in Items
  PROVE  /\ loc[w].item = <<Kind(w), Key(w)>>
         /\ Kind(w) \in {"folder", "document", "confirmation"}
         /\ Kind(w) = "folder" => Key(w) \in Folders
         /\ Kind(w) = "document" => Key(w) \in Docs
         /\ Kind(w) = "confirmation" => Key(w) \in Nodes
BY DEF Items, Kind, Key

\* An item that gets its outcome is one of the phase of the run.
LEMMA Settled ==
  ASSUME RunsInv, InHand, NEW w \in Workers, Settles(w)
  PROVE  /\ UNCHANGED <<activeRun, lastRun, mode, status, phase, scanned, cursor, page>>
         /\ \/ /\ phase[activeRun] = "extract" /\ UNCHANGED nodeVars
               /\ \E d \in Docs, s \in {"failed", "partial", "succeeded"} :
                    /\ DocItem(d) = "pending"
                    /\ item' = [item EXCEPT ![<<"document", d>>] = s]
                    /\ s = "succeeded" => Publish(w) /\ Key(w) = d
            \/ /\ phase[activeRun] = "reconcile"
               /\ \E n \in Nodes, s \in {"failed", "missing", "succeeded"} :
                    /\ Answer(n) = "pending"
                    /\ item' = [item EXCEPT ![<<"confirmation", n>>] = s]
                    /\ (s = "failed" /\ UNCHANGED nodeVars)
                         \/ (s # "failed" /\ Confirm(w) /\ Key(w) = n)
<1>1. Typed /\ loc[w].run = activeRun /\ holder = w
  BY WritesActive DEF RunsInv, Writing
<1>2. UNCHANGED <<activeRun, lastRun, mode, status, phase, scanned, cursor, page>>
  BY DEF Settles, TakeOffline, ItemFails, SkipDocument, Stage, Publish, Confirm, sourceVars, runVars
<1>3. pc[w] \in Handed =>
        /\ phase[activeRun] = PhaseOf(Kind(w)) /\ item[loc[w].item] = "pending"
        /\ loc[w].item \in Items /\ loc[w].item = <<Kind(w), Key(w)>>
        /\ Kind(w) = "document" => Key(w) \in Docs
        /\ Kind(w) = "confirmation" => Key(w) \in Nodes
        /\ Kind(w) \in {"folder", "document", "confirmation"}
  BY <1>1, AtWork, NamedItem DEF InHand, Handed
<1>4. pc[w] \in Extraction => Kind(w) = "document" /\ pc[w] \in Handed
  BY <1>1, AtWork DEF Handed
<1> USE DEF PhaseOf, DocItem, Answer, Handed, Extraction
<1>5. CASE TakeOffline(w)
  <2>1. Kind(w) = "document" /\ pc[w] \in Handed /\ UNCHANGED nodeVars
        /\ item' = [item EXCEPT ![loc[w].item] = "failed"]
    BY <1>5 DEF TakeOffline, DocumentLost
  <2> QED  BY <1>2, <1>3, <2>1
<1>6. CASE ItemFails(w)
  <2>1. Kind(w) # "folder" /\ pc[w] \in Handed /\ UNCHANGED nodeVars
        /\ item' = [item EXCEPT ![loc[w].item] = "failed"]
    BY <1>6 DEF ItemFails
  <2> QED  BY <1>2, <1>3, <2>1
<1>7. ASSUME NEW d \in Docs, SkipDocument(w, d)
      PROVE  /\ phase[activeRun] = "extract" /\ DocItem(d) = "pending" /\ UNCHANGED nodeVars
             /\ item' = [item EXCEPT ![<<"document", d>>] = "partial"]
  BY <1>1, <1>7 DEF SkipDocument, Performs, InPhase
<1>8. CASE Stage(w) /\ ~Complete(Extracted(w))
  <2>1. pc[w] \in Extraction /\ UNCHANGED nodeVars
        /\ item' = [item EXCEPT ![loc[w].item] = "partial"]
    BY <1>8 DEF Stage
  <2> QED  BY <1>2, <1>3, <1>4, <2>1
<1>9. CASE Publish(w)
  <2>1. pc[w] \in Extraction /\ UNCHANGED nodeVars
        /\ item' = [item EXCEPT ![loc[w].item] = "succeeded"]
    BY <1>9 DEF Publish
  <2> QED  BY <1>2, <1>3, <1>4, <1>9, <2>1
<1>10. CASE Confirm(w)
  <2>1. pc[w] = "looked" /\ Kind(w) = "confirmation" /\ \E s \in {"missing", "succeeded"} :
          item' = [item EXCEPT ![loc[w].item] = s]
    BY <1>1, <1>10, AtWork DEF Confirm
  <2> QED  BY <1>2, <1>3, <1>10, <2>1
<1> QED  BY <1>2, <1>5, <1>6, <1>7, <1>8, <1>9, <1>10 DEF Settles

\* A phase goes on when nothing of it is left to do.
LEMMA Advanced ==
  ASSUME RunsInv, InHand, ItemsInv, NEW w \in Workers, Advances(w)
  PROVE  /\ UNCHANGED <<activeRun, lastRun, status, cursor, nodeVars, page>>
         /\ \/ /\ phase[activeRun] = "validate" /\ phase'[activeRun] = "enumerate"
               /\ item' = Add(item, {<<"folder", Root>>})
            \/ /\ phase[activeRun] = "enumerate" /\ phase'[activeRun] = "extract"
               /\ scanned'[activeRun] /\ UNCHANGED item
               /\ \A f \in Folders : FolderItem(f) # "pending"
            \/ /\ phase[activeRun] = "extract" /\ phase'[activeRun] = "reconcile"
               /\ UNCHANGED <<scanned, item>>
               /\ \A d \in Docs : DocItem(d) # "pending"
<1>1. Typed /\ loc[w].run = activeRun /\ holder = w /\ activeRun \in RunIds /\ OrderTypes
  BY WritesActive, OrderTyped DEF RunsInv, Writing
<1>2. CASE Validate(w)
  <2>1. phase[activeRun] = "validate"
    BY <1>1, <1>2 DEF InHand, Validate
  <2> QED  BY <1>1, <1>2, <2>1 DEF Validate, OrderTypes
<1>3. CASE EndEnumerate(w)
  <2>1. \A f \in Folders : FolderItem(f) # "pending"
    BY <1>3, ItemNames DEF EndEnumerate, NonePending, FolderItem
  <2> QED  BY <1>1, <1>3, <2>1 DEF EndEnumerate, InPhase, OrderTypes, sourceVars, itemVars
<1>4. CASE EndExtract(w)
  <2>1. \A d \in Docs : DocItem(d) # "pending"
    BY <1>4, ItemNames DEF EndExtract, NonePending, DocItem
  <2> QED  BY <1>1, <1>4, <2>1 DEF EndExtract, InPhase, OrderTypes, sourceVars, itemVars
<1> QED  BY <1>2, <1>3, <1>4 DEF Advances

\* A page that is recorded is one of the phase enumerate.
LEMMA PageRecorded ==
  ASSUME RunsInv, InHand, NEW w \in Workers, Discover(w)
  PROVE  /\ UNCHANGED <<activeRun, lastRun, status, phase, scanned, cursor>>
         /\ phase[activeRun] = "enumerate"
         /\ Key(w) \in Folders /\ FolderItem(Key(w)) = "pending"
         /\ DOMAIN loc[w].listing \subseteq Nodes
         /\ \A n \in DOMAIN loc[w].listing : loc[w].listing[n] \in Entries
         /\ \A i \in Items :
              item'[i] = IF page[Key(w)] >= Pages /\ i = <<"folder", Key(w)>> THEN "succeeded"
                         ELSE Add(item, NewItems(loc[w].listing))[i]
         /\ IF page[Key(w)] < Pages THEN page' = [page EXCEPT ![Key(w)] = @ + 1]
            ELSE UNCHANGED page
         /\ RecordNodes(w, loc[w].listing)
<1>1. Typed /\ loc[w].run = activeRun /\ holder = w
  BY WritesActive DEF RunsInv, Writing
<1>2. pc[w] = "listed"
  BY DEF Discover
<1>3. /\ loc[w].item \in Items /\ loc[w].item = <<"folder", Key(w)>> /\ Kind(w) = "folder"
      /\ Key(w) \in Folders
  BY <1>1, <1>2, AtWork, NamedItem
<1>4. phase[activeRun] = "enumerate" /\ item[loc[w].item] = "pending"
  BY <1>1, <1>2, <1>3 DEF InHand, Handed, PhaseOf
<1>5. /\ DOMAIN loc[w].listing \subseteq Nodes
      /\ \A n \in DOMAIN loc[w].listing : loc[w].listing[n] \in Entries
  BY <1>1, AtWork DEF Locals, Listings
<1>6. page[Key(w)] \in Nat /\ Pages \in Nat
  BY <1>1, <1>3, Bounds DEF Typed, TypeOK, ItemTypes
<1>7. UNCHANGED <<activeRun, lastRun, status, phase, scanned, cursor>> /\ RecordNodes(w, loc[w].listing)
  BY DEF Discover, sourceVars, runVars
<1>8. CASE page[Key(w)] < Pages
  <2>1. page' = [page EXCEPT ![Key(w)] = @ + 1] /\ item' = Add(item, NewItems(loc[w].listing))
    BY <1>8 DEF Discover
  <2> QED  BY <1>3, <1>4, <1>5, <1>6, <1>7, <1>8, <2>1 DEF FolderItem
<1>9. CASE ~(page[Key(w)] < Pages)
  <2>1. UNCHANGED page /\ item' = [Add(item, NewItems(loc[w].listing)) EXCEPT ![loc[w].item] = "succeeded"]
    BY <1>9 DEF Discover
  <2>2. \A i \in Items : item'[i] = IF i = <<"folder", Key(w)>> THEN "succeeded"
                         ELSE Add(item, NewItems(loc[w].listing))[i]
    BY <1>3, <2>1 DEF Add
  <2> QED  BY <1>3, <1>4, <1>5, <1>6, <1>7, <1>9, <2>1, <2>2 DEF FolderItem
<1> QED  BY <1>8, <1>9

LEMMA BatchQueued ==
  ASSUME RunsInv, NEW w \in Workers, QueueMissing(w)
  PROVE  /\ UNCHANGED <<activeRun, lastRun, status, phase, scanned, nodeVars, page>>
         /\ phase[activeRun] = "reconcile"
         /\ item' = Add(item, {<<"confirmation", n>> : n \in NextBatch(activeRun)})
         /\ \E last \in NextBatch(activeRun) :
              (\A n \in NextBatch(activeRun) : n <= last) /\ cursor'[activeRun] = last
<1>1. loc[w].run = activeRun /\ activeRun \in RunIds /\ OrderTypes
  BY WritesActive, OrderTyped DEF RunsInv, Writing
<1> QED  BY <1>1 DEF QueueMissing, InPhase, sourceVars, OrderTypes

LEMMA ItemsStep ==
  ASSUME RunsInv, OrderInv, InHand, ItemsInv, [Next]_vars
  PROVE  ItemsInv'
<1> USE ItemNames DEF FolderItem, DocItem, Answer
<1>1. CASE UNCHANGED scanVars
  BY <1>1 DEF scanVars, ItemsInv, NothingYet, FoldersSound, DocsSound, AnswersSound
<1>2. ASSUME NEW w \in Workers, Pick(w)
      PROVE  ItemsInv'
  <2>1. CASE UNCHANGED activeRun
    BY <1>1, <1>2, <2>1, Picked DEF scanVars
  <2>2. CASE ~UNCHANGED activeRun
    <3>1. activeRun = NoRun /\ activeRun' \in RunIds /\ status[activeRun'] = "queued"
          /\ UNCHANGED <<phase, cursor, item, page>>
      BY <1>2, <2>2, Picked DEF Queued
    <3>2. phase'[activeRun'] = "validate" /\ cursor'[activeRun'] = Root
      BY <3>1 DEF OrderInv, NotBegun
    <3>3. NothingYet'
      BY <3>1 DEF ItemsInv, NothingYet
    <3>4. FoldersSound' /\ DocsSound' /\ AnswersSound'
      BY <3>2, <3>3 DEF NothingYet, FoldersSound, DocsSound, AnswersSound, Scanned
    <3> QED  BY <3>3, <3>4 DEF ItemsInv
  <2> QED  BY <2>1, <2>2
<1>3. ASSUME NEW w \in Workers, Ends(w)
      PROVE  ItemsInv'
  BY <1>3, EndedRun DEF ItemsInv, NothingYet
<1>4. ASSUME NEW w \in Workers, Writing(w)
      PROVE  /\ activeRun # NoRun /\ FoldersSound /\ DocsSound /\ AnswersSound
             /\ phase[activeRun] = "validate" => NothingYet
  BY <1>4, WritesActive, Bounds DEF ItemsInv
<1>5. ASSUME NEW w \in Workers, Advances(w)
      PROVE  ItemsInv'
  <2>0. /\ FoldersSound /\ DocsSound /\ AnswersSound
        /\ phase[activeRun] = "validate" => NothingYet
    BY <1>4, <1>5 DEF Writing
  <2>1. UNCHANGED <<activeRun, cursor, page>>
    BY <1>5, Advanced
  <2>2. CASE /\ phase[activeRun] = "validate" /\ phase'[activeRun] = "enumerate"
             /\ item' = Add(item, {<<"folder", Root>>})
    <3>1. \A i \in Items : item'[i] = IF i = <<"folder", Root>> THEN "pending" ELSE "none"
      BY <2>0, <2>2 DEF NothingYet, Add
    <3>2. FoldersSound' /\ DocsSound' /\ AnswersSound'
      BY <2>0, <2>1, <2>2, <3>1 DEF FoldersSound, DocsSound, AnswersSound, Scanned
    <3> QED  BY <1>4, <1>5, <2>1, <2>2, <3>2 DEF ItemsInv, Writing
  <2>3. CASE /\ phase[activeRun] = "enumerate" /\ phase'[activeRun] = "extract"
             /\ scanned'[activeRun] /\ UNCHANGED item
             /\ \A f \in Folders : FolderItem(f) # "pending"
    <3>1. FoldersSound' /\ DocsSound' /\ AnswersSound'
      BY <2>0, <2>1, <2>3 DEF FoldersSound, DocsSound, AnswersSound, Scanned, Scanning
    <3> QED  BY <1>4, <1>5, <2>1, <2>3, <3>1 DEF ItemsInv, Writing
  <2>4. CASE /\ phase[activeRun] = "extract" /\ phase'[activeRun] = "reconcile"
             /\ UNCHANGED <<scanned, item>>
             /\ \A d \in Docs : DocItem(d) # "pending"
    <3>1. FoldersSound' /\ DocsSound' /\ AnswersSound'
      BY <2>0, <2>1, <2>4 DEF FoldersSound, DocsSound, AnswersSound, Scanned, Scanning
    <3> QED  BY <1>4, <1>5, <2>1, <2>4, <3>1 DEF ItemsInv, Writing
  <2> QED  BY <1>5, <2>2, <2>3, <2>4, Advanced
<1>6. ASSUME NEW w \in Workers, Settles(w)
      PROVE  ItemsInv'
  <2>0. /\ activeRun # NoRun /\ FoldersSound /\ DocsSound /\ AnswersSound
        /\ item \in [Items -> ItemStates]
    BY <1>4, <1>6 DEF Writing, RunsInv, Typed, TypeOK, ItemTypes
  <2>1. UNCHANGED <<activeRun, phase, scanned, cursor, page>>
    BY <1>6, Settled
  <2>2. ASSUME phase[activeRun] = "extract", NEW d \in Docs, NEW s \in {"failed", "partial", "succeeded"},
               item' = [item EXCEPT ![<<"document", d>>] = s]
        PROVE  ItemsInv'
    <3>1. \A i \in Items : item'[i] = IF i = <<"document", d>> THEN s ELSE item[i]
      BY <2>0, <2>2
    <3>2. FoldersSound' /\ DocsSound' /\ AnswersSound'
      BY <2>0, <2>1, <2>2, <3>1 DEF FoldersSound, DocsSound, AnswersSound, Scanned, Scanning
    <3> QED  BY <2>0, <2>1, <2>2, <3>2 DEF ItemsInv
  <2>3. ASSUME phase[activeRun] = "reconcile", NEW n \in Nodes,
               NEW s \in {"failed", "missing", "succeeded"},
               item' = [item EXCEPT ![<<"confirmation", n>>] = s]
        PROVE  ItemsInv'
    <3>1. \A i \in Items : item'[i] = IF i = <<"confirmation", n>> THEN s ELSE item[i]
      BY <2>0, <2>3
    <3>2. FoldersSound' /\ DocsSound' /\ AnswersSound'
      BY <2>0, <2>1, <2>3, <3>1 DEF FoldersSound, DocsSound, AnswersSound, Scanned, Scanning
    <3> QED  BY <2>0, <2>1, <2>3, <3>2 DEF ItemsInv
  <2> QED  BY <1>6, <2>2, <2>3, Settled
<1>7. ASSUME NEW w \in Workers, Discover(w)
      PROVE  ItemsInv'
  <2> DEFINE page1 == loc[w].listing
             new == NewItems(page1)
  <2>0. activeRun # NoRun /\ FoldersSound /\ DocsSound /\ AnswersSound
    BY <1>4, <1>7 DEF Writing
  <2>1. /\ UNCHANGED <<activeRun, phase, scanned, cursor>> /\ phase[activeRun] = "enumerate"
        /\ Key(w) \in Folders
        /\ \A i \in Items : item'[i] \in {IF i = <<"folder", Key(w)>> THEN "succeeded" ELSE Add(item, new)[i],
                                          Add(item, new)[i]}
    BY <1>7, PageRecorded
  <2>2. \A n \in Nodes : <<"confirmation", n>> \notin new
    BY DEF NewItems
  <2> HIDE DEF new
  <2>3. /\ \A f \in Folders : item'[<<"folder", f>>] \in {"succeeded", "pending", item[<<"folder", f>>]}
        /\ \A d \in Docs : item'[<<"document", d>>] \in {"pending", item[<<"document", d>>]}
        /\ \A n \in Nodes : item'[<<"confirmation", n>>] = item[<<"confirmation", n>>]
    BY <2>1, <2>2 DEF Add
  <2>4. FoldersSound' /\ DocsSound' /\ AnswersSound'
    BY <2>0, <2>1, <2>3 DEF FoldersSound, DocsSound, AnswersSound, Scanned, Scanning
  <2> QED  BY <2>0, <2>1, <2>4 DEF ItemsInv
<1>8. ASSUME NEW w \in Workers, QueueMissing(w)
      PROVE  ItemsInv'
  <2>0. activeRun # NoRun /\ FoldersSound /\ DocsSound /\ AnswersSound
    BY <1>4, <1>8 DEF Writing
  <2> DEFINE new == {<<"confirmation", n>> : n \in NextBatch(activeRun)}
  <2>1. UNCHANGED <<activeRun, phase, scanned, page>> /\ phase[activeRun] = "reconcile"
        /\ item' = Add(item, new)
    BY <1>8, BatchQueued
  <2>2. /\ \A f \in Folders : <<"folder", f>> \notin new
        /\ \A d \in Docs : <<"document", d>> \notin new
    OBVIOUS
  <2> HIDE DEF new
  <2>3. /\ \A f \in Folders : item'[<<"folder", f>>] = item[<<"folder", f>>]
        /\ \A d \in Docs : item'[<<"document", d>>] = item[<<"document", d>>]
        /\ \A n \in Nodes : item'[<<"confirmation", n>>] \in {"pending", item[<<"confirmation", n>>]}
    BY <2>1, <2>2 DEF Add
  <2>4. FoldersSound' /\ DocsSound' /\ AnswersSound'
    BY <2>0, <2>1, <2>3 DEF FoldersSound, DocsSound, AnswersSound, Scanned, Scanning
  <2> QED  BY <2>0, <2>1, <2>4 DEF ItemsInv
<1> QED
  BY <1>1, <1>2, <1>3, <1>5, <1>6, <1>7, <1>8, Untouched DEF Writing

-----------------------------------------------------------------------------
(***************************************************************************)
(* What a scan has seen, and what reconcile found out about the rest       *)
(***************************************************************************)

\* A node was met by a run that has begun, in a phase after validate; a scan that
\* missed it is a later one.
SeenInv == \A n \in Nodes :
  /\ nodeSeen[n] # NoRun => status[nodeSeen[n]] \in Ended \cup {"running"}
  /\ activeRun # NoRun /\ nodeSeen[n] = activeRun => phase[activeRun] # "validate"
  /\ missingRun[n] # NoRun => nodeSeen[n] < missingRun[n]

\* The confirmation items of the active run are about nodes that its scan has not met,
\* and say what became of them; up to the cursor none was left out.
Accounted(n) ==
  /\ Answer(n) # "none" => nodeSeen[n] # activeRun
  /\ Answer(n) = "succeeded" => nodeState[n] \notin Live
  /\ Answer(n) = "missing" => nodeState[n] = "missing" /\ missingRun[n] = activeRun
  /\ nodeState[n] \in Live /\ nodeSeen[n] # activeRun /\ n <= cursor[activeRun] =>
       Answer(n) # "none"
ConfirmInv == activeRun # NoRun => \A n \in Nodes : Accounted(n)

ScanInv == RunsInv /\ OrderInv /\ InHand /\ ItemsInv /\ SeenInv /\ ConfirmInv

LEMMA NodeTyped ==
  ASSUME Typed
  PROVE  /\ Nodes \subseteq Nat \ {0} /\ NodeTypes
         /\ item \in [Items -> ItemStates]
BY SyncAssumption DEF SyncAssumption, Typed, TypeOK, ItemTypes

\* The node whose confirmation commits, and its item.
LEMMA ConfirmedNode ==
  ASSUME RunsInv, InHand, NEW w \in Workers, Confirm(w)
  PROVE  LET n == Key(w)
             v == Verdict(w, n) IN
         /\ n \in Nodes /\ loc[w].item = <<"confirmation", n>>
         /\ v \in Offline \cup {"missing"}
         /\ phase[activeRun] = "reconcile" /\ Answer(n) = "pending"
         /\ nodeState'[n] = v /\ missingRun'[n] = activeRun
         /\ \A m \in Nodes \ {n} : nodeState'[m] = nodeState[m] /\ missingRun'[m] = missingRun[m]
         /\ UNCHANGED <<nodeDoc, nodeSeen, nodeParent>>
         /\ item'[<<"confirmation", n>>] = IF v = "missing" THEN "missing" ELSE "succeeded"
         /\ \A i \in Items : i # <<"confirmation", n>> => item'[i] = item[i]
<1> DEFINE n == Key(w)
           v == Verdict(w, n)
<1>1. Typed /\ loc[w].run = activeRun /\ holder = w
  BY WritesActive DEF RunsInv, Writing, Settles
<1>2. /\ pc[w] = "looked" /\ nodeState' = [nodeState EXCEPT ![n] = v]
      /\ missingRun' = [missingRun EXCEPT ![n] = activeRun]
      /\ UNCHANGED <<nodeDoc, nodeSeen, nodeParent>>
      /\ item' = [item EXCEPT ![loc[w].item] = IF v = "missing" THEN "missing" ELSE "succeeded"]
  BY <1>1 DEF Confirm
<1>3. n \in Nodes /\ loc[w].item = <<"confirmation", n>> /\ loc[w].item \in Items
      /\ Kind(w) = "confirmation"
  BY <1>1, <1>2, AtWork, NamedItem
<1>4. phase[activeRun] = "reconcile" /\ Answer(n) = "pending"
  BY <1>1, <1>2, <1>3 DEF InHand, Handed, PhaseOf, Answer
<1>5. v \in Offline \cup {"missing"}
  BY DEF Verdict, Offline
<1> HIDE DEF n, v
<1>6. nodeState'[n] = v /\ missingRun'[n] = activeRun
      /\ \A m \in Nodes \ {n} : nodeState'[m] = nodeState[m] /\ missingRun'[m] = missingRun[m]
  BY <1>1, <1>2, <1>3, NodeTyped DEF NodeTypes
<1>7. item'[<<"confirmation", n>>] = (IF v = "missing" THEN "missing" ELSE "succeeded")
      /\ \A i \in Items : i # <<"confirmation", n>> => item'[i] = item[i]
  BY <1>1, <1>2, <1>3, NodeTyped
<1> QED  BY <1>2, <1>3, <1>4, <1>5, <1>6, <1>7 DEF n, v

\* The nodes a page brings, and the others.
LEMMA PageNodes ==
  ASSUME RunsInv, NEW w \in Workers, Discover(w)
  PROVE  LET S == DOMAIN loc[w].listing IN
         /\ \A n \in S : nodeSeen'[n] = activeRun /\ missingRun'[n] = NoRun
                         /\ nodeDoc'[n] = loc[w].listing[n].doc
                         /\ nodeState'[n] = IF loc[w].listing[n].foreign THEN "out_of_scope"
                                            ELSE "active"
         /\ \A n \in Nodes \ S : nodeSeen'[n] = nodeSeen[n] /\ missingRun'[n] = missingRun[n]
                         /\ nodeDoc'[n] = nodeDoc[n] /\ nodeState'[n] = nodeState[n]
<1>1. Typed /\ loc[w].run = activeRun
  BY WritesActive DEF RunsInv, Writing
<1>2. DOMAIN loc[w].listing \subseteq Nodes
  BY <1>1, AtWork DEF Locals, Listings
<1> QED  BY <1>1, <1>2 DEF Discover, RecordNodes

\* A run that has begun has begun after all that had.
LEMMA SeenBefore ==
  ASSUME RunsInv, OrderInv, SeenInv, activeRun # NoRun, NEW n \in Nodes, nodeSeen[n] # activeRun
  PROVE  nodeSeen[n] < activeRun
<1>1. OrderTypes /\ nodeSeen[n] \in RunIds \cup {NoRun} /\ status[activeRun] = "running"
  BY OrderTyped, NodeTyped DEF RunsInv, NodeTypes, RunningIsActive, OrderTypes
<1>2. CASE nodeSeen[n] = NoRun
  <2>1. activeRun \in Nat \ {0}
    BY <1>1 DEF OrderTypes, NoRun
  <2> QED  BY <1>2, <2>1 DEF NoRun
<1>3. CASE nodeSeen[n] # NoRun
  <2>1. ~(activeRun < nodeSeen[n])
    BY <1>1, <1>3 DEF SeenInv, OrderInv, EndedBefore, OrderTypes, Ended
  <2>2. activeRun \in Nat /\ nodeSeen[n] \in Nat
    BY <1>1, <1>3 DEF OrderTypes
  <2> QED  BY <2>1, <2>2
<1> QED  BY <1>2, <1>3

LEMMA SeenStep ==
  ASSUME ScanInv, [Next]_vars
  PROVE  SeenInv'
<1>0. /\ RunsInv /\ OrderInv /\ InHand /\ ItemsInv /\ SeenInv /\ ConfirmInv
      /\ OrderTypes /\ NodeTypes /\ Nodes \subseteq Nat \ {0}
  BY OrderTyped, NodeTyped DEF ScanInv, RunsInv
\* Runs that have begun go on or end.
<1>1. ASSUME NEW q \in RunIds, status[q] \in Ended \cup {"running"}
      PROVE  status'[q] \in Ended \cup {"running"}
  <2>1. ASSUME NEW w \in Workers, Pick(w)
        PROVE  status'[q] \in Ended \cup {"running"}
    <3>1. CASE UNCHANGED status
      BY <1>1, <3>1
    <3>2. CASE activeRun' \in Queued /\ status' = [status EXCEPT ![activeRun'] = "running"]
      BY <1>0, <1>1, <3>2 DEF Queued, OrderTypes, Ended
    <3> QED  BY <1>0, <2>1, <3>1, <3>2, Picked
  <2>2. ASSUME NEW w \in Workers, Ends(w)
        PROVE  status'[q] \in Ended \cup {"running"}
    BY <1>0, <1>1, <2>2, EndedRun DEF QueuesNext, Ended
  <2>3. ASSUME NEW m \in {"full", "incremental"}, Enqueue(m)
        PROVE  status'[q] \in Ended \cup {"running"}
    BY <1>0, <1>1, <2>3, QueuedRun DEF QueuesNext, Ended
  <2>4. ASSUME NEW w \in Workers, Writing(w), ~Ends(w)
        PROVE  status'[q] \in Ended \cup {"running"}
    BY <1>0, <1>1, <2>4, ActiveOnly
  <2> QED  BY <1>1, <2>1, <2>2, <2>3, <2>4, Untouched
<1>2. ASSUME UNCHANGED nodeVars,
             \/ UNCHANGED <<activeRun, phase>>
             \/ activeRun' = NoRun
             \/ activeRun' \in Queued
             \/ UNCHANGED activeRun /\ phase'[activeRun] # "validate"
      PROVE  SeenInv'
  <2> SUFFICES ASSUME NEW n \in Nodes
               PROVE  /\ nodeSeen[n] # NoRun => status'[nodeSeen[n]] \in Ended \cup {"running"}
                      /\ activeRun' # NoRun /\ nodeSeen[n] = activeRun' => phase'[activeRun'] # "validate"
                      /\ missingRun[n] # NoRun => nodeSeen[n] < missingRun[n]
    BY <1>2 DEF SeenInv, nodeVars
  <2>1. nodeSeen[n] \in RunIds \cup {NoRun}
    BY <1>0 DEF NodeTypes
  <2>2. nodeSeen[n] # NoRun => status[nodeSeen[n]] \in Ended \cup {"running"}
    BY <1>0 DEF SeenInv
  <2>3. activeRun' # NoRun /\ nodeSeen[n] = activeRun' => activeRun' \notin Queued
    BY <2>2 DEF Queued, Ended
  <2>4. activeRun' # NoRun /\ nodeSeen[n] = activeRun' => phase'[activeRun'] # "validate"
    BY <1>0, <1>2, <2>3 DEF SeenInv
  <2> QED  BY <1>0, <1>1, <2>1, <2>2, <2>4 DEF SeenInv
<1>3. ASSUME NEW w \in Workers, Pick(w)
      PROVE  SeenInv'
  <2>1. UNCHANGED nodeVars
    BY <1>3 DEF Pick
  <2> QED  BY <1>0, <1>2, <1>3, <2>1, Picked
<1>4. ASSUME NEW w \in Workers, Ends(w)
      PROVE  SeenInv'
  <2>1. UNCHANGED nodeVars
    BY <1>4 DEF Ends, FailRun, Finish
  <2> QED  BY <1>0, <1>2, <1>4, <2>1, EndedRun
<1>5. ASSUME NEW w \in Workers, Advances(w)
      PROVE  SeenInv'
  BY <1>0, <1>2, <1>5, Advanced
<1>6. ASSUME NEW w \in Workers, Settles(w)
      PROVE  SeenInv'
  <2>1. UNCHANGED <<activeRun, phase>>
    BY <1>0, <1>6, Settled
  <2>2. CASE UNCHANGED nodeVars
    BY <1>2, <2>1, <2>2
  <2>3. CASE Confirm(w)
    <3> DEFINE n == Key(w)
    <3>1. /\ n \in Nodes /\ phase[activeRun] = "reconcile" /\ Answer(n) = "pending"
          /\ missingRun'[n] = activeRun /\ UNCHANGED nodeSeen
          /\ \A m \in Nodes \ {n} : missingRun'[m] = missingRun[m]
      BY <1>0, <2>3, ConfirmedNode
    <3> HIDE DEF n
    <3>2. activeRun # NoRun
      BY <1>0, <1>6, WritesActive DEF Writing, OrderTypes
    <3>3. nodeSeen[n] < activeRun
      BY <1>0, <3>1, <3>2, SeenBefore DEF ConfirmInv, Accounted
    <3>4. \A m \in Nodes : nodeSeen[m] \in RunIds \cup {NoRun}
      BY <1>0 DEF NodeTypes
    <3> QED  BY <1>0, <1>1, <2>1, <3>1, <3>3, <3>4 DEF SeenInv
  <2> QED  BY <1>0, <1>6, <2>2, <2>3, Settled
<1>7. ASSUME NEW w \in Workers, Discover(w)
      PROVE  SeenInv'
  <2>1. UNCHANGED <<activeRun, phase>> /\ phase[activeRun] = "enumerate"
        /\ DOMAIN loc[w].listing \subseteq Nodes
    BY <1>0, <1>7, PageRecorded
  <2>2. activeRun \in RunIds /\ status[activeRun] = "running"
    BY <1>0, <1>7, WritesActive DEF Writing
  <2>3. \A n \in Nodes : nodeSeen[n] \in RunIds \cup {NoRun}
    BY <1>0 DEF NodeTypes
  <2>4. \A n \in Nodes : \/ nodeSeen'[n] = activeRun /\ missingRun'[n] = NoRun
                         \/ nodeSeen'[n] = nodeSeen[n] /\ missingRun'[n] = missingRun[n]
    BY <1>0, <1>7, PageNodes
  <2> QED  BY <1>0, <1>1, <2>1, <2>2, <2>3, <2>4 DEF SeenInv
<1>8. ASSUME NEW w \in Workers, QueueMissing(w)
      PROVE  SeenInv'
  BY <1>0, <1>2, <1>8, BatchQueued
<1>9. CASE \A w \in Workers : ~Pick(w) /\ ~Writing(w)
  <2>1. UNCHANGED nodeVars
    BY <1>9, NodesUntouched DEF Writing, Settles
  <2> QED  BY <1>2, <1>9, <2>1, Untouched DEF scanVars
<1> QED  BY <1>3, <1>4, <1>5, <1>6, <1>7, <1>8, <1>9 DEF Writing

\* A batch leaves out no node below its last one, and is empty only when nothing lies
\* ahead.
LEMMA BatchFrom ==
  ASSUME Typed, NEW r \in RunIds
  PROVE  /\ \A last \in NextBatch(r), n \in Ahead(r) : n <= last => n \in NextBatch(r)
         /\ NextBatch(r) = {} => Ahead(r) = {}
<1>0. /\ Ahead(r) \subseteq Nodes /\ Nodes \subseteq Nat \ {0} /\ IsFiniteSet(Nodes)
      /\ ScanLimit \in Nat \ {0}
  BY SyncAssumption DEF SyncAssumption, Ahead, Unseen
<1>1. ASSUME NEW last \in NextBatch(r), NEW n \in Ahead(r), n <= last
      PROVE  n \in NextBatch(r)
  <2> DEFINE A == {m \in Ahead(r) : m < n}
             B == {m \in Ahead(r) : m < last}
  <2>1. A \subseteq B
    <3>1. last \in Nodes
      BY <1>0 DEF NextBatch
    <3>2. \A a, b, c \in Nat : a < b /\ b <= c => a < c
      OBVIOUS
    <3> QED  BY <1>0, <1>1, <3>1, <3>2
  <2>2. IsFiniteSet(B)
    BY <1>0, FS_Subset
  <2>3. Cardinality(A) <= Cardinality(B) /\ IsFiniteSet(A)
    BY <2>1, <2>2, FS_Subset
  <2>4. Cardinality(A) \in Nat /\ Cardinality(B) \in Nat
    BY <2>2, <2>3, FS_CardinalityType
  <2>5. Cardinality(B) < ScanLimit
    BY DEF NextBatch
  <2>6. Cardinality(A) < ScanLimit
    BY <1>0, <2>3, <2>4, <2>5
  <2> QED  BY <2>6 DEF NextBatch
<1>2. ASSUME NEW k \in Ahead(r)
      PROVE  NextBatch(r) # {}
  <2>1. PICK n \in Ahead(r) : \A m \in Ahead(r) : n <= m
    BY <1>0, Least
  <2>2. {m \in Ahead(r) : m < n} = {}
    <3>1. \A a, b \in Nat : a <= b => ~(b < a)
      OBVIOUS
    <3> QED  BY <1>0, <2>1, <3>1
  <2>3. Cardinality({m \in Ahead(r) : m < n}) < ScanLimit
    BY <1>0, <2>2, FS_EmptySet
  <2> QED  BY <2>3 DEF NextBatch
<1> QED  BY <1>1, <1>2

LEMMA AccountedStep ==
  ASSUME ScanInv, [Next]_vars
  PROVE  ConfirmInv'
<1>0. /\ RunsInv /\ OrderInv /\ InHand /\ ItemsInv /\ SeenInv /\ ConfirmInv
      /\ OrderTypes /\ NodeTypes /\ Nodes \subseteq Nat \ {0}
  BY OrderTyped, NodeTyped DEF ScanInv, RunsInv
<1>1. ItemsInv'
  BY <1>0, ItemsStep
\* Before reconcile there is nothing to say.
<1>2. CASE activeRun' = NoRun \/ phase'[activeRun'] # "reconcile"
  <2> SUFFICES ASSUME activeRun' # NoRun, NEW n \in Nodes
               PROVE  Accounted(n)'
    BY DEF ConfirmInv
  <2>1. cursor'[activeRun'] = Root /\ item'[<<"confirmation", n>>] = "none"
    BY <1>1, <1>2 DEF ItemsInv, AnswersSound, Answer
  <2>2. ~(n <= cursor'[activeRun'])
    BY <1>0, <2>1 DEF Root
  <2> QED  BY <2>1, <2>2 DEF Accounted, Answer
<1>3. ASSUME UNCHANGED <<nodeVars, activeRun>>, UNCHANGED cursor,
             \A n \in Nodes : Answer(n)' \in {Answer(n)} \cup
                                (IF Answer(n) = "pending" THEN {"failed"} ELSE {})
      PROVE  ConfirmInv'
  BY <1>0, <1>3 DEF ConfirmInv, Accounted, Answer, nodeVars
<1>4. ASSUME NEW w \in Workers, Confirm(w)
      PROVE  ConfirmInv'
  <2>1. PICK n \in Nodes, v \in Offline \cup {"missing"} :
        /\ Answer(n) = "pending" /\ nodeState'[n] = v /\ missingRun'[n] = activeRun
        /\ \A m \in Nodes \ {n} : nodeState'[m] = nodeState[m] /\ missingRun'[m] = missingRun[m]
        /\ UNCHANGED nodeSeen
        /\ item'[<<"confirmation", n>>] = IF v = "missing" THEN "missing" ELSE "succeeded"
        /\ \A i \in Items : i # <<"confirmation", n>> => item'[i] = item[i]
    BY <1>0, <1>4, ConfirmedNode
  <2>2. UNCHANGED <<activeRun, cursor>> /\ activeRun # NoRun
    BY <1>0, <1>4, Settled, WritesActive DEF Settles, Writing, OrderTypes
  <2>3. v # "missing" => v \notin Live
    BY <2>1 DEF Offline, Live
  <2>4. \A m \in Nodes : Accounted(m)
    BY <1>0, <2>2 DEF ConfirmInv
  <2>5. Accounted(n)'
    BY <2>1, <2>2, <2>3, <2>4 DEF Accounted, Answer
  <2>6. ASSUME NEW m \in Nodes \ {n}  PROVE Accounted(m)'
    <3>1. item'[<<"confirmation", m>>] = item[<<"confirmation", m>>]
      BY <2>1, <2>6, ItemNames
    <3> QED  BY <2>1, <2>2, <2>4, <2>6, <3>1 DEF Accounted, Answer
  <2> QED  BY <2>5, <2>6 DEF ConfirmInv
<1>5. ASSUME NEW w \in Workers, Settles(w)
      PROVE  ConfirmInv'
  <2>1. UNCHANGED <<activeRun, cursor, phase>> /\ item \in [Items -> ItemStates]
    BY <1>0, <1>5, Settled, NodeTyped DEF RunsInv
  <2>2. CASE phase[activeRun] = "extract"
    BY <1>2, <2>1, <2>2
  <2>3. ASSUME NEW n \in Nodes, Answer(n) = "pending", UNCHANGED nodeVars,
               item' = [item EXCEPT ![<<"confirmation", n>>] = "failed"]
        PROVE  ConfirmInv'
    <3>1. \A m \in Nodes : item'[<<"confirmation", m>>] =
            IF m = n THEN "failed" ELSE item[<<"confirmation", m>>]
      BY <2>1, <2>3, ItemNames
    <3>2. \A m \in Nodes : Answer(m)' \in {Answer(m)} \cup
                                (IF Answer(m) = "pending" THEN {"failed"} ELSE {})
      <4> SUFFICES ASSUME NEW m \in Nodes
                   PROVE  \/ item'[<<"confirmation", m>>] = Answer(m)
                          \/ /\ Answer(m) = "pending"
                             /\ item'[<<"confirmation", m>>] = "failed"
        BY DEF Answer
      <4> QED  BY <2>3, <3>1 DEF Answer
    <3> QED  BY <1>3, <2>1, <2>3, <3>2
  <2> QED  BY <1>0, <1>4, <1>5, <2>2, <2>3, Settled
<1>6. ASSUME NEW w \in Workers, QueueMissing(w)
      PROVE  ConfirmInv'
  <2> DEFINE r == activeRun
             batch == NextBatch(r)
             new == {<<"confirmation", n>> : n \in batch}
  <2>0. r \in RunIds /\ r # NoRun /\ Typed
    BY <1>0, <1>6, WritesActive DEF Writing, OrderTypes, RunsInv
  <2>1. /\ UNCHANGED <<activeRun, nodeVars>> /\ item' = Add(item, new)
    BY <1>0, <1>6, BatchQueued
  <2>2. PICK last \in batch : cursor'[r] = last
    BY <1>0, <1>6, BatchQueued
  <2>3. batch \subseteq Ahead(r) /\ Ahead(r) \subseteq Nodes
    BY DEF NextBatch, Ahead, Unseen
  <2>4. \A n \in Ahead(r) : n <= last => n \in batch
    BY <2>0, BatchFrom
  <2>5. \A n \in Nodes : <<"confirmation", n>> \in new <=> n \in batch
    BY <2>3
  <2> HIDE DEF batch
  <2> HIDE DEF new
  <2>6. \A n \in Nodes : item'[<<"confirmation", n>>] =
          IF n \in batch /\ Answer(n) = "none" THEN "pending" ELSE Answer(n)
    BY <2>1, <2>5, ItemNames DEF Add, Answer
  <2> HIDE DEF r
  <2> SUFFICES ASSUME NEW n \in Nodes
               PROVE  Accounted(n)'
    BY DEF ConfirmInv
  <2>7. Accounted(n)
    BY <1>0, <2>0 DEF ConfirmInv, r
  <2>8. n \in batch => nodeState[n] \in Live /\ nodeSeen[n] # r
    BY <2>3 DEF Ahead, Unseen
  <2>9. nodeState[n] \in Live /\ nodeSeen[n] # r /\ n <= last => n \in batch \/ n <= cursor[r]
    <3>1. cursor[r] \in Int
      <4>1. cursor[r] \in Folders
        BY <1>0, <2>0 DEF OrderTypes
      <4>2. \A f \in Folders : f \in Int
        BY <1>0 DEF Folders, Root
      <4> QED  BY <4>1, <4>2
    <3> QED  BY <1>0, <2>4, <3>1 DEF Ahead, Unseen
  <2>10. /\ item'[<<"confirmation", n>>] # "none" => nodeSeen[n] # r
         /\ item'[<<"confirmation", n>>] = "succeeded" => nodeState[n] \notin Live
         /\ item'[<<"confirmation", n>>] = "missing" => nodeState[n] = "missing" /\ missingRun[n] = r
    BY <2>6, <2>7, <2>8 DEF Accounted, r
  <2>11. nodeState[n] \in Live /\ nodeSeen[n] # r /\ n <= last => item'[<<"confirmation", n>>] # "none"
    BY <2>6, <2>7, <2>9 DEF Accounted, r
  <2> QED  BY <2>1, <2>2, <2>10, <2>11 DEF Accounted, Answer, nodeVars, r
<1>7. ASSUME NEW w \in Workers, Pick(w)
      PROVE  ConfirmInv'
  <2>1. UNCHANGED nodeVars
    BY <1>7 DEF Pick
  <2>2. UNCHANGED <<phase, cursor, item>>
    BY <1>0, <1>7, Picked
  <2>3. CASE UNCHANGED activeRun
    BY <1>3, <2>1, <2>2, <2>3 DEF Answer
  <2>4. CASE activeRun' \in Queued
    <3>1. phase[activeRun'] = "validate"
      BY <1>0, <2>4 DEF Queued, OrderInv, NotBegun
    <3> QED  BY <1>2, <2>2, <3>1
  <2> QED  BY <1>0, <1>7, <2>3, <2>4, Picked
<1>8. ASSUME NEW w \in Workers, Ends(w) \/ Discover(w)
      PROVE  ConfirmInv'
  BY <1>0, <1>2, <1>8, EndedRun, PageRecorded
<1>9. ASSUME NEW w \in Workers, Advances(w)
      PROVE  ConfirmInv'
  <2>1. UNCHANGED <<activeRun, cursor, nodeVars>>
    BY <1>0, <1>9, Advanced
  <2>2. CASE phase'[activeRun] # "reconcile"
    BY <1>2, <2>1, <2>2
  <2>3. CASE phase'[activeRun] = "reconcile"
    BY <1>0, <1>3, <1>9, <2>1, <2>3, Advanced DEF Answer
  <2> QED  BY <2>2, <2>3
<1>10. CASE \A w \in Workers : ~Pick(w) /\ ~Writing(w)
  <2>1. UNCHANGED nodeVars
    BY <1>10, NodesUntouched DEF Writing, Settles
  <2> QED  BY <1>3, <1>10, <2>1, Untouched DEF scanVars, Answer
<1> QED  BY <1>5, <1>6, <1>7, <1>8, <1>9, <1>10 DEF Writing

LEMMA ScanStep == ScanInv /\ [Next]_vars => ScanInv'
<1> SUFFICES ASSUME ScanInv, [Next]_vars  PROVE ScanInv'
  OBVIOUS
<1>1. RunsInv' /\ OrderInv' /\ InHand' /\ ItemsInv'
  BY RunsStep, OrderStep, InHandStep, ItemsStep DEF ScanInv
<1> QED  BY <1>1, SeenStep, AccountedStep DEF ScanInv

LEMMA ScanInit == Init => ScanInv
<1> SUFFICES ASSUME Init  PROVE ScanInv
  OBVIOUS
<1>1. RunsInv
  BY InitTyped, Bounds DEF Init, RunsInv, RunningIsActive, HolderOnActive, FutureAbsent, Busy
<1>2. OrderInv
  BY Bounds DEF Init, OrderInv, EndedBefore, Requested, NotBegun, Ended, RunIds, NoRun
<1>3. InHand
  BY DEF Init, InHand, Handed, Extraction
<1>4. ItemsInv
  BY DEF Init, ItemsInv, NothingYet
<1>5. SeenInv /\ ConfirmInv
  BY DEF Init, SeenInv, ConfirmInv
<1> QED  BY <1>1, <1>2, <1>3, <1>4, <1>5 DEF ScanInv

-----------------------------------------------------------------------------
(***************************************************************************)
(* What a scan may conclude                                                *)
(***************************************************************************)

LEMMA RemovedStep ==
  ASSUME ScanInv, [Next]_vars, NEW n \in Nodes, nodeState[n] \in Live, nodeState'[n] = "removed"
  PROVE  \E w \in Workers :
           /\ loc[w].item = <<"confirmation", n>> /\ scanned[loc[w].run]
           /\ \A f \in Folders : item[<<"folder", f>>] \in {"none", "succeeded"}
           /\ loc[w].reply = "present" =>
                \E q \in RunIds :
                  /\ nodeSeen[n] < q /\ q < loc[w].run
                  /\ scanned[q] /\ status[q] \in {"succeeded", "partial"}
<1>0. /\ RunsInv /\ OrderInv /\ InHand /\ ItemsInv /\ SeenInv /\ OrderTypes /\ NodeTypes
  BY OrderTyped, NodeTyped DEF ScanInv, RunsInv
<1>1. PICK w \in Workers : Confirm(w)
  <2>1. ASSUME NEW w \in Workers, Discover(w)  PROVE FALSE
    BY <1>0, <2>1, PageNodes DEF Live
  <2> QED  BY <2>1, NodesUntouched DEF nodeVars, Live
<1>2. /\ n = Key(w) /\ loc[w].item = <<"confirmation", n>> /\ phase[activeRun] = "reconcile"
      /\ Verdict(w, n) = "removed"
  BY <1>0, <1>1, ConfirmedNode DEF Live
<1>3. loc[w].run = activeRun /\ activeRun \in RunIds /\ status[activeRun] = "running"
      /\ activeRun # NoRun
  BY <1>0, <1>1, WritesActive DEF Writing, Settles, OrderTypes
<1>4. scanned[activeRun] /\ \A f \in Folders : FolderItem(f) \in {"none", "succeeded"}
  BY <1>0, <1>2, <1>3 DEF ItemsInv, FoldersSound, Scanned
<1>5. ASSUME loc[w].reply = "present"
      PROVE  /\ missingRun[n] \in RunIds /\ nodeSeen[n] < missingRun[n]
             /\ missingRun[n] < activeRun
             /\ scanned[missingRun[n]] /\ status[missingRun[n]] \in {"succeeded", "partial"}
  <2>1. MissedBefore(w, n)
    BY <1>2, <1>5 DEF Verdict
  <2>2. missingRun[n] \in RunIds /\ missingRun[n] # NoRun /\ missingRun[n] # activeRun
    BY <1>0, <1>3, <2>1 DEF MissedBefore, NodeTypes
  <2>3. ~(activeRun < missingRun[n])
    BY <1>0, <1>3, <2>1, <2>2 DEF MissedBefore, OrderInv, EndedBefore, Ended
  <2>4. missingRun[n] \in Nat /\ activeRun \in Nat
    BY <1>0, <1>3, <2>2 DEF OrderTypes
  <2>5. missingRun[n] < activeRun
    BY <2>2, <2>3, <2>4
  <2> QED  BY <1>0, <2>1, <2>2, <2>5 DEF MissedBefore, SeenInv
<1> QED  BY <1>2, <1>3, <1>4, <1>5 DEF FolderItem

\* A node is given up only when every folder was listed to its end; one that Feishu
\* still shows was missed before by an earlier complete scan, itself later than the last
\* one that met it (advance, confirmMissing): an item taken in
\* one run, an answer that arrives late or a run that was interrupted cannot count.
THEOREM GivenUpAfterTwoScans == Spec => RemovedAfterTwoScans
<1> DEFINE A == \A n \in Nodes : nodeState[n] \in Live /\ nodeState'[n] = "removed" =>
       \E w \in Workers :
         /\ loc[w].item = <<"confirmation", n>> /\ scanned[loc[w].run]
         /\ \A f \in Folders : item[<<"folder", f>>] \in {"none", "succeeded"}
         /\ loc[w].reply = "present" =>
              \E q \in RunIds :
                /\ nodeSeen[n] < q /\ q < loc[w].run
                /\ scanned[q] /\ status[q] \in {"succeeded", "partial"}
<1>1. ScanInv /\ [Next]_vars => [A]_vars
  BY RemovedStep
<1> QED  BY <1>1, ScanInit, ScanStep, PTL DEF Spec, RemovedAfterTwoScans

\* A run that ends well was finished: nothing lay ahead, nothing was pending.
LEMMA EndedWell ==
  ASSUME ScanInv, [Next]_vars, NEW r \in RunIds, status[r] = "running",
         status'[r] \in {"succeeded", "partial"}
  PROVE  \E w \in Workers : Finish(w) /\ loc[w].run = r /\ activeRun = r /\ status'[r] = Outcome
<1>0. RunsInv /\ OrderInv /\ OrderTypes /\ activeRun = r /\ r # NoRun
  BY OrderTyped DEF ScanInv, RunsInv, RunningIsActive, OrderTypes
<1>1. ASSUME NEW w \in Workers, Pick(w)
      PROVE  FALSE
  BY <1>0, <1>1, Picked
<1>2. ASSUME NEW w \in Workers, Writing(w), ~Ends(w)
      PROVE  FALSE
  BY <1>0, <1>2, ActiveOnly
<1>3. ASSUME NEW m \in {"full", "incremental"}, Enqueue(m)
      PROVE  FALSE
  BY <1>0, <1>3, QueuedRun DEF QueuesNext
<1>4. PICK w \in Workers : Ends(w)
  BY <1>1, <1>2, <1>3, Untouched
<1>5. loc[w].run = r
  BY <1>0, <1>4, WritesActive DEF Writing
<1>6. Finish(w)
  BY <1>0, <1>4, <1>5 DEF Ends, FailRun, OrderTypes
<1>7. status'[r] = Outcome
  <2>1. ASSUME ConfirmAgain  PROVE lastRun + 1 # r
    BY <1>0, <2>1, NextAbsent DEF ConfirmAgain
  <2> QED  BY <1>0, <1>5, <1>6, <2>1 DEF Finish, OrderTypes
<1> QED  BY <1>0, <1>5, <1>6, <1>7

LEMMA FullScanStep ==
  ASSUME ScanInv, [Next]_vars, NEW r \in RunIds, mode[r] = "full", status[r] = "running",
         status'[r] \in {"succeeded", "partial"}, NEW n \in Nodes, nodeState[n] \in Live
  PROVE  \/ nodeSeen[n] = r
         \/ nodeState[n] = "missing" /\ missingRun[n] = r
         \/ item[<<"confirmation", n>>] = "failed" /\ status'[r] = "partial"
<1>0. /\ Typed /\ ItemsInv /\ ConfirmInv /\ OrderTypes /\ NodeTypes /\ Nodes \subseteq Nat \ {0}
      /\ item \in [Items -> ItemStates] /\ <<"confirmation", n>> \in Items
  BY OrderTyped, NodeTyped, ItemNames DEF ScanInv, RunsInv
<1>1. PICK w \in Workers : Finish(w) /\ loc[w].run = r /\ activeRun = r /\ status'[r] = Outcome
  BY EndedWell
<1>2. NonePending("confirmation") /\ NextBatch(r) = {}
  BY <1>1 DEF Finish, NothingAhead
<1>3. Answer(n) # "pending"
  BY <1>0, <1>2 DEF NonePending, Answer
<1>4. Ahead(r) = {}
  BY <1>0, <1>2, BatchFrom
<1>5. nodeSeen[n] # r => n <= cursor[r]
  <2>1. cursor[r] \in Folders /\ \A f \in Folders : f \in Int
    BY <1>0 DEF OrderTypes, Folders, Root
  <2> QED  BY <1>0, <1>4, <2>1 DEF Ahead, Unseen
<1>6. Accounted(n) /\ AnswersSound
  BY <1>0, <1>1 DEF ConfirmInv, ItemsInv, OrderTypes
<1>7. CASE nodeSeen[n] # r
  <2>1. Answer(n) \notin {"none", "pending", "succeeded", "partial"}
    BY <1>1, <1>3, <1>5, <1>6, <1>7 DEF Accounted, AnswersSound
  <2>2. Answer(n) \in {"failed", "missing"}
    BY <1>0, <2>1 DEF Answer, ItemStates
  <2>3. Answer(n) = "failed" => Outcome = "partial"
    BY <1>0 DEF Answer, Outcome
  <2> QED  BY <1>1, <1>6, <2>2, <2>3 DEF Accounted, Answer
<1> QED  BY <1>7

\* A full run that ends well has met every live node, or found it missing itself, or says
\* "partial": however the batches of the cursor fall, and whatever was retried or taken
\* over on the way (advance, finish).
THEOREM FullScansAccount == Spec => FullScanAccounts
<1> DEFINE A == \A r \in RunIds : mode[r] = "full" /\ status[r] = "running"
                       /\ status'[r] \in {"succeeded", "partial"} =>
       \A n \in Nodes : nodeState[n] \in Live =>
         \/ nodeSeen[n] = r
         \/ nodeState[n] = "missing" /\ missingRun[n] = r
         \/ item[<<"confirmation", n>>] = "failed" /\ status'[r] = "partial"
<1>1. ScanInv /\ [Next]_vars => [A]_vars
  BY FullScanStep
<1> QED  BY <1>1, ScanInit, ScanStep, PTL DEF Spec, FullScanAccounts

-----------------------------------------------------------------------------
(***************************************************************************)
(* What a run has published stays in service until its end                 *)
(***************************************************************************)

\* The documents of the nodes met so far have items, and one whose item succeeded is
\* in service as long as an active node shows it.
ServedInv == activeRun # NoRun =>
  /\ \A n \in Nodes : nodeSeen[n] = activeRun => DocItem(nodeDoc[n]) # "none"
  /\ \A n \in Nodes : nodeState[n] = "active" /\ DocItem(nodeDoc[n]) = "succeeded" =>
       Readable(nodeDoc[n])

ServedScanInv == ScanInv /\ ServingInv /\ ServedInv

Reaches(w) ==
  Publish(w) \/ TakeOffline(w) \/ FailRun(w) \/ Validate(w) \/ Discover(w) \/ Confirm(w)

LEMMA ReadableKept ==
  ASSUME ServingInv, [Next]_vars, \A w \in Workers : ~Reaches(w)
  PROVE  \A d \in Docs : Readable(d)' <=> Readable(d)
<1>1. UNCHANGED servingVars => \A d \in Docs : Readable(d)' <=> Readable(d)
  BY DEF servingVars, Readable
<1>2. ASSUME NEW w \in Workers, Progress(w)
      PROVE  \A d \in Docs : Readable(d)' <=> Readable(d)
  BY <1>1, <1>2, FrameInert, CallsInert, WritesStep
  DEF Progress, Handling, Enumerating, Extracting, Reconciling, Calls, Writes, Reaches
<1>3. UNCHANGED vars => UNCHANGED servingVars
  BY DEF vars, dbVars, sourceVars, docVars, revVars, servingVars
<1> QED  BY <1>1, <1>2, <1>3, EnvironmentInert DEF Next

\* Publication, a lost document and a confirmation each concern one document.
LEMMA PublishServes ==
  ASSUME Typed, ServingInv, NEW w \in Workers, Publish(w)
  PROVE  /\ Key(w) \in Docs /\ \A d \in Docs : d = Key(w) => Readable(d)'
         /\ \A d \in Docs : d # Key(w) => (Readable(d)' <=> Readable(d))
<1>1. /\ Key(w) \in Docs /\ loc[w] \in Locals
      /\ pc[w] = "verified" /\ health = "healthy" /\ UNCHANGED <<health, epoch>>
      /\ activeRev' = [activeRev EXCEPT ![Key(w)] = Extracted(w)]
      /\ docEpoch' = [docEpoch EXCEPT ![Key(w)] = epoch]
      /\ docStatus' = [docStatus EXCEPT ![Key(w)] = "published"]
  BY AtWork DEF Publish, MayPublish, sourceVars, Extraction
<1>2. docStatus \in [Docs -> DocStatuses] /\ docEpoch \in [Docs -> Int]
      /\ activeRev \in [Docs -> RevIds \cup {NoRev}]
  BY DEF Typed, TypeOK, DocTypes
<1>3. Extracted(w) # NoRev
  <2>1. Extracted(w) \in RevIds
    BY <1>1 DEF Extracted, RevIds, Locals, Drafts
  <2> QED  BY <2>1, NoRevAssumption
<1> HIDE DEF Extracted
<1>4. \A d \in Docs : d = Key(w) => activeRev'[d] # NoRev /\ docEpoch'[d] = epoch'
                       /\ docStatus'[d] = "published"
  BY <1>1, <1>2, <1>3
<1>5. \A d \in Docs : d # Key(w) => activeRev'[d] = activeRev[d] /\ docEpoch'[d] = docEpoch[d]
                       /\ docStatus'[d] = docStatus[d]
  BY <1>1, <1>2
<1> QED  BY <1>1, <1>4, <1>5 DEF Readable, Offline

LEMMA TakeOfflineOne ==
  ASSUME Typed, NEW w \in Workers, TakeOffline(w), NEW d \in Docs, d # Key(w)
  PROVE  Readable(d)' <=> Readable(d)
<1>1. docStatus'[d] = docStatus[d] /\ docEpoch'[d] = docEpoch[d]
      /\ UNCHANGED <<health, epoch, activeRev>>
  BY DEF TakeOffline, sourceVars, Typed, TypeOK, DocTypes
<1> QED  BY <1>1 DEF Readable

LEMMA ConfirmKeeps ==
  ASSUME Typed, NEW w \in Workers, Confirm(w), NEW d \in Docs,
         d # nodeDoc[Key(w)] \/ HeldByAnother(Key(w), d)
  PROVE  Readable(d)' <=> Readable(d)
<1>1. UNCHANGED <<health, epoch, activeRev>>
  BY DEF Confirm, sourceVars
<1>2. docStatus'[d] = docStatus[d] /\ docEpoch'[d] = docEpoch[d]
  <2> DEFINE n == Key(w)
             e == nodeDoc[n]
             v == Verdict(w, n)
  <2>1. \/ UNCHANGED <<docStatus, docEpoch>>
        \/ /\ ~HeldByAnother(n, e)
           /\ docStatus' = [docStatus EXCEPT ![e] = v] /\ docEpoch' = [docEpoch EXCEPT ![e] = -1]
    BY DEF Confirm
  <2> HIDE DEF n, v
  <2> HIDE DEF e
  <2>2. ~HeldByAnother(n, e) => d # e
    BY DEF e, n
  <2> QED  BY <2>1, <2>2 DEF Typed, TypeOK, DocTypes
<1> QED  BY <1>1, <1>2 DEF Readable

LEMMA ServedStep ==
  ASSUME ServedScanInv, [Next]_vars
  PROVE  ServedInv'
<1>0. /\ ScanInv /\ RunsInv /\ OrderInv /\ InHand /\ ItemsInv /\ SeenInv /\ ServingInv /\ ServedInv
      /\ Typed /\ OrderTypes /\ NodeTypes /\ item \in [Items -> ItemStates]
  BY OrderTyped, NodeTyped DEF ServedScanInv, ScanInv, RunsInv
<1>1. ItemsInv'
  BY <1>0, ItemsStep
<1> USE ItemNames
\* A step that keeps the nodes, keeps in service what had succeeded, and gives no item up.
<1>2. ASSUME UNCHANGED <<nodeVars, activeRun>>,
             \A d \in Docs : DocItem(d) # "none" => item'[<<"document", d>>] # "none",
             \A d \in Docs : item'[<<"document", d>>] = "succeeded" =>
               Readable(d)' \/ (DocItem(d) = "succeeded" /\ (Readable(d) => Readable(d)'))
      PROVE  ServedInv'
  BY <1>0, <1>2 DEF ServedInv, nodeVars, NodeTypes, DocItem
<1>3. ASSUME NEW w \in Workers, Pick(w)
      PROVE  ServedInv'
  <2>1. UNCHANGED <<nodeVars, servingVars>>
    BY <1>3, FrameInert DEF Pick, Frame
  <2>2. UNCHANGED item
    BY <1>0, <1>3, Picked
  <2>3. CASE UNCHANGED activeRun
    BY <1>2, <2>1, <2>2, <2>3 DEF servingVars, Readable, DocItem
  <2>4. CASE activeRun = NoRun /\ activeRun' \in Queued
    <3>1. \A n \in Nodes : nodeSeen[n] # activeRun'
      BY <1>0, <2>4 DEF SeenInv, Queued, Ended, OrderTypes
    <3>2. \A d \in Docs : item[<<"document", d>>] = "none"
      BY <1>0, <2>4 DEF ItemsInv, NothingYet
    <3>3. \A n \in Nodes : nodeDoc[n] \in Docs
      BY <1>0 DEF NodeTypes
    <3> QED  BY <2>1, <2>2, <3>1, <3>2, <3>3 DEF ServedInv, DocItem, nodeVars
  <2> QED  BY <1>0, <1>3, <2>3, <2>4, Picked
<1>4. ASSUME NEW w \in Workers, Ends(w)
      PROVE  ServedInv'
  BY <1>0, <1>4, EndedRun DEF ServedInv
<1>5. ASSUME NEW w \in Workers, Advances(w)
      PROVE  ServedInv'
  <2>1. activeRun # NoRun /\ UNCHANGED <<activeRun, nodeVars>>
    BY <1>0, <1>5, WritesActive, Advanced DEF Writing, OrderTypes
  <2>2. CASE phase[activeRun] = "validate" /\ item' = Add(item, {<<"folder", Root>>})
    <3>1. \A d \in Docs : item[<<"document", d>>] = "none" /\ item'[<<"document", d>>] = "none"
      BY <1>0, <2>2 DEF ItemsInv, NothingYet, Add
    <3> QED  BY <1>2, <2>1, <3>1 DEF DocItem
  <2>3. CASE EndEnumerate(w) \/ EndExtract(w)
    <3>1. UNCHANGED <<servingVars, item>>
      BY <2>3, CallsInert DEF Calls, EndEnumerate, EndExtract, itemVars
    <3> QED  BY <1>2, <2>1, <3>1 DEF servingVars, Readable, DocItem
  <2>4. CASE Validate(w)
    <3>1. phase[activeRun] = "validate" /\ item' = Add(item, {<<"folder", Root>>})
      BY <1>0, <1>5, <2>4, WritesActive DEF InHand, Validate, Writing
    <3> QED  BY <2>2, <3>1
  <2> QED  BY <1>5, <2>3, <2>4 DEF Advances
<1>6. ASSUME NEW w \in Workers, Settles(w)
      PROVE  ServedInv'
  <2>1. UNCHANGED activeRun /\ activeRun # NoRun
    BY <1>0, <1>6, Settled, WritesActive DEF Writing, OrderTypes
  <2>2. CASE TakeOffline(w)
    <3>1. /\ loc[w].item \in Items /\ loc[w].item = <<"document", Key(w)>> /\ UNCHANGED nodeVars
          /\ item' = [item EXCEPT ![loc[w].item] = "failed"]
      BY <1>0, <2>2, AtWork, NamedItem DEF TakeOffline, DocumentLost
    <3>2. \A d \in Docs : item'[<<"document", d>>] =
            IF d = Key(w) THEN "failed" ELSE item[<<"document", d>>]
      <4>1. \A i \in Items : item'[i] = IF i = loc[w].item THEN "failed" ELSE item[i]
        BY <1>0, <3>1
      <4>2. \A d \in Docs : <<"document", d>> = loc[w].item <=> d = Key(w)
        BY <3>1
      <4> QED  BY <4>1, <4>2
    <3> QED  BY <1>0, <1>2, <2>1, <2>2, <3>1, <3>2, TakeOfflineOne DEF DocItem
  <2>3. CASE Publish(w)
    <3>1. /\ loc[w].item \in Items /\ loc[w].item = <<"document", Key(w)>> /\ UNCHANGED nodeVars
          /\ item' = [item EXCEPT ![loc[w].item] = "succeeded"]
      BY <1>0, <2>3, AtWork, NamedItem DEF Publish, Extraction
    <3>2. \A d \in Docs : item'[<<"document", d>>] =
            IF d = Key(w) THEN "succeeded" ELSE item[<<"document", d>>]
      <4>1. \A i \in Items : item'[i] = IF i = loc[w].item THEN "succeeded" ELSE item[i]
        BY <1>0, <3>1
      <4>2. \A d \in Docs : <<"document", d>> = loc[w].item <=> d = Key(w)
        BY <3>1
      <4> QED  BY <4>1, <4>2
    <3> QED  BY <1>0, <1>2, <2>1, <2>3, <3>1, <3>2, PublishServes DEF DocItem
  <2>4. CASE Confirm(w)
    <3>1. PICK n \in Nodes, v \in Offline \cup {"missing"} :
            /\ n = Key(w) /\ nodeState'[n] = v /\ UNCHANGED <<nodeDoc, nodeSeen>>
            /\ \A m \in Nodes \ {n} : nodeState'[m] = nodeState[m]
            /\ \A i \in Items : i # <<"confirmation", n>> => item'[i] = item[i]
      BY <1>0, <2>4, ConfirmedNode
    <3>2. \A d \in Docs : item'[<<"document", d>>] = item[<<"document", d>>]
      BY <3>1
    <3>3. ASSUME NEW m \in Nodes, nodeState'[m] = "active",
                 item'[<<"document", nodeDoc[m]>>] = "succeeded"
          PROVE  Readable(nodeDoc[m])'
      <4>1. nodeDoc[m] \in Docs /\ m # n /\ nodeState[m] = "active"
        BY <1>0, <3>1, <3>3 DEF NodeTypes, Offline
      <4>2. Readable(nodeDoc[m])
        BY <1>0, <2>1, <3>2, <3>3, <4>1 DEF ServedInv, DocItem
      <4>3. HeldByAnother(Key(w), nodeDoc[m])
        BY <3>1, <4>1 DEF HeldByAnother, Live
      <4>4. \A d \in Docs : d = nodeDoc[m] => (Readable(d)' <=> Readable(d))
        BY <1>0, <2>4, <4>3, ConfirmKeeps
      <4>5. nodeDoc' = nodeDoc
        BY <3>1
      <4> QED  BY <4>1, <4>2, <4>4, <4>5 DEF Readable
    <3> QED  BY <1>0, <2>1, <3>1, <3>2, <3>3 DEF ServedInv, DocItem, NodeTypes
  <2>5. CASE ~TakeOffline(w) /\ ~Publish(w) /\ ~Confirm(w)
    <3>1. Writes(w)
      BY <1>6, <2>5 DEF Settles, Writes
    <3>2. \A d \in Docs : Readable(d)' <=> Readable(d)
      BY <1>0, <3>1, WritesStep
    <3>3. UNCHANGED nodeVars /\ \A d \in Docs :
            item'[<<"document", d>>] \in {item[<<"document", d>>], "failed", "partial"}
      BY <1>0, <1>6, <2>5, Settled
    <3> QED  BY <1>2, <2>1, <3>2, <3>3 DEF DocItem
  <2> QED  BY <2>2, <2>3, <2>4, <2>5
<1>7. ASSUME NEW w \in Workers, Discover(w)
      PROVE  ServedInv'
  <2> DEFINE page1 == loc[w].listing
             S == DOMAIN page1
  <2>1. activeRun # NoRun
    BY <1>0, <1>7, WritesActive DEF Writing, OrderTypes
  <2>2. /\ UNCHANGED <<activeRun, phase>> /\ phase[activeRun] = "enumerate"
        /\ S \subseteq Nodes /\ \A n \in S : page1[n] \in Entries
        /\ \A d \in Docs : item'[<<"document", d>>] = Add(item, NewItems(page1))[<<"document", d>>]
    BY <1>0, <1>7, PageRecorded
  <2>3. \A d \in Docs : item'[<<"document", d>>] \in {"none", "pending"}
    BY <1>1, <2>1, <2>2 DEF ItemsInv, DocsSound, Scanning, DocItem
  <2>4. \A n \in Nodes : nodeDoc'[n] \in Docs
    BY <1>0, NextTyped DEF Typed, TypeOK, NodeTypes
  <2>5. /\ \A n \in S : nodeDoc'[n] = page1[n].doc
        /\ \A n \in Nodes \ S : nodeSeen'[n] = nodeSeen[n] /\ nodeDoc'[n] = nodeDoc[n]
    BY <1>0, <1>7, PageNodes
  <2>6. \A n \in S : <<"document", page1[n].doc>> \in NewItems(page1)
    BY DEF NewItems
  <2> HIDE DEF page1
  <2> HIDE DEF S
  <2>7. ASSUME NEW n \in Nodes, nodeSeen'[n] = activeRun
        PROVE  item'[<<"document", nodeDoc'[n]>>] # "none"
    <3>1. CASE n \in S
      BY <2>2, <2>4, <2>5, <2>6, <3>1 DEF Add
    <3>2. CASE n \notin S
      BY <1>0, <2>1, <2>2, <2>4, <2>5, <2>7, <3>2 DEF Add, ServedInv, DocItem
    <3> QED  BY <3>1, <3>2
  <2> QED  BY <2>2, <2>3, <2>4, <2>7 DEF ServedInv, DocItem
<1>8. ASSUME NEW w \in Workers, QueueMissing(w)
      PROVE  ServedInv'
  <2>1. UNCHANGED <<servingVars, activeRun, nodeVars>>
    BY <1>0, <1>8, CallsInert, BatchQueued DEF Calls
  <2>2. \A d \in Docs : item'[<<"document", d>>] = item[<<"document", d>>]
    BY <1>0, <1>8, BatchQueued DEF Add
  <2> QED  BY <1>2, <2>1, <2>2 DEF servingVars, Readable, DocItem
<1>9. CASE \A w \in Workers : ~Pick(w) /\ ~Writing(w)
  <2>1. UNCHANGED <<nodeVars, activeRun, item>>
    BY <1>9, NodesUntouched, Untouched DEF Writing, Settles, scanVars
  <2>2. \A d \in Docs : Readable(d)' <=> Readable(d)
    BY <1>0, <1>9, ReadableKept DEF Writing, Settles, Ends, Advances, Reaches
  <2> QED  BY <1>2, <2>1, <2>2 DEF DocItem
<1> QED  BY <1>3, <1>4, <1>5, <1>6, <1>7, <1>8, <1>9 DEF Writing

LEMMA SucceededStep ==
  ASSUME ServedScanInv, [Next]_vars, NEW r \in RunIds, status[r] = "running",
         status'[r] = "succeeded",
         NEW n \in Nodes, nodeSeen[n] = r, nodeState[n] = "active"
  PROVE  Readable(nodeDoc[n])'
<1>0. /\ ScanInv /\ ItemsInv /\ ServedInv /\ OrderTypes
      /\ nodeDoc[n] \in Docs /\ item \in [Items -> ItemStates]
      /\ <<"document", nodeDoc[n]>> \in Items
  BY OrderTyped, NodeTyped, ItemNames DEF ServedScanInv, ScanInv, RunsInv, NodeTypes
<1>1. PICK w \in Workers : Finish(w) /\ activeRun = r /\ loc[w].run = r /\ Outcome = "succeeded"
  BY <1>0, EndedWell
<1>2. DocItem(nodeDoc[n]) \notin {"failed", "partial"}
  BY <1>0, <1>1 DEF Outcome, DocItem
<1>3. phase[r] = "reconcile" /\ r # NoRun
  BY <1>0, <1>1 DEF Finish, InPhase, OrderTypes
<1>4. DocItem(nodeDoc[n]) \notin {"none", "pending", "missing"}
  BY <1>0, <1>1, <1>3 DEF ServedInv, ItemsInv, DocsSound
<1>5. DocItem(nodeDoc[n]) = "succeeded"
  BY <1>0, <1>2, <1>4 DEF DocItem, ItemStates
<1>6. Readable(nodeDoc[n])
  BY <1>0, <1>1, <1>3, <1>5 DEF ServedInv
<1>7. UNCHANGED <<servingVars, nodeDoc>>
  BY <1>1, CallsInert DEF Calls, Finish, nodeVars
<1> QED  BY <1>6, <1>7 DEF servingVars, Readable

\* A run that succeeds leaves every document it met at an active node in service: what
\* extract published is not taken off line again in reconcile, by a confirmation of
\* another place of the document, by a takeover or by a retry (publish, confirmMissing,
\* finish).
THEOREM SucceededRunServes == Spec => SucceededServesAll
<1> DEFINE A == \A r \in RunIds : status[r] = "running" /\ status'[r] = "succeeded" =>
       \A n \in Nodes :
         nodeSeen[n] = r /\ nodeState[n] = "active" => Readable(nodeDoc[n])'
<1>1. Init => ServedScanInv
  BY ScanInit, ServingInit DEF Init, ServedScanInv, ServedInv
<1>2. ServedScanInv /\ [Next]_vars => ServedScanInv'
  BY ScanStep, ServingStep, ServedStep DEF ServedScanInv
<1>3. ServedScanInv /\ [Next]_vars => [A]_vars
  BY SucceededStep
<1> QED  BY <1>1, <1>2, <1>3, PTL DEF Spec, SucceededServesAll

-----------------------------------------------------------------------------
(***************************************************************************)
(* The part of the space that nobody touches                               *)
(***************************************************************************)

\* The document that the node showed at first was never touched, and so neither was
\* the node.
Steady(n) == InitTarget[n] \notin disturbed

\* What is not disturbed is as it was at first.
SpaceInv ==
  /\ \A n \in Nodes : place[n] \in Nodes => place[place[n]] \notin Nodes
  /\ \A d \in Docs \ disturbed :
       access[d] = "ok" /\ \A n \in Nodes : target[n] = d <=> InitTarget[n] = d
  /\ \A n \in Nodes : Steady(n) =>
       /\ place[n] = InitPlace[n] /\ foreign[n] = InitForeign[n]
       /\ InitPlace[n] \in Nodes =>
            /\ place[InitPlace[n]] = InitPlace[InitPlace[n]]
            /\ foreign[InitPlace[n]] = InitForeign[InitPlace[n]]

LEMMA SpaceKept == SpaceInv /\ UNCHANGED <<place, target, foreign, access, disturbed>> => SpaceInv'
BY DEF SpaceInv, Steady

\* Only the space changes itself, and what is disturbed stays so.
LEMMA SpaceUntouched ==
  ASSUME [Next]_vars, ~Space
  PROVE  UNCHANGED <<place, target, foreign, access, disturbed>>
<1> USE DEF spaceVars
<1>1. ASSUME NEW w \in Workers, Frame(w) \/ Handling(w) \/ Yield(w) \/ Crash(w)
      PROVE  UNCHANGED <<place, target, foreign, access, disturbed>>
  BY <1>1 DEF Frame, Acquire, Pick, StopLoop, NotDue, LeaseLost, Release, Handling, GiveUpRun,
              TakeOffline, RetryLater, ItemFails, FailRun, Yield, Crash
<1>2. ASSUME NEW w \in Workers, Enumerating(w) \/ Reconciling(w)
      PROVE  UNCHANGED <<place, target, foreign, access, disturbed>>
  BY <1>2 DEF Enumerating, Resolve, Validate, ListPage, Discover, RefusePage, EndEnumerate,
              Reconciling, QueueMissing, LookUp, Confirm, Finish
<1>3. ASSUME NEW w \in Workers, Extracting(w)
      PROVE  UNCHANGED <<place, target, foreign, access, disturbed>>
  BY <1>3 DEF Extracting, SkipDocument, BeginExtract, FetchBefore, FetchBlocks, FetchMedia,
              FetchAfter, Stage, Verify, BeginIndex, Index, Publish, EndExtract
<1>4. Expire \/ Time \/ Requests \/ UNCHANGED vars => UNCHANGED <<place, target, foreign, access, disturbed>>
  BY DEF Expire, Time, Due, Requests, Enqueue, vars
<1> QED  BY <1>1, <1>2, <1>3, <1>4 DEF Next, Progress, Failure

\* A node that stays steady is not the one that moves, nor in it.
LEMMA SteadyMove ==
  ASSUME Typed, SpaceInv, NEW n \in Nodes, Touched(DocsUnder(n)), NEW m \in Nodes, Steady(m)'
  PROVE  Steady(m) /\ m # n /\ place[m] # n
<1>1. Steady(m) /\ InitTarget[m] \notin DocsUnder(n)
  BY DEF Touched, Steady
<1>2. InitTarget[m] \in Docs
  BY SyncAssumption DEF SyncAssumption
<1>3. target[m] = InitTarget[m]
  BY <1>1, <1>2 DEF SpaceInv, Steady
<1> QED  BY <1>1, <1>3 DEF DocsUnder

LEMMA SpaceStep ==
  ASSUME Typed, SpaceInv, [Next]_vars
  PROVE  SpaceInv' /\ disturbed \subseteq disturbed'
<1> DEFINE P == SpaceInv' /\ disturbed \subseteq disturbed'
<1>0. /\ place \in [Nodes -> Folders \cup {Gone, Elsewhere}]
      /\ target \in [Nodes -> Docs] /\ foreign \in [Nodes -> BOOLEAN]
      /\ access \in [Docs -> {"ok", "denied", "gone"}]
      /\ Nodes \subseteq Nat \ {0} /\ InitTarget \in [Nodes -> Docs]
      /\ Gone \notin Nodes /\ Elsewhere \notin Nodes /\ Root \notin Nodes
  BY SyncAssumption DEF SyncAssumption, Typed, TypeOK, SpaceTypes, Gone, Elsewhere, Root
<1>1. CASE ~Space
  BY <1>1, SpaceUntouched, SpaceKept
<1>2. ASSUME NEW d \in Docs, Edit(d)
      PROVE  P
  BY <1>2, SpaceKept DEF Edit
<1>3. ASSUME NEW d \in Docs, NEW a \in {"ok", "denied", "gone"}, ChangeAccess(d, a)
      PROVE  P
  BY <1>0, <1>3 DEF ChangeAccess, Touched, SpaceInv, Steady
<1>4. CASE Close \/ Reopen
  BY <1>4, SpaceKept DEF Close, Reopen
<1>5. ASSUME NEW n \in Nodes, NEW d \in Docs, Retarget(n, d)
      PROVE  P
  <2>1. \A k \in Nodes : target'[k] = IF k = n THEN d ELSE target[k]
    BY <1>0, <1>5 DEF Retarget
  <2>2. /\ disturbed' = disturbed \cup {target[n], d}
        /\ UNCHANGED <<place, foreign, access>>
    BY <1>5 DEF Retarget, Touched
  <2>3. \A e \in Docs \ disturbed' : \A k \in Nodes : target'[k] = e <=> target[k] = e
    BY <2>1, <2>2
  <2> QED  BY <2>2, <2>3 DEF SpaceInv, Steady
<1>6. ASSUME NEW n \in Nodes, Rescope(n)
      PROVE  P
  <2>1. /\ Touched(DocsUnder(n)) /\ UNCHANGED <<place, target, access>>
        /\ \A k \in Nodes : foreign'[k] = IF k = n THEN TRUE ELSE foreign[k]
    BY <1>0, <1>6 DEF Rescope
  <2>2. disturbed \subseteq disturbed'
    BY <2>1 DEF Touched
  <2>3. ASSUME NEW m \in Nodes, Steady(m)'
        PROVE  /\ place[m] = InitPlace[m] /\ foreign'[m] = InitForeign[m]
               /\ InitPlace[m] \in Nodes =>
                    /\ place[InitPlace[m]] = InitPlace[InitPlace[m]]
                    /\ foreign'[InitPlace[m]] = InitForeign[InitPlace[m]]
    <3>1. Steady(m) /\ m # n /\ place[m] # n
      BY <2>1, <2>3, SteadyMove
    <3> QED  BY <2>1, <3>1 DEF SpaceInv
  <2> QED  BY <2>1, <2>2, <2>3 DEF SpaceInv
<1>7. ASSUME NEW n \in Nodes, NEW f \in Folders \cup {Gone, Elsewhere}, Move(n, f)
      PROVE  P
  <2>1. /\ Touched(DocsUnder(n)) /\ UNCHANGED <<foreign, target, access>>
        /\ \A k \in Nodes : place'[k] = IF k = n THEN f ELSE place[k]
        /\ f \in Nodes => MayHold(f, n)
    BY <1>0, <1>7 DEF Move
  <2>2. disturbed \subseteq disturbed'
    BY <2>1 DEF Touched
  <2>3. ASSUME NEW m \in Nodes, Steady(m)'
        PROVE  /\ place'[m] = InitPlace[m] /\ foreign[m] = InitForeign[m]
               /\ InitPlace[m] \in Nodes =>
                    /\ place'[InitPlace[m]] = InitPlace[InitPlace[m]]
                    /\ foreign[InitPlace[m]] = InitForeign[InitPlace[m]]
    <3>1. Steady(m) /\ m # n /\ place[m] # n
      BY <2>1, <2>3, SteadyMove
    <3> QED  BY <2>1, <3>1 DEF SpaceInv
  <2>4. ASSUME NEW m \in Nodes, place'[m] \in Nodes
        PROVE  place'[place'[m]] \notin Nodes
    <3>1. CASE m = n
      <4>1. f \in Nodes /\ place'[m] = f
        BY <2>1, <2>4, <3>1
      <4>2. f # n /\ place[f] = Root
        BY <1>0, <2>1, <4>1 DEF MayHold
      <4> QED  BY <1>0, <2>1, <4>1, <4>2
    <3>2. CASE m # n /\ place[m] # n
      BY <2>1, <2>4, <3>2 DEF SpaceInv
    <3>3. CASE m # n /\ place[m] = n
      <4>1. f \notin Nodes
        BY <1>0, <2>1, <3>3 DEF MayHold
      <4> QED  BY <2>1, <3>3, <4>1
    <3> QED  BY <3>1, <3>2, <3>3
  <2> QED  BY <2>1, <2>2, <2>3, <2>4 DEF SpaceInv
<1> QED  BY <1>1, <1>2, <1>3, <1>4, <1>5, <1>6, <1>7 DEF Space

-----------------------------------------------------------------------------
(***************************************************************************)
(* What a run knows of it                                                  *)
(***************************************************************************)

\* A document that Feishu was heard to refuse is a disturbed one.
FaultInv == \A w \in Workers :
  pc[w] = "faulted" /\ Kind(w) = "document" /\ loc[w].fault \in {"denied", "not_found"} =>
    Key(w) \in disturbed

\* A scan from the root comes to the node, in a folder of the space.
Reachable(n) ==
  /\ ~InitForeign[n] /\ InitPlace[n] \in Folders
  /\ InitPlace[n] # Root => InitPlace[InitPlace[n]] = Root /\ ~InitForeign[InitPlace[n]]

\* The database knows the nodes of an undisturbed document, and a steady node it takes
\* for live is one that a scan comes to.
KnownInv ==
  /\ \A n \in Nodes, d \in Docs \ disturbed : nodeDoc[n] = d <=> InitTarget[n] = d
  /\ \A n \in Nodes :
       Steady(n) /\ (nodeState[n] \in Live \/ Answer(n) = "pending") => Reachable(n)

\* A page in the hands of the holder of the lease shows the steady nodes that belong
\* there, as they are.
ShowsDocs(l) == \A n \in DOMAIN l, d \in Docs \ disturbed : l[n].doc = d <=> InitTarget[n] = d
ShowsNodes(l, f) == \A n \in DOMAIN l : Steady(n) =>
  l[n].foreign = InitForeign[n] /\ InitPlace[n] = f
ShowsAll(l, f) == \A n \in Nodes :
  Steady(n) /\ Reachable(n) /\ InitPlace[n] = f /\ PageOf[n] = page[f] => n \in DOMAIN l
ShowsFolders(l, f) == \A n \in Nodes : Steady(n) =>
  /\ InitPlace[n] \in DOMAIN l =>
       l[InitPlace[n]].foreign = InitForeign[InitPlace[n]] /\ InitPlace[InitPlace[n]] = f
  /\ f = Root /\ Reachable(n) /\ InitPlace[n] # Root /\ PageOf[InitPlace[n]] = page[Root] =>
       InitPlace[n] \in DOMAIN l /\ l[InitPlace[n]].child
Shows(l, f) == ShowsDocs(l) /\ ShowsNodes(l, f) /\ ShowsAll(l, f) /\ ShowsFolders(l, f)
ListingInv == \A w \in Workers :
  holder = w /\ pc[w] = "listed" => Shows(loc[w].listing, Key(w))

LEMMA FaultStep ==
  ASSUME Typed, SpaceInv, FaultInv, [Next]_vars
  PROVE  FaultInv'
<1> SUFFICES ASSUME NEW w \in Workers, pc'[w] = "faulted", loc'[w].item[1] = "document",
                    loc'[w].fault \in {"denied", "not_found"}
             PROVE  loc'[w].item[2] \in disturbed'
  BY DEF FaultInv, Kind, Key
<1>1. disturbed \subseteq disturbed'
  BY SpaceStep
<1>2. Stays(w) \/ (HeldOn(w) /\ access[Key(w)] # "ok")
  BY HandsStep DEF HandKept
<1>3. CASE Stays(w)
  BY <1>1, <1>3 DEF Stays, FaultInv, Kind, Key
<1>4. CASE HeldOn(w) /\ access[Key(w)] # "ok"
  <2>1. loc[w].item \in Items /\ loc[w].item = loc'[w].item
    BY <1>4, AtWork DEF HeldOn, Handed
  <2>2. Key(w) \in Docs /\ Key(w) = loc'[w].item[2]
    BY <2>1, NamedItem DEF Kind, Key
  <2> QED  BY <1>1, <1>4, <2>2 DEF SpaceInv
<1> QED  BY <1>2, <1>3, <1>4

\* What Feishu shows of a folder.
LEMMA PageShows ==
  ASSUME Typed, SpaceInv, NEW f \in Folders
  PROVE  Shows(PageOfFolder(f), f)
<1> DEFINE l == PageOfFolder(f)
           S == {m \in Nodes : place[m] = f /\ PageOf[m] = page[f]}
<1>1. DOMAIN l = S
  BY DEF PageOfFolder
<1>2. \A n \in S : /\ l[n].doc = target[n] /\ l[n].foreign = foreign[n]
                   /\ l[n].child <=> \E m \in Nodes : place[m] = n
  BY DEF PageOfFolder
<1> HIDE DEF l
<1>3. ShowsDocs(l)
  BY <1>1, <1>2 DEF ShowsDocs, SpaceInv
<1>4. ShowsNodes(l, f)
  BY <1>1, <1>2 DEF ShowsNodes, SpaceInv
<1>5. ShowsAll(l, f)
  BY <1>1 DEF ShowsAll, SpaceInv
<1>6. ShowsFolders(l, f)
  <2> SUFFICES ASSUME NEW n \in Nodes, Steady(n)
               PROVE  /\ InitPlace[n] \in S =>
                           l[InitPlace[n]].foreign = InitForeign[InitPlace[n]]
                           /\ InitPlace[InitPlace[n]] = f
                      /\ f = Root /\ Reachable(n) /\ InitPlace[n] # Root
                           /\ PageOf[InitPlace[n]] = page[Root] =>
                           InitPlace[n] \in S /\ l[InitPlace[n]].child
    BY <1>1 DEF ShowsFolders
  <2>1. place[n] = InitPlace[n]
    BY DEF SpaceInv
  <2>2. ASSUME InitPlace[n] \in Nodes
        PROVE  /\ place[InitPlace[n]] = InitPlace[InitPlace[n]]
               /\ foreign[InitPlace[n]] = InitForeign[InitPlace[n]]
    BY <2>2 DEF SpaceInv
  <2>3. Reachable(n) /\ InitPlace[n] # Root => InitPlace[n] \in Nodes /\ InitPlace[InitPlace[n]] = Root
    BY DEF Reachable, Folders
  <2> QED  BY <1>2, <2>1, <2>2, <2>3
<1> QED  BY <1>3, <1>4, <1>5, <1>6 DEF Shows, l

LEMMA ListingStep ==
  ASSUME RunsInv, SpaceInv, ListingInv, [Next]_vars
  PROVE  ListingInv'
<1> SUFFICES ASSUME NEW w \in Workers, holder' = w, pc'[w] = "listed"
             PROVE  Shows(loc[w].listing, Key(w))'
  BY DEF ListingInv
<1>0. Typed /\ disturbed \subseteq disturbed'
  BY SpaceStep DEF RunsInv
<1>1. page' = page
  <2>1. \A v \in Workers : ~Pick(v) /\ ~Writing(v)
    BY Picked, WritesActive
  <2> QED  BY <2>1, Untouched DEF scanVars
<1>2. PICK l, f : /\ l = loc'[w].listing /\ f = loc'[w].item[2] /\ Shows(l, f)
  <2>1. Stays(w) \/ (Took(w) /\ loc'[w].listing = PageOfFolder(Key(w)'))
    BY <1>0, HandsStep DEF HandKept
  <2>2. CASE Stays(w)
    BY <2>2 DEF Stays, ListingInv, Key
  <2>3. CASE loc'[w].listing = PageOfFolder(Key(w)')
    <3>1. loc'[w].item[2] \in Folders
      BY <1>0, NextTyped DEF Typed, Placed, Fits
    <3> QED  BY <1>0, <2>3, <3>1, PageShows DEF Key
  <2> QED  BY <2>1, <2>2, <2>3
<1>3. Shows(l, f)'
  BY <1>0, <1>1, <1>2 DEF Shows, ShowsDocs, ShowsNodes, ShowsAll, ShowsFolders, Steady, Reachable
<1> QED  BY <1>2, <1>3 DEF Key

\* What the scan of the active run owes to a steady node: a folder it lies in is taken
\* up only as one of the root; once its page is recorded the node is met; and once the
\* page of its folder is recorded the folder is taken up.
TakesUpAtRoot(n) == InitPlace[n] \in Nodes /\ FolderItem(InitPlace[n]) # "none" =>
  ~InitForeign[InitPlace[n]] /\ InitPlace[InitPlace[n]] = Root
Passed(f, k) == FolderItem(f) = "succeeded" \/ page[f] > k
MeetsIt(n) == Reachable(n) /\ Passed(InitPlace[n], PageOf[n]) => nodeSeen[n] = activeRun
TakesUpItsFolder(n) ==
  Reachable(n) /\ InitPlace[n] # Root /\ Passed(Root, PageOf[InitPlace[n]]) =>
    FolderItem(InitPlace[n]) # "none"
CoverInv == activeRun # NoRun => \A n \in Nodes : Steady(n) =>
  TakesUpAtRoot(n) /\ MeetsIt(n) /\ TakesUpItsFolder(n)

LEMMA CoverTypes ==
  ASSUME Typed
  PROVE  /\ Nodes \subseteq Nat \ {0} /\ Folders = Nodes \cup {Root} /\ Root \notin Nodes
         /\ PageOf \in [Nodes -> 1..Pages] /\ Pages \in Nat
         /\ page \in [Folders -> 1..Pages] /\ item \in [Items -> ItemStates]
         /\ \A n \in Nodes : n \in Folders
BY SyncAssumption DEF SyncAssumption, Typed, TypeOK, ItemTypes, Folders, Root

\* A page takes up the folders it shows, and nothing that was taken up is given up.
LEMMA FoldersOfPage ==
  ASSUME RunsInv, InHand, NEW w \in Workers, Discover(w), NEW f \in Folders
  PROVE  LET l == loc[w].listing
             g == Key(w) IN
         /\ g \in Folders /\ FolderItem(g) = "pending"
         /\ FolderItem(f)' # "none" <=>
              \/ FolderItem(f) # "none"
              \/ f \in DOMAIN l /\ l[f].child /\ ~l[f].foreign
         /\ FolderItem(f)' = "succeeded" =>
              FolderItem(f) = "succeeded" \/ (f = g /\ page[g] >= Pages)
         /\ page'[f] = IF f = g /\ page[g] < Pages THEN page[g] + 1 ELSE page[f]
<1> DEFINE l == loc[w].listing
           g == Key(w)
<1>0. /\ g \in Folders /\ FolderItem(g) = "pending" /\ DOMAIN l \subseteq Nodes
      /\ \A n \in DOMAIN l : l[n] \in Entries
      /\ \A i \in Items : item'[i] = IF page[g] >= Pages /\ i = <<"folder", g>> THEN "succeeded"
                                     ELSE Add(item, NewItems(l))[i]
      /\ IF page[g] < Pages THEN page' = [page EXCEPT ![g] = @ + 1] ELSE UNCHANGED page
  BY PageRecorded
<1>1. page \in [Folders -> 1..Pages] /\ Pages \in Nat
  BY CoverTypes DEF RunsInv
<1>2. <<"folder", f>> \in NewItems(l) <=> f \in DOMAIN l /\ l[f].child /\ ~l[f].foreign
  BY DEF NewItems
<1> HIDE DEF g, l
<1>3. \A h \in Folders : item'[<<"folder", h>>] =
        IF page[g] >= Pages /\ h = g THEN "succeeded"
        ELSE Add(item, NewItems(l))[<<"folder", h>>]
  BY <1>0, ItemNames
<1>4. \A h \in Folders : Add(item, NewItems(l))[<<"folder", h>>] =
        IF <<"folder", h>> \in NewItems(l) /\ FolderItem(h) = "none" THEN "pending"
        ELSE FolderItem(h)
  BY ItemNames DEF Add, FolderItem
<1>5. page'[f] = IF f = g /\ page[g] < Pages THEN page[g] + 1 ELSE page[f]
  BY <1>0, <1>1
<1>6. item'[<<"folder", f>>] # "none" <=>
        FolderItem(f) # "none" \/ <<"folder", f>> \in NewItems(l)
  BY <1>0, <1>3, <1>4
<1>7. item'[<<"folder", f>>] = "succeeded" =>
        FolderItem(f) = "succeeded" \/ (f = g /\ page[g] >= Pages)
  BY <1>3, <1>4
<1> QED  BY <1>0, <1>2, <1>5, <1>6, <1>7 DEF FolderItem, g, l
LEMMA CoverStep ==
  ASSUME ScanInv, SpaceInv, ListingInv, CoverInv, [Next]_vars
  PROVE  CoverInv'
<1>0. /\ RunsInv /\ OrderInv /\ InHand /\ ItemsInv /\ ListingInv /\ Typed
      /\ disturbed \subseteq disturbed'
  BY SpaceStep DEF ScanInv, RunsInv
<1>1. \A n \in Nodes : Steady(n)' => Steady(n)
  BY <1>0 DEF Steady
<1> USE CoverTypes DEF Passed
\* Nothing of the folders changes, and no node is met.
<1>2. ASSUME UNCHANGED <<activeRun, nodeSeen, page>>,
             \A f \in Folders : item'[<<"folder", f>>] = FolderItem(f)
      PROVE  CoverInv'
  <2> SUFFICES ASSUME activeRun # NoRun, NEW n \in Nodes, Steady(n)
               PROVE  TakesUpAtRoot(n)' /\ MeetsIt(n)' /\ TakesUpItsFolder(n)'
    BY <1>1, <1>2 DEF CoverInv
  <2>1. TakesUpAtRoot(n) /\ MeetsIt(n) /\ TakesUpItsFolder(n)
    BY DEF CoverInv
  <2>2. InitPlace[n] \in Folders => item'[<<"folder", InitPlace[n]>>] = FolderItem(InitPlace[n])
    BY <1>2
  <2>3. item'[<<"folder", Root>>] = FolderItem(Root)
    BY <1>0, <1>2
  <2>4. Reachable(n)' <=> Reachable(n)
    BY DEF Reachable
  <2>5. Reachable(n) => InitPlace[n] \in Folders
    BY DEF Reachable
  <2> QED  BY <1>0, <1>2, <2>1, <2>2, <2>3, <2>4, <2>5
           DEF TakesUpAtRoot, MeetsIt, TakesUpItsFolder, FolderItem
\* Nothing is listed yet.
<1>3. ASSUME \A f \in Folders : page'[f] = 1 /\ item'[<<"folder", f>>] # "succeeded",
             \A f \in Nodes : item'[<<"folder", f>>] = "none"
      PROVE  CoverInv'
  <2> SUFFICES ASSUME NEW n \in Nodes
               PROVE  TakesUpAtRoot(n)' /\ MeetsIt(n)' /\ TakesUpItsFolder(n)'
    BY DEF CoverInv
  <2>1. \A m \in Nodes : ~(1 > PageOf[m])
    BY <1>0
  <2>2. Reachable(n)' => InitPlace[n] \in Folders
    BY DEF Reachable
  <2>3. \A f \in Folders : f # Root => f \in Nodes
    BY <1>0
  <2> QED  BY <1>0, <1>3, <2>1, <2>2, <2>3
           DEF TakesUpAtRoot, MeetsIt, TakesUpItsFolder, FolderItem
<1>4. ASSUME NEW w \in Workers, Pick(w)
      PROVE  CoverInv'
  <2>1. UNCHANGED <<nodeSeen, item, page>>
    BY <1>0, <1>4, Picked DEF Pick, nodeVars
  <2>2. CASE UNCHANGED activeRun
    BY <1>2, <2>1, <2>2 DEF FolderItem
  <2>3. CASE activeRun = NoRun
    BY <1>0, <1>3, <2>1, <2>3, ItemNames DEF ItemsInv, NothingYet
  <2> QED  BY <1>0, <1>4, <2>2, <2>3, Picked
<1>5. ASSUME NEW w \in Workers, Ends(w)
      PROVE  CoverInv'
  BY <1>0, <1>5, EndedRun DEF CoverInv
<1>6. ASSUME NEW w \in Workers, Advances(w)
      PROVE  CoverInv'
  <2>1. UNCHANGED <<activeRun, nodeSeen, page>>
    BY <1>0, <1>6, Advanced DEF nodeVars
  <2>2. CASE UNCHANGED item
    BY <1>2, <2>1, <2>2 DEF FolderItem
  <2>3. CASE phase[activeRun] = "validate" /\ item' = Add(item, {<<"folder", Root>>})
    <3>1. NothingYet
      BY <1>0, <2>3 DEF ItemsInv
    <3>2. \A f \in Folders : item'[<<"folder", f>>] = IF f = Root THEN "pending" ELSE "none"
      BY <2>3, <3>1, ItemNames DEF NothingYet, Add
    <3> QED  BY <1>0, <1>3, <2>1, <3>1, <3>2 DEF NothingYet
  <2> QED  BY <1>0, <1>6, <2>2, <2>3, Advanced
<1>7. ASSUME NEW w \in Workers, Settles(w)
      PROVE  CoverInv'
  <2>1. UNCHANGED <<activeRun, page>> /\ item \in [Items -> ItemStates]
    BY <1>0, <1>7, Settled
  <2>2. UNCHANGED nodeSeen
    <3>1. Confirm(w) => UNCHANGED nodeSeen
      BY DEF Confirm
    <3> QED  BY <1>0, <1>7, <3>1, Settled DEF nodeVars
  <2>3. \A f \in Folders : item'[<<"folder", f>>] = item[<<"folder", f>>]
    <3>1. PICK i \in Items, s \in ItemStates : i[1] # "folder" /\ item' = [item EXCEPT ![i] = s]
      BY <1>0, <1>7, Settled, ItemNames DEF ItemStates
    <3>2. \A f \in Folders : <<"folder", f>> # i
      BY <3>1
    <3> QED  BY <2>1, <3>1, <3>2, ItemNames
  <2> QED  BY <1>2, <2>1, <2>2, <2>3 DEF FolderItem
<1>8. ASSUME NEW w \in Workers, QueueMissing(w)
      PROVE  CoverInv'
  <2>1. UNCHANGED <<activeRun, nodeSeen, page>>
        /\ item' = Add(item, {<<"confirmation", n>> : n \in NextBatch(activeRun)})
    BY <1>0, <1>8, BatchQueued DEF nodeVars
  <2>2. \A f \in Folders : item'[<<"folder", f>>] = item[<<"folder", f>>]
    BY <2>1, ItemNames DEF Add
  <2> QED  BY <1>2, <2>1, <2>2 DEF FolderItem
<1>9. ASSUME NEW w \in Workers, Discover(w)
      PROVE  CoverInv'
  <2>1. PICK g \in Folders, l \in {loc[w].listing} : g = Key(w)
    BY <1>0, <1>9, PageRecorded
  <2>2. activeRun # NoRun /\ UNCHANGED activeRun /\ Shows(l, g) /\ page[g] \in 1..Pages
    <3>1. activeRun \in RunIds /\ holder = w /\ UNCHANGED activeRun
      BY <1>0, <1>9, WritesActive, PageRecorded DEF Writing
    <3>2. Shows(l, g)
      BY <1>0, <1>9, <2>1, <3>1 DEF Discover, ListingInv
    <3> QED  BY <1>0, <2>1, <3>1, <3>2 DEF RunIds, NoRun
  <2> SUFFICES ASSUME NEW n \in Nodes, Steady(n)
               PROVE  TakesUpAtRoot(n)' /\ MeetsIt(n)' /\ TakesUpItsFolder(n)'
    BY <1>1 DEF CoverInv
  <2>3. TakesUpAtRoot(n) /\ MeetsIt(n) /\ TakesUpItsFolder(n)
    BY <2>2 DEF CoverInv
  <2>4. ASSUME NEW f \in Folders
        PROVE  /\ item'[<<"folder", f>>] # "none" <=>
                    \/ FolderItem(f) # "none"
                    \/ f \in DOMAIN l /\ l[f].child /\ ~l[f].foreign
               /\ item'[<<"folder", f>>] = "succeeded" =>
                    FolderItem(f) = "succeeded" \/ (f = g /\ page[g] >= Pages)
               /\ page'[f] = IF f = g /\ page[g] < Pages THEN page[g] + 1 ELSE page[f]
    BY <1>0, <1>9, <2>1, FoldersOfPage DEF FolderItem
  \* The page that is recorded is the only news.
  <2>5. ASSUME NEW f \in Folders, NEW k \in 1..Pages,
               item'[<<"folder", f>>] = "succeeded" \/ page'[f] > k
        PROVE  Passed(f, k) \/ (f = g /\ page[g] = k)
    BY <1>0, <2>2, <2>4, <2>5
  <2>6. TakesUpAtRoot(n)'
    <3> DEFINE f == InitPlace[n]
    <3> SUFFICES ASSUME f \in Nodes, FolderItem(f) = "none", f \in DOMAIN l, ~l[f].foreign
                 PROVE  ~InitForeign[f] /\ InitPlace[f] = Root
      BY <1>0, <2>3, <2>4 DEF TakesUpAtRoot, FolderItem
    <3>1. ~InitForeign[f] /\ InitPlace[f] = g
      BY <2>2 DEF Shows, ShowsFolders
    <3>2. g \notin Nodes
      BY <3>1, SpaceAssumption
    <3> QED  BY <1>0, <3>1, <3>2
  <2>7. MeetsIt(n)'
    <3> DEFINE f == InitPlace[n]
    <3>1. nodeSeen'[n] = activeRun \/ (n \notin DOMAIN l /\ nodeSeen'[n] = nodeSeen[n])
      BY <1>0, <1>9, <2>1, PageNodes
    <3> SUFFICES ASSUME Reachable(n), item'[<<"folder", f>>] = "succeeded" \/ page'[f] > PageOf[n]
                 PROVE  nodeSeen'[n] = activeRun
      BY <2>2 DEF MeetsIt, FolderItem, Reachable
    <3>2. f \in Folders
      BY DEF Reachable
    <3>3. Passed(f, PageOf[n]) \/ (f = g /\ page[g] = PageOf[n])
      BY <1>0, <2>5, <3>2
    <3>4. CASE Passed(f, PageOf[n])
      BY <2>3, <3>1, <3>4 DEF MeetsIt
    <3>5. CASE f = g /\ page[g] = PageOf[n]
      BY <2>2, <3>1, <3>5 DEF Shows, ShowsAll
    <3> QED  BY <3>3, <3>4, <3>5
  <2>8. TakesUpItsFolder(n)'
    <3> DEFINE f == InitPlace[n]
    <3> SUFFICES ASSUME Reachable(n), f # Root,
                        item'[<<"folder", Root>>] = "succeeded" \/ page'[Root] > PageOf[f]
                 PROVE  item'[<<"folder", f>>] # "none"
      BY DEF TakesUpItsFolder, FolderItem, Reachable
    <3>2. f \in Nodes /\ ~InitForeign[f]
      BY <1>0 DEF Reachable
    <3>3. Passed(Root, PageOf[f]) \/ (g = Root /\ page[g] = PageOf[f])
      BY <1>0, <2>5, <3>2
    <3>4. CASE Passed(Root, PageOf[f])
      BY <1>0, <2>3, <2>4, <3>2, <3>4 DEF TakesUpItsFolder
    <3>5. CASE g = Root /\ page[g] = PageOf[f]
      <4>1. f \in DOMAIN l /\ l[f].child /\ ~l[f].foreign
        BY <2>2, <3>2, <3>5 DEF Shows, ShowsFolders
      <4> QED  BY <1>0, <2>4, <3>2, <4>1
    <3> QED  BY <3>3, <3>4, <3>5
  <2> QED  BY <2>6, <2>7, <2>8
<1>10. CASE \A w \in Workers : ~Pick(w) /\ ~Writing(w)
  <2>1. UNCHANGED <<nodeSeen, activeRun, page, item>>
    BY <1>10, NodesUntouched, Untouched DEF Writing, Settles, nodeVars, scanVars
  <2> QED  BY <1>2, <2>1 DEF FolderItem
<1> QED  BY <1>4, <1>5, <1>6, <1>7, <1>8, <1>9, <1>10 DEF Writing

LEMMA KnownStep ==
  ASSUME ScanInv, SpaceInv, ListingInv, CoverInv, KnownInv, [Next]_vars
  PROVE  KnownInv'
<1>0. /\ RunsInv /\ OrderInv /\ InHand /\ ItemsInv /\ ListingInv /\ Typed
      /\ disturbed \subseteq disturbed' /\ NodeTypes /\ item \in [Items -> ItemStates]
  BY SpaceStep, NodeTyped DEF ScanInv, RunsInv
<1> USE ItemNames
\* No node gets another document, and none becomes live or asked for that was neither.
<1>1. ASSUME UNCHANGED nodeDoc,
             \A n \in Nodes : nodeState'[n] \in Live \/ item'[<<"confirmation", n>>] = "pending" =>
               nodeState[n] \in Live \/ Answer(n) = "pending"
      PROVE  KnownInv'
  BY <1>0, <1>1 DEF KnownInv, Steady, Reachable, Answer
<1>2. ASSUME NEW w \in Workers, Pick(w)
      PROVE  KnownInv'
  <2>1. UNCHANGED <<nodeDoc, nodeState, item>>
    BY <1>0, <1>2, Picked DEF Pick, nodeVars
  <2> QED  BY <1>1, <2>1 DEF Answer
<1>3. ASSUME NEW w \in Workers, Ends(w)
      PROVE  KnownInv'
  <2>1. UNCHANGED <<nodeDoc, nodeState>> /\ item' = [i \in Items |-> "none"]
    BY <1>3 DEF Ends, FailRun, Finish, ForgetItems, nodeVars
  <2> QED  BY <1>1, <2>1
<1>4. ASSUME NEW w \in Workers, Advances(w)
      PROVE  KnownInv'
  <2>1. UNCHANGED <<nodeDoc, nodeState>>
    BY <1>0, <1>4, Advanced DEF nodeVars
  <2>2. \A n \in Nodes : item'[<<"confirmation", n>>] = item[<<"confirmation", n>>]
    BY <1>0, <1>4, Advanced DEF Add
  <2> QED  BY <1>1, <2>1, <2>2 DEF Answer
<1>5. ASSUME NEW w \in Workers, Settles(w), ~Confirm(w)
      PROVE  KnownInv'
  <2>1. PICK i \in Items, s \in ItemStates \ {"pending"} : item' = [item EXCEPT ![i] = s]
    BY <1>0, <1>5, Settled DEF ItemStates
  <2>2. UNCHANGED <<nodeDoc, nodeState>>
    BY <1>0, <1>5, Settled DEF nodeVars
  <2> QED  BY <1>0, <1>1, <2>1, <2>2 DEF Answer
<1>6. ASSUME NEW w \in Workers, Confirm(w)
      PROVE  KnownInv'
  <2>1. PICK n \in Nodes, v \in Offline \cup {"missing"} :
        /\ Answer(n) = "pending" /\ UNCHANGED nodeDoc
        /\ \A m \in Nodes \ {n} : nodeState'[m] = nodeState[m]
        /\ item'[<<"confirmation", n>>] = IF v = "missing" THEN "missing" ELSE "succeeded"
        /\ \A i \in Items : i # <<"confirmation", n>> => item'[i] = item[i]
    BY <1>0, <1>6, ConfirmedNode
  <2> QED  BY <1>1, <2>1 DEF Answer
<1>7. ASSUME NEW w \in Workers, QueueMissing(w)
      PROVE  KnownInv'
  <2> DEFINE new == {<<"confirmation", n>> : n \in NextBatch(activeRun)}
  <2>1. UNCHANGED <<nodeDoc, nodeState>> /\ item' = Add(item, new)
    BY <1>0, <1>7, BatchQueued DEF nodeVars
  <2>2. \A n \in Nodes : <<"confirmation", n>> \in new => nodeState[n] \in Live
    BY DEF NextBatch, Ahead, Unseen
  <2> QED  BY <1>1, <2>1, <2>2 DEF Add, Answer
<1>8. ASSUME NEW w \in Workers, Discover(w)
      PROVE  KnownInv'
  <2>1. PICK g \in Folders, l \in {loc[w].listing} : g = Key(w) /\ FolderItem(g) = "pending"
    BY <1>0, <1>8, PageRecorded
  <2>2. activeRun # NoRun /\ Shows(l, g)
    <3>1. activeRun \in RunIds /\ holder = w
      BY <1>0, <1>8, WritesActive DEF Writing
    <3> QED  BY <1>0, <1>8, <2>1, <3>1 DEF Discover, ListingInv, RunIds, NoRun
  <2>3. /\ \A n \in DOMAIN l : nodeDoc'[n] = l[n].doc /\ (nodeState'[n] \in Live => ~l[n].foreign)
        /\ \A n \in Nodes \ DOMAIN l : nodeDoc'[n] = nodeDoc[n] /\ nodeState'[n] = nodeState[n]
    BY <1>0, <1>8, <2>1, PageNodes DEF Live
  <2>4. \A n \in Nodes : item'[<<"confirmation", n>>] = item[<<"confirmation", n>>]
    BY <1>0, <1>8, PageRecorded DEF Add, NewItems
  <2>5. ASSUME NEW n \in Nodes, NEW d \in Docs \ disturbed'
        PROVE  nodeDoc'[n] = d <=> InitTarget[n] = d
    BY <1>0, <2>2, <2>3 DEF KnownInv, Shows, ShowsDocs
  <2>6. ASSUME NEW n \in Nodes, Steady(n), nodeState'[n] \in Live, n \in DOMAIN l
        PROVE  Reachable(n)
    <3>1. ~InitForeign[n] /\ InitPlace[n] = g
      BY <2>2, <2>3, <2>6 DEF Shows, ShowsNodes
    <3>2. InitPlace[n] \in Nodes => ~InitForeign[g] /\ InitPlace[g] = Root
      BY <2>1, <2>2, <2>6, <3>1 DEF CoverInv, TakesUpAtRoot
    <3> QED  BY <3>1, <3>2 DEF Reachable, Folders
  <2>7. ASSUME NEW n \in Nodes, Steady(n)',
               nodeState'[n] \in Live \/ item'[<<"confirmation", n>>] = "pending"
        PROVE  Reachable(n)
    <3>1. Steady(n)
      BY <1>0, <2>7 DEF Steady
    <3>2. Answer(n) = "none"
      BY <1>0, <1>8, <2>2, PageRecorded DEF ItemsInv, AnswersSound
    <3> QED  BY <2>3, <2>4, <2>6, <2>7, <3>1, <3>2 DEF KnownInv, Answer
  <2> QED  BY <2>5, <2>7 DEF KnownInv, Reachable, Answer
<1>9. CASE \A w \in Workers : ~Pick(w) /\ ~Writing(w)
  <2>1. UNCHANGED <<nodeDoc, nodeState, item>>
    BY <1>9, NodesUntouched, Untouched DEF Writing, Settles, nodeVars, scanVars
  <2> QED  BY <1>1, <2>1 DEF Answer
<1> QED  BY <1>2, <1>3, <1>4, <1>5, <1>6, <1>7, <1>8, <1>9 DEF Writing

SteadyInv ==
  ScanInv /\ NodesInv /\ SpaceInv /\ FaultInv /\ KnownInv /\ ListingInv /\ CoverInv

LEMMA SteadyStep == SteadyInv /\ [Next]_vars => SteadyInv'
<1> SUFFICES ASSUME SteadyInv, [Next]_vars  PROVE SteadyInv'
  OBVIOUS
<1>1. RunsInv /\ Typed
  BY DEF SteadyInv, ScanInv, RunsInv
<1>2. ScanInv' /\ NodesInv' /\ SpaceInv' /\ FaultInv'
  BY <1>1, ScanStep, NodesStep, SpaceStep, FaultStep DEF SteadyInv
<1>3. ListingInv' /\ CoverInv' /\ KnownInv'
  BY <1>1, ListingStep, CoverStep, KnownStep DEF SteadyInv
<1> QED  BY <1>2, <1>3 DEF SteadyInv

LEMMA SteadyInit == Init => SteadyInv
<1> SUFFICES ASSUME Init  PROVE SteadyInv
  OBVIOUS
<1>1. ScanInv /\ NodesInv
  BY ScanInit, NodesInit
<1>2. SpaceInv
  BY SpaceAssumption DEF Init, SpaceInv, Steady
<1>3. FaultInv /\ ListingInv /\ CoverInv
  BY DEF Init, FaultInv, ListingInv, CoverInv
<1>4. KnownInv
  BY ItemNames DEF Init, KnownInv, Answer, Live
<1> QED  BY <1>1, <1>2, <1>3, <1>4 DEF SteadyInv

\* No page takes a document off line that nobody touched: a node that had it still
\* has it, and one that shows it from outside the space is not the only one.
LEMMA DiscoverKeeps ==
  ASSUME SteadyInv, NEW w \in Workers, Discover(w), NEW d \in Docs \ disturbed, Readable(d)
  PROVE  Readable(d)'
<1>0. /\ Typed /\ RunsInv /\ ListingInv /\ KnownInv /\ ServedHasNode
  BY DEF SteadyInv, ScanInv, RunsInv, NodesInv
<1>1. PICK l \in {loc[w].listing}, o \in Orders(DOMAIN loc[w].listing) :
        /\ docStatus' = [e \in Docs |-> DocStatusAfter(o, l, e)]
        /\ docEpoch' = [e \in Docs |-> IF e \in {c \in Docs : Unserved(o, l, c) # {}}
                                       THEN -1 ELSE docEpoch[e]]
        /\ UNCHANGED <<health, epoch, activeRev>>
  BY DEF Discover, sourceVars
<1>2. Shows(l, Key(w)) /\ DOMAIN o = DOMAIN l
  <2>1. holder = w
    BY <1>0, WritesActive DEF Writing
  <2> QED  BY <1>0, <1>1, <2>1 DEF Discover, ListingInv, Orders
<1>3. DOMAIN l \subseteq Nodes
  BY <1>0, <1>1, AtWork DEF Locals, Listings
<1>4. ASSUME NEW n \in DOMAIN l  PROVE ~Orphans(o, l, n, d)
  BY <1>0, <1>2, <1>3, <1>4 DEF Orphans, KnownInv, Shows, ShowsDocs
<1>5. ASSUME NEW n \in DOMAIN l  PROVE ~Expels(o, l, n, d)
  <2>1. PICK m \in Nodes : nodeState[m] \in Live /\ nodeDoc[m] = d
    BY <1>0 DEF ServedHasNode, HasLiveNode
  <2>2. Steady(m) /\ ~InitForeign[m] /\ InitTarget[m] = d
    BY <1>0, <2>1 DEF KnownInv, Reachable, Steady
  <2>3. m \in DOMAIN l => l[m].doc = d /\ ~l[m].foreign
    BY <1>2, <2>2 DEF Shows, ShowsDocs, ShowsNodes
  <2>4. Held(o, l, n, d)
    BY <1>2, <2>1, <2>3 DEF Held, Recorded
  <2> QED  BY <2>4 DEF Expels
<1>6. Unserved(o, l, d) = {}
  BY <1>2, <1>4, <1>5 DEF Unserved
<1>7. docEpoch'[d] = docEpoch[d]
  BY <1>1, <1>6
<1>8. docStatus'[d] \notin Offline
  BY <1>1, <1>6 DEF Readable, DocStatusAfter, FirstStatus, Offline
<1> QED  BY <1>1, <1>7, <1>8 DEF Readable

\* Nobody asks what became of a node that nobody touched, since every scan meets it.
LEMMA SteadyUnasked ==
  ASSUME SteadyInv, activeRun # NoRun, phase[activeRun] = "reconcile", NEW n \in Nodes, Steady(n)
  PROVE  Answer(n) # "pending"
<1> SUFFICES ASSUME Answer(n) = "pending"  PROVE FALSE
  OBVIOUS
<1>1. /\ Reachable(n) /\ TakesUpItsFolder(n) /\ MeetsIt(n) /\ Accounted(n)
      /\ FoldersSound
  BY DEF SteadyInv, KnownInv, CoverInv, ScanInv, ConfirmInv, ItemsInv
<1>2. \A f \in Folders : FolderItem(f) # "none" => FolderItem(f) = "succeeded"
  BY <1>1 DEF FoldersSound, Scanned
<1>3. FolderItem(Root) = "succeeded"
  BY <1>1, <1>2, ItemNames DEF FoldersSound
<1>4. FolderItem(InitPlace[n]) = "succeeded"
  BY <1>1, <1>2, <1>3 DEF TakesUpItsFolder, Passed, Reachable
<1>5. nodeSeen[n] = activeRun
  BY <1>1, <1>4 DEF MeetsIt, Passed
<1> QED  BY <1>1, <1>5 DEF Accounted

LEMMA OfflineStep ==
  ASSUME SteadyInv, [Next]_vars, NEW d \in Docs \ disturbed, Readable(d), health' # "paused"
  PROVE  Readable(d)'
<1>0. Typed /\ RunsInv /\ InHand /\ ServingInv /\ FaultInv /\ KnownInv
  BY DEF SteadyInv, ScanInv, NodesInv
<1>1. CASE \A w \in Workers : ~Reaches(w)
  BY <1>0, <1>1, ReadableKept
<1>2. ASSUME NEW w \in Workers, Publish(w)
      PROVE  Readable(d)'
  BY <1>0, <1>2, PublishServes
<1>3. ASSUME NEW w \in Workers, TakeOffline(w)
      PROVE  Readable(d)'
  <2>1. Key(w) \in disturbed
    BY <1>0, <1>3 DEF TakeOffline, DocumentLost, FaultInv
  <2> QED  BY <1>0, <1>3, <2>1, TakeOfflineOne
<1>4. ASSUME NEW w \in Workers, FailRun(w) \/ Validate(w)
      PROVE  Readable(d)'
  <2>1. UNCHANGED <<epoch, docVars>> /\ (health' = health \/ health' = "healthy")
    BY <1>4 DEF FailRun, Validate
  <2> QED  BY <2>1 DEF docVars, Readable
<1>5. ASSUME NEW w \in Workers, Discover(w)
      PROVE  Readable(d)'
  BY <1>5, DiscoverKeeps
<1>6. ASSUME NEW w \in Workers, Confirm(w)
      PROVE  Readable(d)'
  <2>1. /\ Key(w) \in Nodes /\ Answer(Key(w)) = "pending" /\ phase[activeRun] = "reconcile"
    BY <1>0, <1>6, ConfirmedNode
  <2>2. activeRun # NoRun
    BY <1>0, <1>6, WritesActive DEF Writing, Settles, RunIds, NoRun
  <2>3. ~Steady(Key(w))
    BY <2>1, <2>2, SteadyUnasked
  <2>4. d # nodeDoc[Key(w)]
    BY <1>0, <2>1, <2>3 DEF KnownInv, Steady
  <2> QED  BY <1>0, <1>6, <2>4, ConfirmKeeps
<1> QED  BY <1>1, <1>2, <1>3, <1>4, <1>5, <1>6 DEF Reaches

\* No timeout, crash, takeover, failed item or failed run takes a document off line, and
\* neither does a page or a confirmation: only Feishu's refusal of the document, a change
\* of it or of a node that shows it, or of the folder of one, or a pause of the source
\* does (processNext, performItem, discover, confirmMissing, failRun).
THEOREM OfflineHasCause == Spec => OfflineNeedsCause
<1> DEFINE A == \A d \in Docs : Readable(d) /\ ~Readable(d)' =>
       health' = "paused" \/ d \in disturbed
<1>1. SteadyInv /\ [Next]_vars => [A]_vars
  BY OfflineStep
<1> QED  BY <1>1, SteadyInit, SteadyStep, PTL DEF Spec, OfflineNeedsCause
=============================================================================
