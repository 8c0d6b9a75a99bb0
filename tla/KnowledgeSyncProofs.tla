------------------------ MODULE KnowledgeSyncProofs ------------------------
(***************************************************************************)
(* Theorems about KnowledgeSync, for any space, any number of workers and  *)
(* any bounds.                                                             *)
(*                                                                         *)
(* What a reader is served depends on seven variables only, servingVars.   *)
(* ServingInv is the inductive invariant over them: the file list of the   *)
(* Agent is exact, a document taken off line carries the epoch -1 that no  *)
(* source ever has, and a source that is not healthy has left behind the   *)
(* epoch of everything that was published.                                 *)
(***************************************************************************)
EXTENDS KnowledgeSyncSafety, FiniteSetTheorems, WellFoundedInduction

servingVars == <<health, epoch, docStatus, docEpoch, activeRev, published, agentFiles>>

ServingTypes ==
  /\ health \in {"pending", "healthy", "paused"}
  /\ epoch \in Nat
  /\ docStatus = [d \in Docs |-> docStatus[d]]
  /\ docEpoch \in [Docs -> Int]
  /\ activeRev = [d \in Docs |-> activeRev[d]]

\* A document that is off line has lost its epoch.
RemovedHidden == \A d \in Docs : docStatus[d] \in Offline => docEpoch[d] = -1

\* No document is ahead of the source, and one that was published is behind it
\* while the source is not healthy.
EpochsBehind ==
  \A d \in Docs :
    /\ docEpoch[d] <= epoch
    /\ health # "healthy" /\ activeRev[d] # NoRev => docEpoch[d] < epoch

ServingInv == ServingTypes /\ RemovedHidden /\ EpochsBehind /\ AgentFilesExact

-----------------------------------------------------------------------------

LEMMA ServingInit == Init => ServingInv
BY DEF Init, ServingInv, ServingTypes, RemovedHidden, EpochsBehind, AgentFilesExact,
       ServedFiles, Readable, Offline

\* The served files depend on who is readable, on the active revisions and on what
\* is published.
LEMMA SameServed ==
  ASSUME \A d \in Docs : Readable(d)' <=> Readable(d),
         activeRev' = activeRev, published' = published
  PROVE  ServedFiles' = ServedFiles
BY DEF ServedFiles

LEMMA InertStep == ServingInv /\ UNCHANGED servingVars => ServingInv'
BY DEF ServingInv, ServingTypes, RemovedHidden, EpochsBehind, AgentFilesExact, ServedFiles,
       Readable, servingVars

-----------------------------------------------------------------------------
(***************************************************************************)
(* Steps that change nothing of what is served                             *)
(***************************************************************************)

LEMMA FrameInert == ASSUME NEW w \in Workers, Frame(w) PROVE UNCHANGED servingVars
BY DEF Frame, Acquire, Pick, StopLoop, NotDue, LeaseLost, Release, servingVars, dbVars,
       sourceVars, docVars, revVars

LEMMA EnvironmentInert ==
  Failure \/ Time \/ Requests \/ Space => UNCHANGED servingVars
<1>1. Failure => UNCHANGED servingVars
  BY DEF Failure, Expire, Yield, Crash, servingVars, dbVars, sourceVars, docVars, revVars
<1>2. Time \/ Requests => UNCHANGED servingVars
  BY DEF Time, Due, Requests, Enqueue, servingVars, sourceVars, docVars, revVars
<1>3. Space => UNCHANGED servingVars
  BY DEF Space, Edit, Move, Retarget, Rescope, ChangeAccess, Close, Reopen, servingVars,
         dbVars, sourceVars, docVars, revVars
<1>4. QED BY <1>1, <1>2, <1>3

Calls(w) ==
  \/ GiveUpRun(w) \/ RetryLater(w) \/ Resolve(w)
  \/ (\E f \in Folders : ListPage(w, f)) \/ RefusePage(w) \/ EndEnumerate(w)
  \/ FetchBefore(w) \/ FetchBlocks(w) \/ FetchMedia(w) \/ FetchAfter(w)
  \/ Verify(w) \/ Index(w) \/ EndExtract(w)
  \/ QueueMissing(w) \/ (\E n \in Nodes : LookUp(w, n)) \/ Finish(w)

LEMMA CallsInert == ASSUME NEW w \in Workers, Calls(w) PROVE UNCHANGED servingVars
<1>1. GiveUpRun(w) \/ RetryLater(w) \/ Resolve(w) => UNCHANGED servingVars
  BY DEF GiveUpRun, RetryLater, Resolve, servingVars, dbVars, sourceVars, docVars, revVars
<1>2. (\E f \in Folders : ListPage(w, f)) => UNCHANGED servingVars
  BY DEF ListPage, servingVars, dbVars, sourceVars, docVars, revVars
<1>3. RefusePage(w) \/ EndEnumerate(w) \/ EndExtract(w) => UNCHANGED servingVars
  BY DEF RefusePage, EndEnumerate, EndExtract, servingVars, dbVars, sourceVars, docVars,
         revVars
<1>4. FetchBefore(w) \/ FetchBlocks(w) \/ FetchMedia(w) \/ FetchAfter(w)
        => UNCHANGED servingVars
  BY DEF FetchBefore, FetchBlocks, FetchMedia, FetchAfter, servingVars, dbVars, sourceVars,
         docVars, revVars
<1>5. Verify(w) \/ Index(w) => UNCHANGED servingVars
  BY DEF Verify, Index, servingVars, dbVars, sourceVars, docVars, revVars
<1>6. QueueMissing(w) \/ Finish(w) => UNCHANGED servingVars
  BY DEF QueueMissing, Finish, servingVars, sourceVars, docVars, revVars
<1>7. (\E n \in Nodes : LookUp(w, n)) => UNCHANGED servingVars
  BY DEF LookUp, servingVars, dbVars, sourceVars, docVars, revVars
<1>8. QED BY <1>1, <1>2, <1>3, <1>4, <1>5, <1>6, <1>7 DEF Calls

-----------------------------------------------------------------------------
(***************************************************************************)
(* Steps that write a status                                               *)
(***************************************************************************)

\* A status other than removed or inaccessible may be written at any time without
\* a refresh: it does not bring a document back, whose epoch is gone.
LEMMA StatusStep ==
  ASSUME ServingInv,
         UNCHANGED <<health, epoch, docEpoch, activeRev, published, agentFiles>>,
         docStatus' = [e \in Docs |-> docStatus'[e]],
         \A d \in Docs : docStatus'[d] = docStatus[d] \/ docStatus'[d] \notin Offline
  PROVE  ServingInv' /\ \A d \in Docs : Readable(d)' <=> Readable(d)
<1>1. ServingTypes' /\ RemovedHidden' /\ EpochsBehind'
  BY DEF ServingInv, ServingTypes, RemovedHidden, EpochsBehind
<1>2. ASSUME NEW d \in Docs PROVE Readable(d)' <=> Readable(d)
  <2>1. CASE docStatus'[d] = docStatus[d]
    BY <2>1 DEF Readable
  <2>2. CASE docStatus'[d] \notin Offline
    <3>1. docStatus[d] \in Offline => docEpoch[d] # epoch
      BY DEF ServingInv, ServingTypes, RemovedHidden
    <3>2. QED BY <2>2, <3>1 DEF Readable
  <2>3. QED BY <2>1, <2>2
<1>3. AgentFilesExact'
  BY <1>2, SameServed DEF ServingInv, AgentFilesExact
<1>4. QED BY <1>1, <1>2, <1>3 DEF ServingInv

Writes(w) ==
  \/ ItemFails(w)
  \/ \E d \in Docs : SkipDocument(w, d) \/ BeginExtract(w, d)
  \/ Stage(w) \/ BeginIndex(w)

LEMMA WritesStep ==
  ASSUME ServingInv, NEW w \in Workers, Writes(w)
  PROVE  ServingInv' /\ \A d \in Docs : Readable(d)' <=> Readable(d)
<1> DEFINE Same == UNCHANGED <<health, epoch, docEpoch, activeRev, published, agentFiles>>
           Ok == docStatus' = [e \in Docs |-> docStatus'[e]] /\
                 \A d \in Docs : docStatus'[d] = docStatus[d] \/ docStatus'[d] \notin Offline
<1>0. docStatus = [e \in Docs |-> docStatus[e]]
  BY DEF ServingInv, ServingTypes
<1>1. ItemFails(w) => Same /\ Ok
  BY <1>0 DEF ItemFails, sourceVars, revVars, Offline
<1>2. ASSUME NEW d \in Docs PROVE SkipDocument(w, d) \/ BeginExtract(w, d) => Same /\ Ok
  BY <1>0 DEF SkipDocument, BeginExtract, sourceVars, revVars, Offline
<1>3. Stage(w) \/ BeginIndex(w) => Same /\ Ok
  BY <1>0 DEF Stage, BeginIndex, sourceVars, revVars, Offline
<1>4. Same /\ Ok
  BY <1>1, <1>2, <1>3 DEF Writes
<1>5. QED BY <1>4, StatusStep

-----------------------------------------------------------------------------
(***************************************************************************)
(* Steps that change who is served                                         *)
(***************************************************************************)

\* What it takes to write the status and the epoch of one document.
LEMMA OneDocument ==
  ASSUME ServingInv, NEW k, NEW st, NEW ep,
         docStatus' = [docStatus EXCEPT ![k] = st],
         docEpoch' = [docEpoch EXCEPT ![k] = ep],
         ep \in Int
  PROVE  /\ docStatus' = [d \in Docs |-> docStatus'[d]]
         /\ docEpoch' \in [Docs -> Int]
         /\ \A d \in Docs : d # k => docStatus'[d] = docStatus[d] /\ docEpoch'[d] = docEpoch[d]
         /\ \A d \in Docs : d = k => docStatus'[d] = st /\ docEpoch'[d] = ep
<1>1. docStatus = [d \in Docs |-> docStatus[d]] /\ docEpoch \in [Docs -> Int]
  BY DEF ServingInv, ServingTypes
<1>2. docStatus' = [d \in Docs |-> IF d = k THEN st ELSE docStatus[d]]
  BY <1>1
<1>3. docEpoch' = [d \in Docs |-> IF d = k THEN ep ELSE docEpoch[d]]
  BY <1>1
<1>4. docStatus' = [d \in Docs |-> docStatus'[d]]
  BY <1>2
<1>5. QED BY <1>1, <1>2, <1>3, <1>4

LEMMA TakeOfflineStep ==
  ASSUME ServingInv, NEW w \in Workers, TakeOffline(w)
  PROVE  ServingInv' /\ \A d \in Docs : Readable(d)' => Readable(d)
<1> DEFINE k == Key(w)
           st == IF loc[w].fault = "denied" THEN "inaccessible" ELSE "removed"
<1>1. /\ docStatus' = [docStatus EXCEPT ![k] = st]
      /\ docEpoch' = [docEpoch EXCEPT ![k] = -1]
      /\ UNCHANGED <<health, epoch, activeRev, published>>
      /\ RefreshAgentFiles
  BY DEF TakeOffline, sourceVars
<1>2. st \in Offline
  BY DEF Offline
<1> HIDE DEF k, st
<1>3. /\ docStatus' = [d \in Docs |-> docStatus'[d]]
      /\ docEpoch' \in [Docs -> Int]
      /\ \A d \in Docs : d # k => docStatus'[d] = docStatus[d] /\ docEpoch'[d] = docEpoch[d]
      /\ \A d \in Docs : d = k => docStatus'[d] = st /\ docEpoch'[d] = -1
  <2>1. -1 \in Int
    OBVIOUS
  <2>2. QED BY ONLY <1>1, <2>1, ServingInv, OneDocument, Zenon
<1>4. ServingTypes' /\ RemovedHidden' /\ EpochsBehind'
  <2>1. ServingTypes'
    BY <1>1, <1>3 DEF ServingInv, ServingTypes
  <2>2. RemovedHidden'
    BY <1>3 DEF ServingInv, RemovedHidden
  <2>3. EpochsBehind'
    BY <1>1, <1>3 DEF ServingInv, ServingTypes, EpochsBehind
  <2>4. QED BY <2>1, <2>2, <2>3
<1>5. AgentFilesExact'
  BY <1>1 DEF RefreshAgentFiles, AgentFilesExact
<1>6. \A d \in Docs : Readable(d)' => Readable(d)
  BY <1>1, <1>2, <1>3 DEF Readable
<1>7. QED BY <1>4, <1>5, <1>6 DEF ServingInv

LEMMA FailRunStep ==
  ASSUME ServingInv, NEW w \in Workers, FailRun(w)
  PROVE  ServingInv' /\ \A d \in Docs : Readable(d)' => Readable(d)
<1>1. CASE UNCHANGED servingVars
  <2>1. ServingInv'
    BY <1>1, InertStep
  <2>2. QED BY <1>1, <2>1 DEF servingVars, Readable
<1>2. CASE ~UNCHANGED servingVars
  <2>1. /\ health' = "paused" /\ epoch' = PausedEpoch
        /\ UNCHANGED <<docStatus, docEpoch, activeRev, published>>
        /\ RefreshAgentFiles
    BY <1>2 DEF FailRun, docVars, servingVars
  <2>2. epoch' \in Nat /\ epoch' >= epoch /\ (health # "paused" => epoch' > epoch)
    BY <2>1 DEF PausedEpoch, ServingInv, ServingTypes
  <2>3. ServingTypes' /\ RemovedHidden'
    BY <2>1, <2>2 DEF ServingInv, ServingTypes, RemovedHidden
  <2>4. EpochsBehind'
    BY <2>1, <2>2 DEF ServingInv, ServingTypes, EpochsBehind
  <2>5. AgentFilesExact'
    BY <2>1 DEF RefreshAgentFiles, AgentFilesExact
  <2>6. QED BY <2>1, <2>3, <2>4, <2>5 DEF ServingInv, Readable
<1>3. QED BY <1>1, <1>2

\* The source becomes healthy again, and nothing published before is readable.
LEMMA ValidateStep ==
  ASSUME ServingInv, NEW w \in Workers, Validate(w)
  PROVE  ServingInv' /\ \A d \in Docs : Readable(d)' => Readable(d)
<1>1. /\ health' = "healthy" /\ RefreshAgentFiles
      /\ UNCHANGED <<epoch, docStatus, docEpoch, activeRev, published>>
  BY DEF Validate, docVars
<1>2. ServingTypes' /\ RemovedHidden' /\ EpochsBehind'
  BY <1>1 DEF ServingInv, ServingTypes, RemovedHidden, EpochsBehind
<1>3. AgentFilesExact'
  BY <1>1 DEF RefreshAgentFiles, AgentFilesExact
<1>4. \A d \in Docs : Readable(d)' => Readable(d)
  BY <1>1 DEF ServingInv, ServingTypes, EpochsBehind, Readable
<1>5. QED BY <1>2, <1>3, <1>4 DEF ServingInv

LEMMA ConfirmStep ==
  ASSUME ServingInv, NEW w \in Workers, Confirm(w)
  PROVE  ServingInv' /\ \A d \in Docs : Readable(d)' => Readable(d)
<1> DEFINE d == nodeDoc[Key(w)]
           v == Verdict(w, Key(w))
<1>1. UNCHANGED <<health, epoch, activeRev, published>>
  BY DEF Confirm, sourceVars
<1>2. CASE UNCHANGED <<docStatus, docEpoch, agentFiles>>
  <2>1. UNCHANGED servingVars
    BY <1>1, <1>2 DEF servingVars
  <2>2. QED BY <1>1, <1>2, <2>1, InertStep DEF Readable
<1>3. CASE ~UNCHANGED <<docStatus, docEpoch, agentFiles>>
  <2>1. /\ v # "missing"
        /\ docStatus' = [docStatus EXCEPT ![d] = v]
        /\ docEpoch' = [docEpoch EXCEPT ![d] = -1]
        /\ RefreshAgentFiles
    BY <1>3 DEF Confirm
  <2>2. v \in Offline
    BY <2>1 DEF Verdict, Offline
  <2> HIDE DEF d, v
  <2>3. /\ docStatus' = [e \in Docs |-> docStatus'[e]]
        /\ docEpoch' \in [Docs -> Int]
        /\ \A e \in Docs : e # d => docStatus'[e] = docStatus[e] /\ docEpoch'[e] = docEpoch[e]
        /\ \A e \in Docs : e = d => docStatus'[e] = v /\ docEpoch'[e] = -1
    <3>1. -1 \in Int
      OBVIOUS
    <3>2. QED BY ONLY <2>1, <3>1, ServingInv, OneDocument, Zenon
  <2>4. ServingTypes' /\ RemovedHidden' /\ EpochsBehind'
    <3>1. ServingTypes'
      BY <1>1, <2>3 DEF ServingInv, ServingTypes
    <3>2. RemovedHidden'
      BY <2>3 DEF ServingInv, RemovedHidden
    <3>3. EpochsBehind'
      BY <1>1, <2>3 DEF ServingInv, ServingTypes, EpochsBehind
    <3>4. QED BY <3>1, <3>2, <3>3
  <2>5. AgentFilesExact'
    BY <2>1 DEF RefreshAgentFiles, AgentFilesExact
  <2>6. \A e \in Docs : Readable(e)' => Readable(e)
    BY <1>1, <2>2, <2>3 DEF Readable
  <2>7. QED BY <2>4, <2>5, <2>6 DEF ServingInv
<1>4. QED BY <1>2, <1>3

\* A page may take documents off line, and then refreshes; else it only gives new
\* documents their first status.
LEMMA DiscoverStep ==
  ASSUME ServingInv, NEW w \in Workers, Discover(w)
  PROVE  ServingInv' /\ \A d \in Docs : Readable(d)' => Readable(d)
<1> DEFINE page1 == loc[w].listing
           Off(o) == {d \in Docs : Unserved(o, page1, d) # {}}
<1>1. PICK o \in Orders(DOMAIN page1) :
        /\ docStatus' = [d \in Docs |-> DocStatusAfter(o, page1, d)]
        /\ docEpoch' = [d \in Docs |-> IF d \in Off(o) THEN -1 ELSE docEpoch[d]]
        /\ IF Off(o) = {} THEN UNCHANGED agentFiles ELSE RefreshAgentFiles
  BY DEF Discover
<1>2. UNCHANGED <<health, epoch, activeRev, published>>
  BY DEF Discover, sourceVars, revVars
<1>3. ASSUME NEW d \in Docs, d \notin Off(o)
      PROVE  docStatus'[d] = docStatus[d] \/ docStatus'[d] \notin Offline
  BY <1>1, <1>3 DEF DocStatusAfter, FirstStatus, Offline
<1> HIDE DEF Off
<1>4. CASE Off(o) = {}
  <2>1. docEpoch' = docEpoch /\ UNCHANGED agentFiles
    BY <1>1, <1>4 DEF ServingInv, ServingTypes
  <2>2. docStatus' = [d \in Docs |-> docStatus'[d]]
    BY <1>1
  <2>3. QED BY <1>2, <1>3, <1>4, <2>1, <2>2, StatusStep
<1>5. CASE Off(o) # {}
  <2>1. docStatus' = [d \in Docs |-> docStatus'[d]] /\ docEpoch' \in [Docs -> Int]
    BY <1>1 DEF ServingInv, ServingTypes
  <2>2. \A d \in Docs : docEpoch'[d] = IF d \in Off(o) THEN -1 ELSE docEpoch[d]
    BY <1>1
  <2>3. ServingTypes' /\ RemovedHidden' /\ EpochsBehind'
    BY <1>2, <1>3, <2>1, <2>2 DEF ServingInv, ServingTypes, RemovedHidden, EpochsBehind
  <2>4. AgentFilesExact'
    BY <1>1, <1>5 DEF RefreshAgentFiles, AgentFilesExact
  <2>5. \A d \in Docs : Readable(d)' => Readable(d)
    BY <1>2, <1>3, <2>2 DEF ServingInv, ServingTypes, RemovedHidden, Readable
  <2>6. QED BY <2>3, <2>4, <2>5 DEF ServingInv
<1>6. QED BY <1>4, <1>5

LEMMA PublishStep ==
  ASSUME ServingInv, NEW w \in Workers, Publish(w)
  PROVE  /\ ServingInv'
         /\ \A d \in Docs : Readable(d)' /\ ~Readable(d) =>
              pc[w] = "verified" /\ Key(w) = d /\ activeRev'[d] = Extracted(w)
<1> DEFINE k == Key(w)
           rev == Extracted(w)
<1>1. /\ pc[w] = "verified" /\ health = "healthy" /\ UNCHANGED <<health, epoch>>
      /\ activeRev' = [activeRev EXCEPT ![k] = rev]
      /\ docEpoch' = [docEpoch EXCEPT ![k] = epoch]
      /\ docStatus' = [docStatus EXCEPT ![k] = "published"]
      /\ RefreshAgentFiles
  BY DEF Publish, MayPublish, sourceVars
<1> HIDE DEF k, rev
<1>a. /\ docStatus' = [d \in Docs |-> docStatus'[d]]
      /\ docEpoch' \in [Docs -> Int]
      /\ \A d \in Docs : d # k => docStatus'[d] = docStatus[d] /\ docEpoch'[d] = docEpoch[d]
      /\ \A d \in Docs : d = k => docStatus'[d] = "published" /\ docEpoch'[d] = epoch
  <2>1. epoch \in Int
    BY DEF ServingInv, ServingTypes
  <2>2. QED BY <1>1, <2>1, OneDocument
<1>b. activeRev' = [d \in Docs |-> IF d = k THEN rev ELSE activeRev[d]]
  BY <1>1 DEF ServingInv, ServingTypes
<1>2. ServingTypes' /\ RemovedHidden' /\ EpochsBehind'
  <2>1. activeRev' = [d \in Docs |-> activeRev'[d]]
    BY <1>b
  <2>2. ServingTypes'
    BY <1>1, <1>a, <2>1 DEF ServingInv, ServingTypes
  <2>3. RemovedHidden' /\ EpochsBehind'
    BY <1>1, <1>a DEF ServingInv, ServingTypes, RemovedHidden, EpochsBehind, Offline
  <2>4. QED BY <2>2, <2>3
<1>3. AgentFilesExact'
  BY <1>1 DEF RefreshAgentFiles, AgentFilesExact
<1>4. ASSUME NEW d \in Docs, Readable(d)', ~Readable(d) PROVE d = k
  BY <1>1, <1>a, <1>b, <1>4 DEF Readable
<1>5. ASSUME NEW d \in Docs, d = k PROVE activeRev'[d] = rev
  BY <1>b, <1>5
<1>6. QED BY <1>1, <1>2, <1>3, <1>4, <1>5 DEF ServingInv, k, rev

-----------------------------------------------------------------------------
(***************************************************************************)
(* The theorems                                                            *)
(***************************************************************************)

Published(d) ==
  \E w \in Workers : Publish(w) /\ pc[w] = "verified" /\ Key(w) = d
                     /\ activeRev'[d] = Extracted(w)

LEMMA ServingStep ==
  ASSUME ServingInv, [Next]_vars
  PROVE  ServingInv' /\ \A d \in Docs : ~Readable(d) /\ Readable(d)' => Published(d)
<1> DEFINE P == ServingInv' /\ \A d \in Docs : ~Readable(d) /\ Readable(d)' => Published(d)
<1>1. UNCHANGED servingVars => P
  BY InertStep DEF servingVars, Readable
<1>2. ASSUME NEW w \in Workers PROVE Publish(w) => P
  BY PublishStep DEF Published
<1>3. ASSUME NEW w \in Workers
      PROVE  Frame(w) \/ Calls(w) => P
  BY <1>1, FrameInert, CallsInert
<1>4. ASSUME NEW w \in Workers
      PROVE  Writes(w) => P
  BY WritesStep
<1>5. ASSUME NEW w \in Workers
      PROVE  TakeOffline(w) \/ FailRun(w) \/ Validate(w) \/ Discover(w) \/ Confirm(w) => P
  BY TakeOfflineStep, FailRunStep, ValidateStep, DiscoverStep, ConfirmStep
<1>6. Failure \/ Time \/ Requests \/ Space => P
  BY <1>1, EnvironmentInert
<1>7. UNCHANGED vars => P
  BY <1>1 DEF vars, dbVars, sourceVars, docVars, revVars, servingVars
<1> HIDE DEF P
<1>8. ASSUME NEW w \in Workers, Progress(w)
      PROVE  P
  BY <1>2, <1>3, <1>4, <1>5, <1>8
     DEF Progress, Handling, Enumerating, Extracting, Reconciling, Calls, Writes
<1>9. P BY <1>6, <1>7, <1>8 DEF Next
<1>10. QED BY <1>9 DEF P

\* The Agent searches exactly the files of the documents in service, whatever the
\* workers, the failures and the changes in Feishu (refreshAgentFiles).
THEOREM AgentFilesAlwaysExact == Spec => []AgentFilesExact
<1>1. Init => ServingInv
  BY ServingInit
<1>2. ServingInv /\ [Next]_vars => ServingInv'
  BY ServingStep
<1>3. ServingInv => AgentFilesExact
  BY DEF ServingInv
<1>4. QED BY <1>1, <1>2, <1>3, PTL DEF Spec

\* A document comes into service only by its own publication: when a paused source
\* recovers, nothing that was published before is readable (publish, processNext).
THEOREM PublicationOnly == Spec => OnlyPublicationServes
<1>1. Init => ServingInv
  BY ServingInit
<1>2. ServingInv /\ [Next]_vars => ServingInv'
  BY ServingStep
<1> DEFINE A == \A d \in Docs : ~Readable(d) /\ Readable(d)' =>
                  \E w \in Workers : pc[w] = "verified" /\ Key(w) = d
                                     /\ activeRev'[d] = Extracted(w)
<1>3. ServingInv /\ [Next]_vars => [A]_vars
  BY ServingStep DEF Published
<1>4. QED BY <1>1, <1>2, <1>3, PTL DEF Spec, OnlyPublicationServes
-----------------------------------------------------------------------------
(***************************************************************************)
(* A document in service has a node                                        *)
(***************************************************************************)

\* The document that the holder of the lease extracts has a live node: the node was
\* there when the extraction began, and only the holder takes nodes away.
ExtractedHasNode ==
  \A w \in Workers : holder = w /\ pc[w] \in Extraction => HasLiveNode(Key(w))

NodesInv == Typed /\ ServingInv /\ ServedHasNode /\ ExtractedHasNode

LEMMA Least ==
  ASSUME NEW S \in SUBSET Nat, S # {}
  PROVE  \E m \in S : \A n \in S : m <= n
<1>1. PICK m \in S : \A n \in S : ~(<<n, m>> \in OpToRel(<, Nat))
  BY NatLessThanWellFounded, WFMin
<1>2. \A n \in S : ~(n < m)
  BY <1>1 DEF OpToRel
<1> QED  BY <1>2

\* Of some nodes of a page, one is recorded last.
LEMMA LastRecorded ==
  ASSUME NEW S \in SUBSET Nodes, NEW o \in Orders(S), NEW T \in SUBSET S, T # {}
  PROVE  \E m \in T : \A n \in T : o[n] <= o[m]
<1> DEFINE c == Cardinality(S)
           after == {c - o[n] : n \in T}
<1>1. c \in Nat
  BY SyncAssumption, FS_Subset, FS_CardinalityType DEF SyncAssumption
<1>2. o \in [S -> 1..c]
  BY DEF Orders
<1> HIDE DEF c
<1>3. after \in SUBSET Nat /\ after # {}
  BY <1>1, <1>2
<1>4. PICK k \in after : \A j \in after : k <= j
  BY <1>3, Least
<1>5. PICK m \in T : k = c - o[m]
  BY <1>4
<1>6. \A n \in T : c - o[m] <= c - o[n]
  BY <1>4, <1>5
<1> QED  BY <1>1, <1>2, <1>6

\* A page that takes the last live node of a document away takes it off line.
LEMMA LastNodeGone ==
  ASSUME Typed, NEW w \in Workers, Discover(w), NEW d \in Docs,
         HasLiveNode(d), ~HasLiveNode(d)',
         NEW o \in Orders(DOMAIN loc[w].listing)
  PROVE  Unserved(o, loc[w].listing, d) # {}
<1> DEFINE page1 == loc[w].listing
           S == DOMAIN page1
           T == {n \in S : nodeState[n] \in Live /\ nodeDoc[n] = d}
<1>1. S \in SUBSET Nodes
  BY AtWork DEF Locals, Listings
<1>2. /\ nodeState' = [n \in Nodes |-> IF n \notin S THEN nodeState[n]
                         ELSE IF page1[n].foreign THEN "out_of_scope" ELSE "active"]
      /\ nodeDoc' = [n \in Nodes |-> IF n \in S THEN page1[n].doc ELSE nodeDoc[n]]
  BY DEF Discover, RecordNodes
<1>3. o \in Orders(S)
  OBVIOUS
<1> HIDE DEF page1
<1> HIDE DEF S
<1>4. ASSUME NEW n \in Nodes \ S  PROVE ~(nodeState[n] \in Live /\ nodeDoc[n] = d)
  BY <1>2, <1>4 DEF HasLiveNode
<1>5. ASSUME NEW n \in S  PROVE ~(page1[n].doc = d /\ ~page1[n].foreign)
  BY <1>1, <1>2, <1>5 DEF HasLiveNode, Live
<1>6. T # {} /\ T \in SUBSET S
  BY <1>4 DEF HasLiveNode
<1>7. PICK m \in T : \A n \in T : o[n] <= o[m]
  BY <1>1, <1>3, <1>6, LastRecorded
<1>8. DOMAIN o = S /\ \A n \in S : o[n] \in Int
  BY <1>3 DEF Orders
<1>9. ~Held(o, page1, m, d)
  <2> SUFFICES ASSUME NEW k \in Nodes
               PROVE  ~(IF Recorded(o, m, k) THEN page1[k].doc = d /\ ~page1[k].foreign
                        ELSE nodeDoc[k] = d /\ nodeState[k] \in Live)
    BY DEF Held
  <2>1. CASE Recorded(o, m, k)
    BY <1>5, <1>8, <2>1 DEF Recorded
  <2>2. CASE ~Recorded(o, m, k)
    BY <1>4, <1>7, <1>8, <2>2 DEF Recorded
  <2> QED  BY <2>1, <2>2
<1>10. nodeDoc[m] = d /\ nodeState[m] # "unknown"
  BY <1>7 DEF Live
<1>11. Orphans(o, page1, m, d) \/ Expels(o, page1, m, d)
  BY <1>5, <1>6, <1>9, <1>10 DEF Orphans, Expels
<1> QED  BY <1>6, <1>8, <1>11 DEF Unserved, page1

LEMMA DiscoverNodes ==
  ASSUME NodesInv, NEW w \in Workers, Discover(w)
  PROVE  ServedHasNode'
<1> SUFFICES ASSUME NEW d \in Docs, Readable(d)', ~HasLiveNode(d)'  PROVE FALSE
  BY DEF ServedHasNode
<1> DEFINE page1 == loc[w].listing
<1>1. Readable(d) /\ HasLiveNode(d)
  BY DiscoverStep DEF NodesInv, ServedHasNode
<1>2. PICK o \in Orders(DOMAIN page1) :
        docEpoch' = [e \in Docs |-> IF e \in {f \in Docs : Unserved(o, page1, f) # {}}
                                    THEN -1 ELSE docEpoch[e]]
  BY DEF Discover
<1>3. docEpoch'[d] = -1
  BY <1>1, <1>2, LastNodeGone DEF NodesInv
<1>4. epoch' \in Nat
  BY DEF NodesInv, ServingInv, ServingTypes, Discover, sourceVars
<1> QED  BY <1>3, <1>4 DEF Readable

LEMMA ConfirmNodes ==
  ASSUME NodesInv, NEW w \in Workers, Confirm(w)
  PROVE  ServedHasNode'
<1> SUFFICES ASSUME NEW d \in Docs, Readable(d)'  PROVE HasLiveNode(d)'
  BY DEF ServedHasNode
<1> DEFINE n == Key(w)
           v == Verdict(w, n)
<1>1. HasLiveNode(d)
  BY ConfirmStep DEF NodesInv, ServedHasNode
<1>2. n \in Nodes /\ nodeState \in [Nodes -> NodeStates]
  BY AtWork DEF NodesInv, Confirm, Typed, TypeOK, NodeTypes
<1>3. /\ nodeState' = [nodeState EXCEPT ![n] = v] /\ nodeDoc' = nodeDoc
      /\ v # "missing" /\ ~HeldByAnother(n, nodeDoc[n]) =>
           docEpoch' = [docEpoch EXCEPT ![nodeDoc[n]] = -1]
      /\ epoch' = epoch
  BY DEF Confirm, sourceVars
<1> HIDE DEF n, v
<1>4. /\ nodeState'[n] = v
      /\ \A m \in Nodes \ {n} : nodeState'[m] = nodeState[m]
  BY <1>2, <1>3
<1>5. CASE v = "missing"
  BY <1>1, <1>3, <1>4, <1>5 DEF HasLiveNode, Live
<1>6. CASE v # "missing" /\ d = nodeDoc[n]
  <2>1. HeldByAnother(n, d)
    <3>1. ASSUME ~HeldByAnother(n, d)  PROVE docEpoch'[d] = -1
      BY <1>3, <1>6, <3>1 DEF NodesInv, ServingInv, ServingTypes
    <3>2. epoch' \in Nat
      BY <1>3 DEF NodesInv, ServingInv, ServingTypes
    <3> QED  BY <3>1, <3>2 DEF Readable
  <2> QED  BY <1>3, <1>4, <2>1 DEF HeldByAnother, HasLiveNode
<1>7. CASE d # nodeDoc[n]
  BY <1>1, <1>3, <1>4, <1>7 DEF HasLiveNode
<1> QED  BY <1>5, <1>6, <1>7

\* Nothing else writes a node.
LEMMA NodesUntouched ==
  ASSUME [Next]_vars, \A w \in Workers : ~Discover(w) /\ ~Confirm(w)
  PROVE  UNCHANGED nodeVars
<1> USE DEF dbVars, nodeVars
<1>1. ASSUME NEW w \in Workers, Frame(w) \/ Handling(w) \/ Yield(w) \/ Crash(w)
      PROVE  UNCHANGED nodeVars
  BY <1>1 DEF Frame, Acquire, Pick, StopLoop, NotDue, LeaseLost, Release, Handling, GiveUpRun,
              TakeOffline, RetryLater, ItemFails, FailRun, Yield, Crash
<1>2. ASSUME NEW w \in Workers, Enumerating(w)
      PROVE  UNCHANGED nodeVars
  BY <1>2 DEF Enumerating, Resolve, Validate, ListPage, RefusePage, EndEnumerate
<1>3. ASSUME NEW w \in Workers, Extracting(w)
      PROVE  UNCHANGED nodeVars
  BY <1>3 DEF Extracting, SkipDocument, BeginExtract, FetchBefore, FetchBlocks, FetchMedia,
              FetchAfter, Stage, Verify, BeginIndex, Index, Publish, EndExtract
<1>4. ASSUME NEW w \in Workers, Reconciling(w)
      PROVE  UNCHANGED nodeVars
  BY <1>4 DEF Reconciling, QueueMissing, LookUp, Finish
<1>5. Expire \/ Time \/ Requests \/ Space \/ UNCHANGED vars => UNCHANGED nodeVars
  BY DEF Expire, Time, Due, Requests, Enqueue, Space, Edit, Move, Retarget, Rescope, ChangeAccess,
         Close, Reopen, vars
<1> QED  BY <1>1, <1>2, <1>3, <1>4, <1>5 DEF Next, Progress, Failure

LEMMA NodesStep ==
  ASSUME NodesInv, [Next]_vars
  PROVE  NodesInv'
<1>1. Typed' /\ ServingInv'
  BY NextTyped, ServingStep DEF NodesInv
<1>2. CASE \E w \in Workers : Discover(w) \/ Confirm(w)
  <2>1. PICK w \in Workers : Discover(w) \/ Confirm(w)
    BY <1>2
  <2>2. holder' = w /\ pc'[w] \notin Extraction
    BY <2>1 DEF Discover, Confirm, MayCommit, Again, Goto, Extraction, NodesInv, Typed, TypeOK,
                WorkerTypes
  <2>3. ExtractedHasNode'
    BY <2>2 DEF ExtractedHasNode
  <2> QED  BY <1>1, <2>1, <2>3, DiscoverNodes, ConfirmNodes DEF NodesInv
<1>3. CASE \A w \in Workers : ~Discover(w) /\ ~Confirm(w)
  <2>1. \A d \in Docs : HasLiveNode(d)' <=> HasLiveNode(d)
    BY <1>3, NodesUntouched DEF nodeVars, HasLiveNode
  <2>2. ASSUME NEW d \in Docs, Readable(d)'  PROVE HasLiveNode(d)
    <3>1. CASE Readable(d)
      BY <3>1 DEF NodesInv, ServedHasNode
    <3>2. CASE ~Readable(d)
      <4>1. PICK w \in Workers : Publish(w) /\ Key(w) = d
        BY <2>2, <3>2, ServingStep DEF NodesInv, Published
      <4>2. holder = w /\ pc[w] \in Extraction
        BY <4>1 DEF Publish, MayPublish, MayCommit, Extraction
      <4> QED  BY <4>1, <4>2 DEF NodesInv, ExtractedHasNode
    <3> QED  BY <3>1, <3>2
  <2>3. ExtractedHasNode'
    <3> SUFFICES ASSUME NEW w \in Workers, holder' = w, pc'[w] \in Extraction
                 PROVE  HasLiveNode(Key(w)') /\ Key(w)' \in Docs
      BY <2>1 DEF ExtractedHasNode
    <3>1. Key(w)' \in Docs
      BY <1>1 DEF Typed, Placed, Fits, Key
    <3>2. HandKept(w) /\ holder = w
      BY HandsStep DEF NodesInv, HandKept, Handed
    <3>3. CASE pc[w] \in Extraction /\ HeldOn(w)
      BY <3>1, <3>2, <3>3 DEF HeldOn, Key, NodesInv, ExtractedHasNode
    <3>4. CASE Extractable(Key(w)')
      BY <3>1, <3>4 DEF Extractable
    <3> QED  BY <3>1, <3>2, <3>3, <3>4 DEF HandKept
  <2> QED  BY <1>1, <2>1, <2>2, <2>3 DEF NodesInv, ServedHasNode
<1> QED  BY <1>2, <1>3

LEMMA NodesInit == Init => NodesInv
BY InitTyped, ServingInit DEF Init, NodesInv, ServedHasNode, ExtractedHasNode, Readable, Extraction

\* A document in service is found at some node that is live, as far as the database
\* knows: no page, confirmation, extraction or takeover leaves one in service after
\* its last node (discover, confirmMissing, extractDocument).
THEOREM ServedAlwaysHasNode == Spec => []ServedHasNode
<1>1. NodesInv => ServedHasNode
  BY DEF NodesInv
<1> QED  BY <1>1, NodesInit, NodesStep, PTL DEF Spec
=============================================================================
