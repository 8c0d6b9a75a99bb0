----------------------- MODULE KnowledgeServicesProofs -----------------------
(***************************************************************************)
(* Proofs about the components of KnowledgeServices, for any workers,      *)
(* writers, readers, callers and viewers, and any bounds.  Each section    *)
(* has the inductive invariant of one component and the safety property    *)
(* that the run services checks of it.  The liveness properties of the     *)
(* components stay with the run.                                           *)
(***************************************************************************)
EXTENDS KnowledgeServices, Sequences, TLAPS, FiniteSetTheorems

\* One part moves at a time, by a step of its own module.
LEMMA OthersRest ==
  [PartsNext]_partVars =>
    /\ [Next]_vars /\ [Reader!Next]_readerVars /\ [Schedule!Next]_scheduleVars
    /\ [Feishu!Next]_feishuVars /\ [Index!Next]_indexVars /\ [Blob!Next]_blobVars
    /\ [Generation!Next]_generationVars
  BY DEF PartsNext, Only, partVars

-----------------------------------------------------------------------------
(***************************************************************************)
(* The search                                                              *)
(***************************************************************************)

\* What was read for a call's last load was current since it asked for it; and a call
\* that waits knows all that was current since, the present included.
LoadsAreNew ==
  /\ \A c \in Calls : step[c] \in {"wait", "last"} => current \in since[c]
  /\ \A c \in Calls :
       step[c] = "last" /\ round.phase = "read" /\ round.answer # None =>
         round.answer \in since[c]

SearchInv == TypeOK /\ LoadsAreNew

\* No call is in a round, and nothing has been read, at the start.
LEMMA SearchStarts == Init => SearchInv
  BY SearchAssumption, SMT DEF Init, SearchInv, TypeOK, LoadsAreNew, Steps, Rounds, NoRound, Answers

\* What manifest() finds or makes is a round that will end.
LEMMA JoinedIsRound ==
  ASSUME NEW r \in Rounds
  PROVE  /\ Joined(r) \in Rounds
         /\ Joined(r).phase # "none"
         /\ r.phase # "none" => Joined(r) = r
         /\ r.phase = "none" => Joined(r).phase = "queued"
  BY DEF Joined, Rounds, Queued, Answers

\* The type invariant, step by step.
LEMMA NextType == TypeOK /\ [Next]_vars => TypeOK'
<1> SUFFICES ASSUME TypeOK, [Next]_vars PROVE TypeOK'
  OBVIOUS
<1> USE SearchAssumption DEF TypeOK
<1>1. ASSUME NEW c \in Calls, NEW w \in Answers, Begin(c, w) PROVE TypeOK'
  <2>1. round' \in Rounds /\ round'.phase # "none"
    BY <1>1, JoinedIsRound DEF Begin
  <2>2. \A d \in Calls : step[d] = "wait" => round' = round
    BY <1>1, JoinedIsRound DEF Begin
  <2> QED
    BY <1>1, <2>1, <2>2 DEF Begin, To, Steps, Answers
<1>2. ASSUME NEW c \in Calls, Scan(c) PROVE TypeOK'
  <2>1. CASE errors' = errors /\ TooOld(round) /\ To(c, "wait") /\ UNCHANGED round
             /\ since' = [since EXCEPT ![c] = {current}]
    BY <1>2, <2>1 DEF Scan, To, Steps, TooOld, Answers
  <2>2. CASE errors' = errors /\ ~TooOld(round) /\ To(c, "last") /\ round' = Joined(round)
             /\ since' = [since EXCEPT ![c] = {current}]
    <3>1. round' \in Rounds /\ round'.phase # "none"
      BY <2>2, JoinedIsRound
    <3>2. \A d \in Calls : step[d] = "wait" => round' = round
      BY <2>2, JoinedIsRound
    <3> QED
      BY <1>2, <2>2, <3>1, <3>2 DEF Scan, To, Steps, Answers
  <2>3. CASE UNCHANGED <<round, since>> /\ (To(c, "failed") \/ To(c, "changed"))
    BY <1>2, <2>3 DEF Scan, To, Steps, Fails, Succeeds
  <2> QED
    BY <1>2, <2>1, <2>2, <2>3 DEF Scan, Succeeds
<1>3. ASSUME Start PROVE TypeOK'
  BY <1>3 DEF Start, callVars, Rounds
<1>4. ASSUME Read PROVE TypeOK'
  BY <1>4 DEF Read, callVars, Rounds, Fails, Succeeds, Answers
<1>5. ASSUME Settle PROVE TypeOK'
  <2>1. round' \in Rounds
    BY <1>5 DEF Settle, Forgotten, Queued, NoRound, Rounds, Answers
  <2>2. \A c \in Calls : Hears(c, round.answer) \in Steps
    BY DEF Hears, OnFailure, Steps
  <2>3. step' \in [Calls -> Steps] /\ state' \in [Calls -> Answers]
    BY <1>5, <2>2 DEF Settle, Rounds
  <2>4. \A c \in Calls :
          /\ Hears(c, round.answer) \notin {"first", "wait"}
          /\ Hears(c, round.answer) = "last" => step[c] = "wait" /\ round.answer # None
    BY DEF Hears, OnFailure
  <2>5. \A c \in Calls : step'[c] = "last" => round'.phase = "queued"
    BY <1>5 DEF Settle, Forgotten, Queued
  <2> QED
    BY <1>5, <2>1, <2>3, <2>4, <2>5 DEF Settle
<1>6. ASSUME Change PROVE TypeOK'
  BY <1>6 DEF Change, Answers
<1>7. CASE UNCHANGED vars
  BY <1>7 DEF vars, callVars
<1> QED
  BY <1>1, <1>2, <1>3, <1>4, <1>5, <1>6, <1>7 DEF Next

\* Only a load that had not started is joined freshly, and what is read is current.
LEMMA NextNew == SearchInv /\ [Next]_vars => LoadsAreNew'
<1> SUFFICES ASSUME TypeOK, LoadsAreNew, [Next]_vars PROVE LoadsAreNew'
  BY DEF SearchInv
<1> USE DEF TypeOK, LoadsAreNew
<1>1. ASSUME NEW c \in Calls, NEW w \in Answers, Begin(c, w) PROVE LoadsAreNew'
  <2>1. round.phase = "read" => round' = round
    BY <1>1, JoinedIsRound DEF Begin
  <2>2. round'.phase = "read" => round.phase = "read"
    BY <1>1, JoinedIsRound DEF Begin
  <2> QED
    BY <1>1, <2>1, <2>2 DEF Begin, To
<1>2. ASSUME NEW c \in Calls, Scan(c) PROVE LoadsAreNew'
  <2>1. CASE TooOld(round) /\ To(c, "wait") /\ UNCHANGED round
             /\ since' = [since EXCEPT ![c] = {current}]
    BY <1>2, <2>1 DEF Scan, To
  <2>2. CASE ~TooOld(round) /\ To(c, "last") /\ round' = Joined(round)
             /\ since' = [since EXCEPT ![c] = {current}]
    <3>1. round'.phase # "read"
      BY <2>2, JoinedIsRound DEF TooOld
    <3> QED
      BY <1>2, <2>2, <3>1 DEF Scan, To
  <2>3. CASE UNCHANGED <<round, since>> /\ (To(c, "failed") \/ To(c, "changed"))
    BY <1>2, <2>3 DEF Scan, To
  <2> QED
    BY <1>2, <2>1, <2>2, <2>3 DEF Scan
<1>3. ASSUME Start PROVE LoadsAreNew'
  BY <1>3 DEF Start, callVars, Rounds
<1>4. ASSUME Read PROVE LoadsAreNew'
  BY <1>4 DEF Read, callVars
<1>5. ASSUME Settle PROVE LoadsAreNew'
  <2>1. round'.phase # "read"
    BY <1>5 DEF Settle, Forgotten, Queued, NoRound
  <2>2. \A c \in Calls : step'[c] \in {"wait", "last"} => step[c] \in {"wait", "last"}
    BY <1>5 DEF Settle, Hears, OnFailure
  <2> QED
    BY <1>5, <2>1, <2>2 DEF Settle
<1>6. ASSUME Change PROVE LoadsAreNew'
  BY <1>6 DEF Change
<1>7. CASE UNCHANGED vars
  BY <1>7 DEF vars, callVars
<1> QED
  BY <1>1, <1>2, <1>3, <1>4, <1>5, <1>6, <1>7 DEF Next

\* The shape of the state, and that nobody waits for a load that is over, hold whichever
\* calls share a round and however loads fail (pendingManifests in search.ts).
THEOREM TypeCorrect == Spec => []TypeOK
<1>1. TypeOK /\ [Next]_vars => TypeOK'
  BY NextType
<1> QED
  BY SearchStarts, <1>1, PTL DEF Spec, SearchInv

\* SearchInv is inductive.
LEMMA Invariance == Spec => []SearchInv
<1>1. SearchInv /\ [Next]_vars => SearchInv'
  BY NextType, NextNew DEF SearchInv
<1> QED
  BY SearchStarts, <1>1, PTL DEF Spec

\* A call can only end well by hearing of a load that was read after its work.
LEMMA StepConfirmed ==
  SearchInv /\ [Next]_vars =>
    \A c \in Calls : step[c] # "done" /\ step'[c] = "done" => state[c] \in since[c]
<1> SUFFICES ASSUME SearchInv, [Next]_vars,
                    NEW c \in Calls, step[c] # "done", step'[c] = "done"
             PROVE  state[c] \in since[c]
  OBVIOUS
<1>1. Settle
  <2>1. ASSUME NEW d \in Calls, NEW w \in Answers, Begin(d, w) PROVE FALSE
    BY <2>1 DEF Begin, To, SearchInv, TypeOK
  <2>2. ASSUME NEW d \in Calls, Scan(d) PROVE FALSE
    BY <2>2 DEF Scan, To, SearchInv, TypeOK
  <2> QED
    BY <2>1, <2>2 DEF Next, Start, Read, Change, vars, callVars
<1>2. step[c] = "last" /\ round.answer = state[c] /\ round.answer # None
  BY <1>1 DEF Settle, Hears, OnFailure
<1> QED
  BY <1>1, <1>2 DEF Settle, SearchInv, LoadsAreNew

\* A search or a check of hits that succeeds had worked on a snapshot that was current at
\* some moment after its work, whichever loads it shared (manifest(true) in search.ts).
THEOREM Confirmed == Spec => ConfirmedAfterWork
<1>1. SearchInv /\ [Next]_vars =>
        [\A c \in Calls : step[c] # "done" /\ step'[c] = "done" => state[c] \in since[c]]_vars
  BY StepConfirmed
<1> QED
  BY Invariance, <1>1, PTL DEF Spec, ConfirmedAfterWork

-----------------------------------------------------------------------------
(***************************************************************************)
(* A generation and the streams attached to it                             *)
(***************************************************************************)

\* Who has not come shares nothing; and who came while the answer was written, from what
\* the job had said by then, knows the documents.
GenerationInv ==
  /\ viewerPc \in [Viewers -> {"out", "checking", "open", "stopped", "closed"}]
  /\ shares \subseteq Viewers
  /\ \A v \in shares : viewerPc[v] # "out"
  /\ answering = "emitting" => jobContext = context
  /\ came \subseteq last

\* At the start nobody has come.
LEMMA GenerationStarts == PartsInit => GenerationInv /\ StopIsShared
  BY DEF PartsInit, Generation!Init, GenerationInv, StopIsShared, Generation!StopIsShared

\* A stop takes all who listen, and whoever comes later finds it (attachKnowledgeStream).
LEMMA GenerationSteps ==
  ASSUME GenerationInv, StopIsShared, [Generation!Next]_generationVars
  PROVE  GenerationInv' /\ StopIsShared'
<1> USE DEF GenerationInv, StopIsShared, Generation!StopIsShared, Generation!Attached,
            Generation!Finished, Generation!generation, Generation!metadata
<1>1. CASE Generation!Start \/ Generation!Prepare \/ Generation!FindDocuments
           \/ Generation!Check \/ Generation!Finish
  BY <1>1 DEF Generation!Start, Generation!Prepare, Generation!FindDocuments,
              Generation!Check, Generation!Finish
<1>2. CASE Generation!Capture
  BY <1>2 DEF Generation!Capture, Generation!Captured
<1>3. CASE Generation!GenerationFails
  BY <1>3 DEF Generation!GenerationFails, Generation!StopAll, Generation!Listeners
<1>4. CASE Generation!WriteStopCode \/ Generation!Forget \/ Generation!DeleteJob
           \/ Generation!Withdraw
  BY <1>4 DEF Generation!WriteStopCode, Generation!Forget, Generation!DeleteJob,
              Generation!Withdraw
<1>5. ASSUME NEW v \in Viewers, Generation!Attach(v)
      PROVE  GenerationInv' /\ StopIsShared'
  BY <1>5 DEF Generation!Attach, Generation!Refused
<1>6. ASSUME NEW v \in Viewers, Generation!Attached(v), Generation!Stops(v),
             UNCHANGED <<answering, context, jobContext, shares, came>>, last \subseteq last'
      PROVE  GenerationInv' /\ StopIsShared'
  <2>1. CASE v \in shares /\ ~Generation!Finished
    BY <1>6, <2>1 DEF Generation!Stops, Generation!StopAll, Generation!Listeners
  <2>2. CASE ~(v \in shares /\ ~Generation!Finished)
    BY <1>6, <2>2 DEF Generation!Stops
  <2> QED
    BY <2>1, <2>2
<1>7. ASSUME NEW v \in Viewers, Generation!ViewerChecks(v)
      PROVE  GenerationInv' /\ StopIsShared'
  <2>1. UNCHANGED <<answering, context, jobContext, shares, came>> /\ last \subseteq last'
    BY <1>7 DEF Generation!ViewerChecks
  <2>2. CASE Generation!Stops(v)
    BY <1>6, <1>7, <2>1, <2>2 DEF Generation!ViewerChecks
  <2>3. CASE viewerPc' = [viewerPc EXCEPT ![v] = "open"] /\ UNCHANGED stopped
             /\ ~Generation!StopRead(v)
    BY <1>7, <2>1, <2>3 DEF Generation!StopRead
  <2> QED
    BY <1>7, <2>2, <2>3 DEF Generation!ViewerChecks
<1>8. ASSUME NEW v \in Viewers, Generation!ViewerFails(v)
      PROVE  GenerationInv' /\ StopIsShared'
  BY <1>6, <1>8 DEF Generation!ViewerFails
<1>9. ASSUME NEW v \in Viewers, Generation!Leave(v)
      PROVE  GenerationInv' /\ StopIsShared'
  BY <1>9 DEF Generation!Leave
<1>10. CASE UNCHANGED generationVars
  BY <1>10 DEF generationVars
<1> QED
  BY <1>1, <1>2, <1>3, <1>4, <1>5, <1>7, <1>8, <1>9, <1>10 DEF Generation!Next

\* Both are inductive together.
LEMMA GenerationHolds == PartsSpec => [](GenerationInv /\ StopIsShared)
<1>1. GenerationInv /\ StopIsShared /\ [PartsNext]_partVars
        => GenerationInv' /\ StopIsShared'
  BY OthersRest, GenerationSteps
<1> QED
  BY GenerationStarts, <1>1, PTL DEF PartsSpec

\* In one process a generation and its viewers stop together, whoever stops first and
\* however an attachment overlaps the stop (the abort listener and the check of the reason
\* in attachKnowledgeStream), for any viewers.
THEOREM StopsTogether == PartsSpec => []StopIsShared
  BY GenerationHolds, PTL

\* A viewer that comes while an answer is written checks the documents it rests on before
\* it shows anything, wherever it is and though the job is deleted meanwhile
\* (captureKnowledgeContext, lastContext), for any viewers.
THEOREM LateOnesKnow == PartsSpec => []LateViewersKnow
<1>1. GenerationInv => LateViewersKnow
  BY DEF GenerationInv, LateViewersKnow, Generation!LateViewersKnow
<1> QED
  BY GenerationHolds, <1>1, PTL

\* A set with at most one element more.
LEMMA OneMore ==
  ASSUME NEW S, NEW T, NEW x, IsFiniteSet(S), T \subseteq S \cup {x}
  PROVE  /\ IsFiniteSet(T) /\ Cardinality(T) \in Nat /\ Cardinality(S) \in Nat
         /\ Cardinality(T) <= Cardinality(S) + 1
         /\ T \subseteq S => Cardinality(T) <= Cardinality(S)
<1>1. IsFiniteSet(S \cup {x}) /\ Cardinality(S \cup {x}) <= Cardinality(S) + 1
      /\ Cardinality(S) \in Nat
  BY FS_AddElement, FS_CardinalityType
<1>2. IsFiniteSet(T) /\ Cardinality(T) <= Cardinality(S \cup {x})
  BY <1>1, FS_Subset
<1>3. T \subseteq S => Cardinality(T) <= Cardinality(S)
  BY FS_Subset
<1>4. Cardinality(T) \in Nat /\ Cardinality(S \cup {x}) \in Nat
  BY <1>1, <1>2, FS_CardinalityType
<1> QED
  BY <1>1, <1>2, <1>3, <1>4

\* A set without one of its elements.
LEMMA OneLess ==
  ASSUME NEW S, NEW T, NEW x \in S, IsFiniteSet(S), T \subseteq S \ {x}
  PROVE  /\ IsFiniteSet(T) /\ Cardinality(T) \in Nat /\ Cardinality(S) \in Nat
         /\ Cardinality(T) + 1 <= Cardinality(S)
<1>1. IsFiniteSet(S \ {x}) /\ Cardinality(S \ {x}) = Cardinality(S) - 1
  BY FS_RemoveElement
<1>2. IsFiniteSet(T) /\ Cardinality(T) <= Cardinality(S \ {x})
  BY <1>1, FS_Subset
<1>3. Cardinality(T) \in Nat /\ Cardinality(S) \in Nat /\ Cardinality(S \ {x}) \in Nat
  BY <1>1, <1>2, FS_CardinalityType
<1> QED
  BY <1>1, <1>2, <1>3

-----------------------------------------------------------------------------
(***************************************************************************)
(* The blob store                                                          *)
(***************************************************************************)

\* What a writer links is whole, so that only the disk makes the place less; and who is
\* past the link or the comparison has seen it whole.
BlobWhole ==
  /\ place # "part" /\ (place = "spoiled" => spoils > 0)
  /\ \A r \in Readers : answer[r] = "error" => spoils > 0
  /\ \A w \in Writers :
       /\ writerPc[w] = "link" => temporary[w] = "whole"
       /\ writerPc[w] = "idle" => temporary[w] = "none"
       /\ writerPc[w] # "idle" /\ place = "whole" => good[w]
       /\ writerPc[w] \in {"unlink", "done"} => good[w]

BlobInv ==
  /\ Blob!TypeOK /\ BlobWhole
  /\ IsFiniteSet(Blob!LeftBehind) /\ Cardinality(Blob!LeftBehind) <= blobFaults

\* Nothing is there at the start.
LEMMA BlobStarts == PartsInit => BlobInv
<1> SUFFICES ASSUME PartsInit PROVE BlobInv
  OBVIOUS
<1>1. Blob!TypeOK /\ BlobWhole
  BY PartsAssumption
     DEF PartsInit, Blob!Init, Blob!TypeOK, Blob!Contents, Blob!BlobAssumption, BlobWhole
<1>2. Blob!LeftBehind = {} /\ blobFaults = 0
  BY DEF PartsInit, Blob!Init, Blob!LeftBehind
<1> QED
  BY <1>1, <1>2, FS_EmptySet DEF BlobInv

\* The files in hand, the place and what has been seen of it, step by step.
LEMMA BlobStaysWhole ==
  ASSUME Blob!TypeOK, BlobWhole, [Blob!Next]_blobVars
  PROVE  Blob!TypeOK' /\ BlobWhole'
<1> USE PartsAssumption
    DEF Blob!BlobAssumption, Blob!TypeOK, Blob!Contents, BlobWhole, Blob!To, Blob!Holds,
        Blob!Fails, Blob!Succeeds
<1>1. ASSUME NEW w \in Writers, Blob!Open(w) PROVE Blob!TypeOK' /\ BlobWhole'
  <2>1. /\ good' \in [Writers -> BOOLEAN] /\ place = "whole" => good'[w]
        /\ \A v \in Writers \ {w} : good'[v] = good[v]
    BY <1>1 DEF Blob!Open
  <2>2. CASE temporary' = [temporary EXCEPT ![w] = "part"] /\ UNCHANGED blobFaults
             /\ writerPc' = [writerPc EXCEPT ![w] = "write"]
    BY <1>1, <2>1, <2>2 DEF Blob!Open
  <2>3. CASE UNCHANGED temporary /\ writerPc' = [writerPc EXCEPT ![w] = "failed"]
             /\ Blob!Fails
    BY <1>1, <2>1, <2>3 DEF Blob!Open
  <2> QED
    BY <1>1, <2>2, <2>3 DEF Blob!Open
<1>2. ASSUME NEW w \in Writers, Blob!Write(w) PROVE Blob!TypeOK' /\ BlobWhole'
  BY <1>2 DEF Blob!Write
<1>3. ASSUME NEW w \in Writers, Blob!Link(w) PROVE Blob!TypeOK' /\ BlobWhole'
  <2> USE DEF Blob!Link, Blob!Witness, Blob!OnExist
  <2>1. temporary[w] = "whole"
    BY <1>3 DEF Blob!ReadyToLink
  <2>2. good' \in [Writers -> BOOLEAN] /\ good' = [v \in Writers |-> good[v] \/ place' = "whole"]
    BY <1>3
  <2>3. CASE place' = "whole" /\ writerPc' = [writerPc EXCEPT ![w] = "unlink"]
             /\ UNCHANGED blobFaults
    BY <1>3, <2>1, <2>2, <2>3
  <2>4. CASE place # "none" /\ UNCHANGED <<place, blobFaults>>
             /\ writerPc' = [writerPc EXCEPT ![w] = "check"]
    BY <1>3, <2>1, <2>2, <2>4
  <2>5. CASE UNCHANGED place /\ writerPc' = [writerPc EXCEPT ![w] = "failing"]
             /\ Blob!Fails
    BY <1>3, <2>1, <2>2, <2>5
  <2> QED
    BY <1>3, <2>1, <2>3, <2>4, <2>5
<1>4. ASSUME NEW w \in Writers, Blob!Check(w) PROVE Blob!TypeOK' /\ BlobWhole'
  BY <1>4 DEF Blob!Check
<1>5. ASSUME NEW w \in Writers, Blob!Unlink(w) PROVE Blob!TypeOK' /\ BlobWhole'
  BY <1>5 DEF Blob!Unlink, Blob!Cleans
<1>6. ASSUME NEW w \in Writers, Blob!Die(w) PROVE Blob!TypeOK' /\ BlobWhole'
  BY <1>6 DEF Blob!Die
<1>7. ASSUME NEW r \in Readers, Blob!Read(r) PROVE Blob!TypeOK' /\ BlobWhole'
  BY <1>7 DEF Blob!Read
<1>8. CASE Blob!Spoil
  BY <1>8 DEF Blob!Spoil
<1>9. CASE UNCHANGED blobVars
  BY <1>9 DEF blobVars
<1> QED
  BY <1>1, <1>2, <1>3, <1>4, <1>5, <1>6, <1>7, <1>8, <1>9 DEF Blob!Next

\* A step leaves one file behind at most, and then it is a fault.
LEMMA BlobLeaves ==
  ASSUME BlobInv, [Blob!Next]_blobVars
  PROVE  IsFiniteSet(Blob!LeftBehind)' /\ (Cardinality(Blob!LeftBehind) <= blobFaults)'
<1> USE DEF BlobInv, Blob!TypeOK, Blob!To, Blob!Holds, Blob!Fails, Blob!Succeeds
<1>1. ASSUME Blob!LeftBehind' \subseteq Blob!LeftBehind, blobFaults' >= blobFaults,
             blobFaults' \in Nat
      PROVE  IsFiniteSet(Blob!LeftBehind') /\ Cardinality(Blob!LeftBehind') <= blobFaults'
  <2>1. Blob!LeftBehind' \subseteq Blob!LeftBehind \cup {0}
    BY <1>1
  <2>2. /\ IsFiniteSet(Blob!LeftBehind') /\ Cardinality(Blob!LeftBehind') \in Nat
        /\ Cardinality(Blob!LeftBehind) \in Nat /\ Cardinality(Blob!LeftBehind') <= Cardinality(Blob!LeftBehind)
    BY <1>1, <2>1, OneMore, Zenon
  <2> QED
    BY <1>1, <2>2
<1>2. ASSUME NEW w \in Writers, Blob!LeftBehind' \subseteq Blob!LeftBehind \cup {w},
             blobFaults' = blobFaults + 1
      PROVE  IsFiniteSet(Blob!LeftBehind') /\ Cardinality(Blob!LeftBehind') <= blobFaults'
  <2>1. /\ IsFiniteSet(Blob!LeftBehind') /\ Cardinality(Blob!LeftBehind') \in Nat
        /\ Cardinality(Blob!LeftBehind) \in Nat
        /\ Cardinality(Blob!LeftBehind') <= Cardinality(Blob!LeftBehind) + 1
    BY <1>2, OneMore, Zenon
  <2> QED
    BY <1>2, <2>1
<1>3. Blob!TypeOK'
  BY BlobStaysWhole
<1>4. CASE Blob!LeftBehind' \subseteq Blob!LeftBehind /\ blobFaults' >= blobFaults
  BY <1>1, <1>3, <1>4
<1>5. CASE \E w \in Writers : Blob!LeftBehind' \subseteq Blob!LeftBehind \cup {w}
                              /\ blobFaults' = blobFaults + 1
  BY <1>2, <1>5
<1>6. ASSUME NEW w \in Writers,
             \A v \in Writers \ {w} : writerPc'[v] = writerPc[v] /\ temporary'[v] = temporary[v],
             \/ blobFaults' = blobFaults + 1
             \/ blobFaults' = blobFaults /\ w \notin Blob!LeftBehind'
      PROVE  IsFiniteSet(Blob!LeftBehind') /\ Cardinality(Blob!LeftBehind') <= blobFaults'
  BY <1>4, <1>5, <1>6 DEF Blob!LeftBehind
<1>7. ASSUME UNCHANGED <<writerPc, temporary, blobFaults>>
      PROVE  IsFiniteSet(Blob!LeftBehind') /\ Cardinality(Blob!LeftBehind') <= blobFaults'
  BY <1>4, <1>7 DEF Blob!LeftBehind
<1>8. ASSUME NEW w \in Writers, Blob!Open(w)
      PROVE  IsFiniteSet(Blob!LeftBehind') /\ Cardinality(Blob!LeftBehind') <= blobFaults'
  BY <1>6, <1>8 DEF Blob!Open, Blob!LeftBehind
<1>9. ASSUME NEW w \in Writers, Blob!Write(w)
      PROVE  IsFiniteSet(Blob!LeftBehind') /\ Cardinality(Blob!LeftBehind') <= blobFaults'
  BY <1>6, <1>9 DEF Blob!Write, Blob!LeftBehind
<1>10. ASSUME NEW w \in Writers, Blob!Link(w)
      PROVE  IsFiniteSet(Blob!LeftBehind') /\ Cardinality(Blob!LeftBehind') <= blobFaults'
  BY <1>6, <1>10 DEF Blob!Link, Blob!OnExist, Blob!LeftBehind
<1>11. ASSUME NEW w \in Writers, Blob!Check(w)
      PROVE  IsFiniteSet(Blob!LeftBehind') /\ Cardinality(Blob!LeftBehind') <= blobFaults'
  BY <1>6, <1>11 DEF Blob!Check, Blob!LeftBehind
<1>12. ASSUME NEW w \in Writers, Blob!Unlink(w)
      PROVE  IsFiniteSet(Blob!LeftBehind') /\ Cardinality(Blob!LeftBehind') <= blobFaults'
  BY <1>6, <1>12 DEF Blob!Unlink, Blob!Cleans, Blob!LeftBehind
<1>13. ASSUME NEW w \in Writers, Blob!Die(w)
      PROVE  IsFiniteSet(Blob!LeftBehind') /\ Cardinality(Blob!LeftBehind') <= blobFaults'
  BY <1>6, <1>13 DEF Blob!Die, Blob!LeftBehind
<1> QED
  BY <1>7, <1>8, <1>9, <1>10, <1>11, <1>12, <1>13
     DEF Blob!Next, Blob!Read, Blob!Spoil, blobVars

\* put returns only if the content was at its place at some moment of the call, and only
\* the disk makes a read fail; what is left behind is counted by the deaths and failures,
\* for any writers (put and read in blob.ts).
THEOREM PutIsThere == PartsSpec => []PutWasThere
<1>1. BlobInv /\ [PartsNext]_partVars => BlobInv'
  BY OthersRest, BlobStaysWhole, BlobLeaves DEF BlobInv
<1>2. BlobInv => PutWasThere
  <2>1. BlobWhole => (\A w \in Writers : writerPc[w] = "done" => good[w])
                     /\ Blob!OnlyTheDiskSpoils
    BY DEF BlobWhole, Blob!OnlyTheDiskSpoils
  <2>2. Blob!Cardinality(Blob!LeftBehind) = Cardinality(Blob!LeftBehind)
    BY Zenon DEF Cardinality, Blob!Cardinality
  <2> QED
    BY <2>1, <2>2 DEF BlobInv, Blob!LeftByFaults, PutWasThere, Blob!PutWasThere
<1> QED
  BY BlobStarts, <1>1, <1>2, PTL DEF PartsSpec

-----------------------------------------------------------------------------
(***************************************************************************)
(* Readers of a document, and the lists of the Agents' files               *)
(***************************************************************************)

\* The states that a source may be in.
Sources == [agent : Agents, enabled : BOOLEAN, health : {"pending", "healthy", "paused"},
            epoch : 0..MaxEpoch]

\* The list that was written last is that of an enabled source, whether or not the source
\* is, and whichever Agent it names since.
ListKept ==
  \A g \in listed : files[g] = Reader!Served([source EXCEPT !.enabled = TRUE], doc)

\* What a reader has found so far is what it asked for, is published from the third query
\* on, and if its last query will find the document in service, the document has been
\* readable since the query before.
Found(r) ==
  LET pc == readerPc[r] IN
  /\ pc \in {"revision", "blob", "assets", "source2", "document2"} =>
       read[r].want \in {0, read[r].got}
  /\ pc \in {"blob", "assets", "source2", "document2"} => read[r].got \in published
  /\ pc = "document2" /\ Reader!InService(read[r].epoch, doc) => read[r].readable

ReaderInv == Reader!TypeOK /\ ListKept /\ \A r \in Readers : Found(r)

\* A call for revision w.
Asked(w) == [Reader!NoRead EXCEPT !.want = w]

LEMMA AskedKnows ==
  ASSUME NEW w \in 0..MaxRevision
  PROVE  Asked(w) \in Reader!Knowledge
<1>1. \A x \in Reader!Knowledge : [x EXCEPT !.want = w] \in Reader!Knowledge
  BY DEF Reader!Knowledge
<1>2. Reader!NoRead \in Reader!Knowledge
  BY PartsAssumption DEF Reader!NoRead, Reader!Knowledge, Reader!ReaderAssumption
<1> QED
  BY <1>1, <1>2, Zenon DEF Asked

\* What a reader knows when it has learnt the epoch e, and whether the document is readable.
Learnt(x, e, b) == [x EXCEPT !.epoch = e, !.readable = b]

LEMMA LearntKnows ==
  ASSUME NEW x \in Reader!Knowledge, NEW e \in 0..MaxEpoch, NEW b \in BOOLEAN
  PROVE  LET y == Learnt(x, e, b) IN
         /\ y \in Reader!Knowledge
         /\ y.want = x.want /\ y.got = x.got /\ y.epoch = e /\ y.readable = b
  BY DEF Reader!Knowledge, Learnt

\* What it knows when the document is readable if b.
Noted(x, b) == [x EXCEPT !.readable = @ \/ b]

LEMMA NotedKnows ==
  ASSUME NEW x \in Reader!Knowledge, NEW b \in BOOLEAN
  PROVE  LET y == Noted(x, b) IN
         /\ y \in Reader!Knowledge
         /\ y.want = x.want /\ y.got = x.got /\ y.epoch = x.epoch
         /\ y.readable = (x.readable \/ b)
<1> DEFINE c == x.readable \/ b
           y == [x EXCEPT !.readable = c]
<1>1. c \in BOOLEAN
  BY DEF Reader!Knowledge
<1>2. y = Noted(x, b)
  BY DEF Noted
<1> HIDE DEF c
<1>3. /\ y \in Reader!Knowledge
      /\ y.want = x.want /\ y.got = x.got /\ y.epoch = x.epoch /\ y.readable = c
  BY <1>1 DEF Reader!Knowledge
<1> QED
  BY <1>2, <1>3 DEF c

\* A source that is paused, in its next epoch.
LEMMA Paused ==
  ASSUME NEW x \in Sources, NEW e \in 0..MaxEpoch
  PROVE  LET y == [x EXCEPT !.health = "paused", !.epoch = e] IN
         y \in Sources /\ y.enabled = x.enabled /\ y.agent = x.agent
  BY DEF Sources

\* A document of another epoch.
LEMMA OffLine ==
  ASSUME NEW x \in [epoch : -1..MaxEpoch, gone : BOOLEAN, active : 0..MaxRevision],
         NEW e \in -1..MaxEpoch
  PROVE  LET y == [x EXCEPT !.epoch = e, !.gone = TRUE] IN
         /\ y \in [epoch : -1..MaxEpoch, gone : BOOLEAN, active : 0..MaxRevision]
         /\ y.active = x.active /\ y.gone
  OBVIOUS

\* Nobody reads at the start, and nothing is served.
LEMMA ReaderStarts == PartsInit => ReaderInv
<1> SUFFICES ASSUME PartsInit PROVE ReaderInv
  OBVIOUS
<1> USE PartsAssumption DEF PartsInit, Reader!Init, Reader!ReaderAssumption
<1>1. source \in Sources
  BY DEF Sources
<1>2. doc \in [epoch : -1..MaxEpoch, gone : BOOLEAN, active : 0..MaxRevision]
  OBVIOUS
<1>3. read \in [Readers -> Reader!Knowledge]
  BY DEF Reader!Knowledge, Reader!NoRead
<1>4. readerPc \in [Readers -> Reader!Steps]
  BY DEF Reader!Steps
<1>5. /\ stored \in 0..MaxRevision /\ published \subseteq 1..stored
      /\ doc.active \in published \cup {0} /\ switches \in 0..MaxSwitches
  OBVIOUS
<1>8. /\ agents \subseteq Agents /\ files \in [Agents -> SUBSET Reader!Revisions]
      /\ listed = {} /\ denied \in BOOLEAN
  OBVIOUS
<1>6. ListKept
  BY DEF ListKept
<1>7. \A r \in Readers : Found(r)
  BY DEF Found
<1> QED
  BY <1>1, <1>2, <1>3, <1>4, <1>5, <1>6, <1>7, <1>8 DEF ReaderInv, Reader!TypeOK, Sources

\* Witness adds what is so now to what each reader under way knows.
LEMMA WitnessKeeps ==
  ASSUME Reader!TypeOK, Reader!Witness
  PROVE  /\ read' \in [Readers -> Reader!Knowledge]
         /\ \A r \in Readers :
              /\ read'[r].want = read[r].want /\ read'[r].got = read[r].got
              /\ read'[r].epoch = read[r].epoch /\ read[r].epoch \in 0..MaxEpoch
              /\ read[r].readable => read'[r].readable
              /\ readerPc[r] \notin Reader!Resting /\ Reader!Readable(source', doc') =>
                   read'[r].readable
<1> DEFINE b == Reader!Readable(source', doc')
<1>1. b \in BOOLEAN
  BY DEF Reader!Readable, Reader!Available, Reader!InService
<1>2. ASSUME NEW r \in Readers
      PROVE  /\ read'[r] \in Reader!Knowledge
             /\ read'[r].want = read[r].want /\ read'[r].got = read[r].got
             /\ read'[r].epoch = read[r].epoch /\ read[r].epoch \in 0..MaxEpoch
             /\ read[r].readable => read'[r].readable
             /\ readerPc[r] \notin Reader!Resting /\ b => read'[r].readable
  <2>1. read[r] \in Reader!Knowledge
    BY DEF Reader!TypeOK
  <2>2. read'[r] = IF readerPc[r] \in Reader!Resting THEN read[r] ELSE Noted(read[r], b)
    BY Zenon DEF Reader!Witness, Noted
  <2>3. read[r].epoch \in 0..MaxEpoch
    BY <2>1 DEF Reader!Knowledge
  <2> HIDE DEF b
  <2>4. CASE readerPc[r] \in Reader!Resting
    BY <2>1, <2>2, <2>3, <2>4
  <2>5. CASE readerPc[r] \notin Reader!Resting
    <3> DEFINE y == Noted(read[r], b)
    <3>1. /\ y \in Reader!Knowledge
          /\ y.want = read[r].want /\ y.got = read[r].got /\ y.epoch = read[r].epoch
          /\ y.readable = (read[r].readable \/ b)
      BY <1>1, <2>1, NotedKnows
    <3>2. read'[r] = y
      BY <2>2, <2>5
    <3> HIDE DEF y
    <3>3. (read[r].readable => y.readable) /\ (b => y.readable)
      BY <3>1, Zenon
    <3> QED
      BY <2>3, <3>1, <3>2, <3>3
  <2> QED
    BY <2>4, <2>5
<1>3. read' = [r \in Readers |-> read'[r]]
  BY Zenon DEF Reader!Witness
<1> HIDE DEF b
<1>4. read' \in [Readers -> Reader!Knowledge]
  BY <1>2, <1>3, Zenon
<1> QED
  BY <1>2, <1>4 DEF b

\* A transaction of the synchronisation writes the list of the source's Agent anew; whoever
\* reads meanwhile takes note of what is served after it.
LEMMA TransactionKeeps ==
  ASSUME ReaderInv, NEW s \in Sources, NEW d, Reader!Transaction(s, d), s.enabled = TRUE,
         d \in [epoch : -1..MaxEpoch, gone : BOOLEAN, active : 0..MaxRevision],
         stored' = stored, published' \subseteq 1..stored, published \subseteq published',
         d.active \in published' \cup {0},
         \A e \in 0..MaxEpoch : Reader!InService(e, d) =>
           Reader!InService(e, doc) \/ Reader!Readable(s, d)
  PROVE  ReaderInv'
<1>1. /\ source' = s /\ doc' = d /\ listed' = {s.agent} /\ Reader!Witness
      /\ files' = [files EXCEPT ![s.agent] = Reader!Served(s, d)]
      /\ UNCHANGED <<agents, denied, switches, readerPc>> /\ d.active \in 0..MaxRevision
      /\ s.agent \in Agents
  BY DEF Reader!Transaction, Sources
<1>2. /\ read' \in [Readers -> Reader!Knowledge]
      /\ \A r \in Readers :
           /\ read'[r].want = read[r].want /\ read'[r].got = read[r].got
           /\ read'[r].epoch = read[r].epoch /\ read[r].epoch \in 0..MaxEpoch
           /\ read[r].readable => read'[r].readable
           /\ readerPc[r] \notin Reader!Resting /\ Reader!Readable(s, d) => read'[r].readable
  BY <1>1, WitnessKeeps DEF ReaderInv
<1>3. files' \in [Agents -> SUBSET Reader!Revisions] /\ files'[s.agent] = Reader!Served(s, d)
  <2>1. Reader!Readable(s, d) => d.active # 0
    BY DEF Reader!Readable, Reader!InService
  <2>2. MaxRevision \in Nat
    BY PartsAssumption DEF Reader!ReaderAssumption
  <2>3. Reader!Served(s, d) \in SUBSET Reader!Revisions
    BY <1>1, <2>1, <2>2 DEF Reader!Served, Reader!Revisions
  <2>4. files \in [Agents -> SUBSET Reader!Revisions]
    BY DEF ReaderInv, Reader!TypeOK
  <2> QED
    BY <1>1, <2>3, <2>4
<1>5. Reader!TypeOK'
  BY <1>1, <1>2, <1>3 DEF ReaderInv, Reader!TypeOK, Sources
<1>6. ListKept'
  <2>1. [s EXCEPT !.enabled = TRUE] = s
    BY DEF Sources
  <2> QED
    BY <1>1, <1>3, <2>1 DEF ListKept
<1>7. ASSUME NEW r \in Readers PROVE Found(r)'
  BY <1>1, <1>2 DEF ReaderInv, Found, Reader!Resting
<1> QED
  BY <1>5, <1>6, <1>7 DEF ReaderInv

\* The steps of the database: nothing published is lost, and a document comes back into
\* service only readable.
LEMMA DatabaseKeeps ==
  ASSUME ReaderInv, Reader!Database
  PROVE  ReaderInv'
<1> USE PartsAssumption
    DEF ReaderInv, Reader!ReaderAssumption, Reader!TypeOK, Reader!Steps
<1>0. source \in Sources
  BY DEF Sources
<1>1. CASE Reader!Resume
  <2> DEFINE s == [source EXCEPT !.health = "healthy"]
  <2>1. Reader!Transaction(s, doc) /\ UNCHANGED <<stored, published>> /\ source.enabled = TRUE
    BY <1>1 DEF Reader!Resume, Reader!Transaction, Reader!Guarded
  <2>2. s \in Sources /\ s.enabled = TRUE
    BY <1>0, <2>1 DEF Sources
  <2> HIDE DEF s
  <2> QED
    BY <2>1, <2>2, TransactionKeeps
<1>2. CASE Reader!Pause
  <2> DEFINE s == [source EXCEPT !.health = "paused", !.epoch = @ + 1]
  <2>1. Reader!Transaction(s, doc) /\ UNCHANGED <<stored, published>>
        /\ source.enabled = TRUE /\ source.epoch + 1 \in 0..MaxEpoch
    BY <1>2 DEF Reader!Pause, Reader!Transaction, Reader!Guarded
  <2>3. s \in Sources /\ s.enabled = TRUE
    BY <1>0, <2>1, Paused
  <2> HIDE DEF s
  <2> QED
    BY <2>1, <2>3, TransactionKeeps
<1>3. CASE Reader!Publish
  <2> DEFINE d == [epoch |-> source.epoch, gone |-> FALSE, active |-> stored]
  <2>1. Reader!Transaction(source, d) /\ source.enabled = TRUE /\ source.health = "healthy"
        /\ stored # 0
    BY <1>3 DEF Reader!Publish, Reader!Transaction, Reader!Guarded
  <2>2. Reader!Readable(source, d)
    BY <2>1 DEF Reader!Readable, Reader!Available, Reader!InService
  <2>3. published' = published \cup {stored} /\ stored' = stored
    BY <1>3 DEF Reader!Publish, Reader!BecomesPublished
  <2>4. /\ d \in [epoch : -1..MaxEpoch, gone : BOOLEAN, active : 0..MaxRevision]
        /\ d.active \in published' \cup {0} /\ published' \subseteq 1..stored
    <3>1. source.epoch \in -1..MaxEpoch /\ stored \in 0..MaxRevision
      OBVIOUS
    <3>2. stored \in published' /\ published' \subseteq 1..stored
      BY <2>1, <2>3, <3>1
    <3>3. d \in [epoch : -1..MaxEpoch, gone : BOOLEAN, active : 0..MaxRevision]
      BY <3>1
    <3> QED
      BY <2>1, <3>2, <3>3
  <2> HIDE DEF d
  <2> QED
    BY <1>0, <2>1, <2>2, <2>3, <2>4, TransactionKeeps
<1>4. CASE Reader!TakeOffline
  <2> DEFINE d == [doc EXCEPT !.epoch = -1, !.gone = TRUE]
  <2>1. Reader!Transaction(source, d) /\ UNCHANGED <<stored, published>>
        /\ source.enabled = TRUE
    BY <1>4 DEF Reader!TakeOffline, Reader!Transaction, Reader!Guarded
  <2>2. d \in [epoch : -1..MaxEpoch, gone : BOOLEAN, active : 0..MaxRevision]
        /\ d.active = doc.active /\ d.gone
    <3>1. -1 \in -1..MaxEpoch
      OBVIOUS
    <3> QED
      BY <3>1, OffLine
  <2> QED
    BY <1>0, <2>1, <2>2, TransactionKeeps DEF Reader!InService
<1>5. CASE Reader!EnsureSource
  <2>1. /\ read' \in [Readers -> Reader!Knowledge]
        /\ \A r \in Readers :
             /\ read'[r].want = read[r].want /\ read'[r].got = read[r].got
             /\ read'[r].epoch = read[r].epoch
             /\ read[r].readable => read'[r].readable
    BY <1>5, WitnessKeeps DEF Reader!EnsureSource
  <2>2. PICK g \in Agents, on \in BOOLEAN :
          source' = [source EXCEPT !.agent = g, !.enabled = on]
    BY <1>5 DEF Reader!EnsureSource
  <2>3. source' \in Sources /\ source'.health = source.health /\ source'.epoch = source.epoch
    BY <1>0, <2>2 DEF Sources
  <2>4. /\ switches' \in 0..MaxSwitches
        /\ UNCHANGED <<doc, stored, published, agents, files, listed, denied, readerPc>>
    BY <1>5 DEF Reader!EnsureSource
  <2>5. Reader!TypeOK'
    BY <2>1, <2>3, <2>4 DEF Sources
  <2>6. ListKept'
    <3>1. Reader!Served([source' EXCEPT !.enabled = TRUE], doc)
            = Reader!Served([source EXCEPT !.enabled = TRUE], doc)
      BY <1>0, <2>3 DEF Sources, Reader!Served, Reader!Readable, Reader!Available
    <3> QED
      BY <2>4, <3>1 DEF ListKept
  <2> QED
    BY <2>1, <2>4, <2>5, <2>6 DEF Found
<1>6. CASE Reader!Store
  <2>1. /\ stored \in 0..MaxRevision /\ stored < MaxRevision /\ stored' = stored + 1
        /\ UNCHANGED <<source, doc, published, agents, files, listed, denied, switches,
                       readerPc, read>>
    BY <1>6 DEF Reader!Store
  <2>2. stored' \in 0..MaxRevision /\ published' \subseteq 1..stored'
    BY <2>1
  <2>3. Reader!TypeOK'
    BY <2>1, <2>2
  <2>4. ListKept' /\ \A r \in Readers : Found(r)'
    BY <2>1 DEF ListKept, Found
  <2> QED
    BY <2>3, <2>4
<1>7. CASE Reader!Deny
  BY <1>7 DEF Reader!Deny, ListKept, Found
<1>8. CASE Reader!DeleteAgent
  BY <1>8 DEF Reader!DeleteAgent, ListKept, Found
<1> QED
  BY <1>1, <1>2, <1>3, <1>4, <1>5, <1>6, <1>7, <1>8 DEF Reader!Database

\* A query changes what its reader knows, and nothing else.
LEMMA QueryKeeps ==
  ASSUME ReaderInv, NEW r \in Readers, NEW to \in Reader!Steps, NEW y \in Reader!Knowledge,
         Reader!To(r, to, y),
         /\ to \in {"revision", "blob", "assets", "source2", "document2"} =>
              y.want \in {0, y.got}
         /\ to \in {"blob", "assets", "source2", "document2"} => y.got \in published
         /\ to = "document2" /\ Reader!InService(y.epoch, doc) => y.readable
  PROVE  ReaderInv'
<1> DEFINE z == IF to \in Reader!Resting THEN Reader!NoRead ELSE y
<1>0. z \in Reader!Knowledge /\ (to \notin Reader!Resting => z = y)
  <2>1. Reader!NoRead \in Reader!Knowledge
    BY PartsAssumption DEF Reader!NoRead, Reader!Knowledge, Reader!ReaderAssumption
  <2> QED
    BY <2>1
<1>1. /\ UNCHANGED <<source, doc, stored, published, agents, files, listed, denied, switches>>
      /\ readerPc' = [readerPc EXCEPT ![r] = to] /\ read' = [read EXCEPT ![r] = z]
  BY DEF Reader!To, Reader!dbVars
<1> HIDE DEF z
<1>2. readerPc' \in [Readers -> Reader!Steps] /\ read' \in [Readers -> Reader!Knowledge]
      /\ readerPc'[r] = to /\ read'[r] = z
      /\ \A q \in Readers \ {r} : readerPc'[q] = readerPc[q] /\ read'[q] = read[q]
  BY <1>0, <1>1 DEF ReaderInv, Reader!TypeOK
<1>3. Reader!TypeOK' /\ ListKept'
  BY <1>1, <1>2 DEF ReaderInv, Reader!TypeOK, ListKept
<1>4. Found(r)'
  BY <1>0, <1>1, <1>2 DEF Found, Reader!Resting
<1>5. ASSUME NEW q \in Readers \ {r} PROVE Found(q)'
  BY <1>1, <1>2 DEF ReaderInv, Found
<1> QED
  BY <1>3, <1>4, <1>5 DEF ReaderInv

\* The queries of one reader.
LEMMA ReadsKeep ==
  ASSUME ReaderInv, NEW r \in Readers,
         Reader!Reads(r) \/ \E w \in 0..MaxRevision : Reader!Begin(r, w)
  PROVE  ReaderInv'
<1>0. /\ read[r] \in Reader!Knowledge /\ readerPc[r] \in Reader!Steps /\ Found(r)
      /\ doc.active \in 0..MaxRevision /\ source.epoch \in 0..MaxEpoch
      /\ Reader!Readable(source, doc) \in BOOLEAN
  BY DEF ReaderInv, Reader!TypeOK, Reader!Readable, Reader!Available, Reader!InService
<1>1. ASSUME NEW w \in 0..MaxRevision, Reader!Begin(r, w) PROVE ReaderInv'
  <2> DEFINE y == Asked(w)
  <2>2. y \in Reader!Knowledge
    BY AskedKnows
  <2>3. Reader!To(r, "source1", y) \/ Reader!To(r, "asset", y)
    BY <1>1, Zenon DEF Reader!Begin, Asked
  <2> HIDE DEF y
  <2> QED
    BY <2>2, <2>3, QueryKeeps DEF Reader!Steps
<1>2. CASE Reader!FindAsset(r)
  BY <1>0, <1>2, QueryKeeps DEF Reader!FindAsset, Found, Reader!Steps
<1>4. ASSUME NEW from \in {"source1", "source2"}, NEW to \in {"document1", "document2"},
             from = "source1" <=> to = "document1", Reader!ReadSource(r, from, to)
      PROVE  ReaderInv'
  <2>1. CASE Reader!To(r, "refused", read[r])
    BY <1>0, <1>4, <2>1, QueryKeeps DEF Reader!ReadSource, Found, Reader!Steps
  <2>2. CASE ~Reader!To(r, "refused", read[r])
    <3> DEFINE y == Learnt(read[r], source.epoch, Reader!Readable(source, doc))
    <3>2. /\ y \in Reader!Knowledge
          /\ y.want = read[r].want /\ y.got = read[r].got /\ y.epoch = source.epoch
          /\ y.readable = Reader!Readable(source, doc)
      BY <1>0, LearntKnows
    <3>3. Reader!To(r, to, y) /\ Reader!Available(source) /\ readerPc[r] = from
      BY <1>4, <2>2, Zenon DEF Reader!ReadSource, Learnt
    <3> HIDE DEF y
    <3>4. Reader!InService(y.epoch, doc) => y.readable
      BY <3>2, <3>3 DEF Reader!Readable
    <3> QED
      BY <1>0, <1>4, <3>2, <3>3, <3>4, QueryKeeps DEF Found, Reader!Steps
  <2> QED
    BY <2>1, <2>2
<1>5. ASSUME NEW n \in 0..MaxRevision, NEW y, y = [read[r] EXCEPT !.got = n]
      PROVE  /\ y \in Reader!Knowledge
             /\ y.want = read[r].want /\ y.got = n /\ y.epoch = read[r].epoch
             /\ y.readable = read[r].readable
  BY <1>0, <1>5 DEF Reader!Knowledge
<1>6. CASE Reader!ReadDocument1(r)
  <2>1. PICK n \in 0..MaxRevision : n = IF read[r].want = 0 THEN doc.active ELSE read[r].want
    BY <1>0 DEF Reader!Knowledge
  <2>2. PICK y : y = [read[r] EXCEPT !.got = n]
    OBVIOUS
  <2>3. Reader!To(r, "revision", y) \/ Reader!To(r, "refused", y)
    BY <1>6, <2>1, <2>2 DEF Reader!ReadDocument1
  <2> QED
    BY <1>0, <1>5, <1>6, <2>1, <2>2, <2>3, QueryKeeps
       DEF Reader!ReadDocument1, Found, Reader!Steps
<1>7. CASE Reader!ReadRevision(r)
  BY <1>0, <1>7, QueryKeeps DEF Reader!ReadRevision, Reader!Published, Found, Reader!Steps
<1>8. CASE Reader!ReadBlob(r)
  <2>1. PICK y : y = [read[r] EXCEPT !.readable = Reader!Readable(source, doc)]
    OBVIOUS
  <2>2. /\ y \in Reader!Knowledge
        /\ y.want = read[r].want /\ y.got = read[r].got
    BY <1>0, <2>1 DEF Reader!Knowledge
  <2>3. Reader!To(r, "assets", y) /\ readerPc[r] = "blob"
    BY <1>8, <2>1 DEF Reader!ReadBlob
  <2> QED
    BY <1>0, <2>2, <2>3, QueryKeeps DEF Found, Reader!Steps
<1>9. CASE Reader!ReadAssets(r)
  BY <1>0, <1>9, QueryKeeps DEF Reader!ReadAssets, Reader!CheckAgain, Found, Reader!Steps
<1>10. CASE Reader!ReadDocument2(r)
  BY <1>0, <1>10, QueryKeeps DEF Reader!ReadDocument2, Found, Reader!Steps
<1> QED
  BY <1>1, <1>2, <1>4, <1>6, <1>7, <1>8, <1>9, <1>10 DEF Reader!Reads

\* ReaderInv is inductive.
LEMMA ReaderSteps == ReaderInv /\ [Reader!Next]_readerVars => ReaderInv'
<1>1. ReaderInv /\ UNCHANGED readerVars => ReaderInv'
  BY DEF ReaderInv, Reader!TypeOK, ListKept, Found, readerVars
<1> QED
  BY <1>1, DatabaseKeeps, ReadsKeep DEF Reader!Next

LEMMA ReaderHolds == PartsSpec => []ReaderInv
<1>1. ReaderInv /\ [PartsNext]_partVars => ReaderInv'
  BY OthersRest, ReaderSteps
<1> QED
  BY ReaderStarts, <1>1, PTL DEF PartsSpec

\* Whenever the source is on and names the Agent whose list was written last, that list is
\* the document in service, though neither the switch nor a change of Agent and back writes
\* it (refreshAgentFiles and ensureSource in store.ts), for any Agents.
THEOREM FilesAreServed == PartsSpec => []EnabledFilesExact
<1>1. ReaderInv => EnabledFilesExact
  <2> SUFFICES ASSUME ReaderInv, source.enabled, source.agent \in listed
               PROVE  files[source.agent] = Reader!Served(source, doc)
    BY DEF EnabledFilesExact, Reader!EnabledFilesExact
  <2>1. [source EXCEPT !.enabled = TRUE] = source
    BY DEF ReaderInv, Reader!TypeOK
  <2> QED
    BY <2>1 DEF ReaderInv, ListKept
<1> QED
  BY ReaderHolds, <1>1, PTL

\* What a reader hands out was served, never a draft, and was allowed after all its parts
\* had been read, however publications, removals and pauses fall between its queries
\* (readDocument and readAsset in store.ts).
THEOREM OnlyReadableReturned == PartsSpec => ReturnedWasReadable
<1>1. ASSUME ReaderInv, [Reader!Next]_readerVars,
             NEW r \in Readers, readerPc[r] # "returned", readerPc'[r] = "returned"
      PROVE  Reader!WasServed(r) /\ (read[r].readable \/ Reader!Readable(source, doc))
  <2>1. readerPc \in [Readers -> Reader!Steps]
    BY <1>1 DEF ReaderInv, Reader!TypeOK
  <2>2. ~Reader!Database /\ ~UNCHANGED readerVars
    BY <1>1 DEF Reader!Database, Reader!Resume, Reader!Pause, Reader!Store, Reader!Publish,
                Reader!TakeOffline, Reader!EnsureSource, Reader!Deny, Reader!DeleteAgent,
                Reader!Transaction, readerVars
  <2>3. ASSUME NEW q \in Readers, NEW w \in 0..MaxRevision PROVE ~Reader!Begin(q, w)
    BY <1>1, <2>1 DEF Reader!Begin, Reader!To
  <2>4. PICK q \in Readers : Reader!Reads(q)
    BY <1>1, <2>2, <2>3 DEF Reader!Next
  <2>5. q = r /\ Reader!ReadDocument2(r)
    BY <1>1, <2>1, <2>4
       DEF Reader!Reads, Reader!FindAsset, Reader!ReadSource, Reader!ReadDocument1,
           Reader!ReadRevision, Reader!ReadBlob, Reader!ReadAssets, Reader!ReadDocument2,
           Reader!CheckAgain, Reader!To
  <2>6. readerPc[r] = "document2" /\ Reader!InService(read[r].epoch, doc)
    BY <1>1, <2>1, <2>5 DEF Reader!ReadDocument2, Reader!InServiceNow, Reader!To
  <2> QED
    BY <1>1, <2>6 DEF ReaderInv, Found, Reader!WasServed
<1>2. ReaderInv /\ [PartsNext]_partVars =>
        [\A r \in Readers : readerPc[r] # "returned" /\ readerPc'[r] = "returned" =>
           Reader!WasServed(r) /\ (read[r].readable \/ Reader!Readable(source, doc))]_(Reader!vars)
  BY <1>1, OthersRest DEF readerVars, Reader!vars, Reader!dbVars
<1> QED
  BY ReaderHolds, <1>2, PTL DEF PartsSpec, ReturnedWasReadable, Reader!ReturnedWasReadable

-----------------------------------------------------------------------------
(***************************************************************************)
(* The calls of Feishu                                                     *)
(***************************************************************************)

\* The client counts on no more of its token than is left, the answer's lag and the margin
\* apart.
TokenInv == access # 0 /\ usable > 0 => left[access] + lag[access] >= usable + Margin

\* An app that is refused now has been refused during every call under way, and so has one
\* whose token was withdrawn; a first attempt uses a token that had more than the margin
\* left when the attempt was sent, the lag of the token's own answer apart.
CallInv(c) ==
  LET pc == callerPc[c] IN
  /\ ~granted /\ pc \in {"token", "sent", "wait"} => refused[c]
  /\ pc \in {"sent", "wait"} => holds[c] # 0 /\ (holds[c] \in void => refused[c])
  /\ pc = "token" => age[c] = 0 /\ attempt[c] = 0
  /\ pc = "wait" => attempt[c] < Retries
  /\ pc = "sent" => age[c] <= Timeout
  /\ pc = "sent" /\ attempt[c] = 0 /\ ~refused[c] =>
       left[holds[c]] + age[c] + lag[holds[c]] > Margin
  /\ pc = "auth" =>
       refused[c] \/ attempt[c] > 0 \/ (holds[c] # 0 /\ age[c] + lag[holds[c]] > Margin)

FeishuInv ==
  /\ Feishu!TypeOK /\ TokenInv /\ access \notin heard
  /\ \A c \in Callers : CallInv(c)

\* No token has been issued at the start.
LEMMA FeishuStarts == PartsInit => FeishuInv
  BY PartsAssumption
     DEF PartsInit, Feishu!Init, FeishuInv, TokenInv, CallInv, Feishu!TypeOK,
         Feishu!ClientAssumption,
         Feishu!Tokens, Feishu!Ends

\* A request for a token is answered: whoever waits for it goes on with it, or ends.
LEMMA LandedKeeps ==
  ASSUME FeishuInv, NEW to \in {"sent", "auth", "transient"}, NEW t \in 0..issued',
         Feishu!Landed(to, t),
         UNCHANGED <<granted, refusals, heard, void>>,
         issued' \in issued..MaxTokens, left' \in [Feishu!Tokens -> 0..Life],
         lag' \in [Feishu!Tokens -> 0..Timeout],
         \A u \in 1..issued : left'[u] = left[u] /\ lag'[u] = lag[u],
         access' \in 0..issued', access' \notin heard, usable' \in 0..Life - Margin, TokenInv',
         to = "sent" => t # 0 /\ t \notin void /\ left'[t] + lag'[t] > Margin,
         to = "auth" => ~granted
  PROVE  FeishuInv'
<1> USE PartsAssumption DEF Feishu!ClientAssumption
<1>1. /\ flight' = -1 /\ UNCHANGED <<attempt, age, refused>>
      /\ callerPc' = [c \in Callers |-> IF callerPc[c] = "token" THEN to ELSE callerPc[c]]
      /\ holds' = [c \in Callers |-> IF callerPc[c] = "token" THEN t ELSE holds[c]]
  BY DEF Feishu!Landed
<1>2. issued \in Nat /\ issued' \in Nat /\ issued <= issued'
  BY DEF FeishuInv, Feishu!TypeOK
<1>3. /\ callerPc' \in [Callers -> {"idle", "token", "sent", "wait"} \cup Feishu!Ends]
      /\ holds' \in [Callers -> 0..issued']
      /\ \A c \in Callers : callerPc'[c] # "token"
  BY <1>1, <1>2 DEF FeishuInv, Feishu!TypeOK, Feishu!Ends
<1>4. Feishu!TypeOK'
  <2>1. void' \subseteq 1..issued' /\ heard' \subseteq 1..issued'
    BY <1>2 DEF FeishuInv, Feishu!TypeOK
  <2>2. issued' \in 0..MaxTokens /\ flight' \in -1..Retries
    BY <1>1, <1>2
  <2> QED
    BY <1>1, <1>3, <2>1, <2>2 DEF FeishuInv, Feishu!TypeOK
<1>5. ASSUME NEW c \in Callers PROVE CallInv(c)'
  <2>1. CASE callerPc[c] = "token"
    <3>1. /\ callerPc'[c] = to /\ holds'[c] = t /\ age'[c] = 0 /\ attempt'[c] = 0
          /\ refused'[c] = refused[c] /\ (~granted => refused[c]) /\ void' = void
      BY <1>1, <2>1 DEF FeishuInv, CallInv
    <3>2. CASE to = "sent"
      <4>1. t \in Feishu!Tokens /\ left'[t] \in 0..Life /\ lag'[t] \in 0..Timeout
        BY <1>2, <3>2 DEF Feishu!Tokens
      <4> QED
        BY <3>1, <3>2, <4>1 DEF CallInv
    <3>3. CASE to # "sent"
      BY <3>1, <3>3 DEF CallInv
    <3> QED
      BY <3>2, <3>3
  <2>2. CASE callerPc[c] # "token"
    <3>1. callerPc'[c] = callerPc[c] /\ holds'[c] = holds[c] /\ holds[c] \in 0..issued
      BY <1>1, <2>2 DEF FeishuInv, Feishu!TypeOK
    <3>2. holds[c] # 0 => left'[holds[c]] = left[holds[c]] /\ lag'[holds[c]] = lag[holds[c]]
      BY <1>2, <3>1
    <3> QED
      BY <1>1, <3>1, <3>2 DEF FeishuInv, CallInv
  <2> QED
    BY <2>1, <2>2
<1> QED
  BY <1>4, <1>5 DEF FeishuInv

\* The steps of one call.
LEMMA CallKeeps ==
  ASSUME FeishuInv, NEW c \in Callers,
         Feishu!Call(c) \/ Feishu!Answer(c) \/ Feishu!Refuse(c) \/ Feishu!Lose(c)
           \/ Feishu!Resend(c)
  PROVE  FeishuInv'
<1> USE PartsAssumption DEF Feishu!ClientAssumption
<1>1. CallInv(c) /\ \A d \in Callers : CallInv(d)
  BY DEF FeishuInv
<1>2. ASSUME \A d \in Callers \ {c} :
               /\ callerPc'[d] = callerPc[d] /\ holds'[d] = holds[d] /\ attempt'[d] = attempt[d]
               /\ age'[d] = age[d] /\ refused'[d] = refused[d],
             UNCHANGED <<granted, left, lag, void>>
      PROVE  \A d \in Callers \ {c} : CallInv(d)'
  BY <1>1, <1>2 DEF CallInv
<1>8. Feishu!Over(c) =>
        /\ holds' \in [Callers -> 0..issued] /\ attempt' \in [Callers -> 0..Retries]
        /\ age' \in [Callers -> Nat] /\ refused' \in [Callers -> BOOLEAN]
        /\ \A d \in Callers \ {c} :
             /\ holds'[d] = holds[d] /\ attempt'[d] = attempt[d]
             /\ age'[d] = age[d] /\ refused'[d] = refused[d]
  BY DEF Feishu!Over, FeishuInv, Feishu!TypeOK
<1>3. CASE Feishu!Call(c)
  <2>0. /\ UNCHANGED <<left, lag, issued, void, granted, access, usable, heard, refusals>>
        /\ attempt' = [attempt EXCEPT ![c] = 0] /\ age' = [age EXCEPT ![c] = 0]
        /\ refused' = [refused EXCEPT ![c] = ~granted \/ (Feishu!Usable /\ access \in void)]
    BY <1>3 DEF Feishu!Call
  <2>1. /\ attempt' \in [Callers -> 0..Retries] /\ age' \in [Callers -> Nat]
        /\ attempt'[c] = 0 /\ age'[c] = 0
        /\ \A d \in Callers \ {c} : attempt'[d] = attempt[d] /\ age'[d] = age[d]
    BY <2>0 DEF FeishuInv, Feishu!TypeOK
  <2>2. /\ refused' \in [Callers -> BOOLEAN]
        /\ (~granted => refused'[c]) /\ (Feishu!Usable /\ access \in void => refused'[c])
        /\ \A d \in Callers \ {c} : refused'[d] = refused[d]
    <3> DEFINE b == ~granted \/ (Feishu!Usable /\ access \in void)
    <3>1. b \in BOOLEAN /\ (~granted => b) /\ (Feishu!Usable /\ access \in void => b)
      BY Zenon
    <3>2. refused' = [refused EXCEPT ![c] = b] /\ refused \in [Callers -> BOOLEAN]
      BY <2>0 DEF FeishuInv, Feishu!TypeOK
    <3> HIDE DEF b
    <3> QED
      BY <3>1, <3>2
  <2>3. CASE Feishu!Usable /\ callerPc' = [callerPc EXCEPT ![c] = "sent"]
             /\ holds' = [holds EXCEPT ![c] = access] /\ UNCHANGED flight
    <3>0. Feishu!TypeOK /\ access \in 1..issued /\ access \in Feishu!Tokens
      <4>1. access # 0 /\ Feishu!TypeOK
        BY <2>3 DEF FeishuInv, Feishu!Usable
      <4>2. access \in 0..issued /\ issued \in 0..MaxTokens /\ MaxTokens \in Nat
        BY <4>1, PartsAssumption DEF Feishu!TypeOK, Feishu!ClientAssumption
      <4> QED
        BY <4>1, <4>2 DEF Feishu!Tokens
    <3>5. left[access] \in Nat /\ lag[access] \in Nat /\ usable \in Nat /\ usable > 0
      BY <2>3, <3>0 DEF Feishu!TypeOK, Feishu!Usable
    <3>1. /\ Feishu!TypeOK /\ access \in 1..issued /\ access \in Feishu!Tokens
          /\ left[access] + lag[access] > Margin
      BY <3>0, <3>5 DEF FeishuInv, TokenInv
    <3>2. Feishu!TypeOK'
      BY <2>0, <2>1, <2>2, <2>3, <3>1 DEF Feishu!TypeOK, Feishu!Ends
    <3>3. CallInv(c)'
      <4>1. callerPc'[c] = "sent" /\ holds'[c] = access
        BY <2>3, <3>1 DEF Feishu!TypeOK
      <4>2. left[access] \in Nat /\ lag[access] \in Nat
        BY <3>1 DEF Feishu!TypeOK
      <4> QED
        BY <2>0, <2>1, <2>2, <2>3, <3>1, <4>1, <4>2 DEF CallInv
    <3>4. \A d \in Callers \ {c} : CallInv(d)'
      BY <1>2, <2>0, <2>1, <2>2, <2>3, <3>1 DEF Feishu!TypeOK
    <3> QED
      BY <2>0, <3>2, <3>3, <3>4 DEF FeishuInv, TokenInv
  <2>4. CASE callerPc' = [callerPc EXCEPT ![c] = "token"] /\ UNCHANGED holds
             /\ flight' = IF flight = -1 THEN 0 ELSE flight
    <3>1. Feishu!TypeOK'
      BY <2>0, <2>1, <2>2, <2>4 DEF FeishuInv, Feishu!TypeOK, Feishu!Ends
    <3>2. CallInv(c)'
      BY <2>0, <2>1, <2>2, <2>4 DEF FeishuInv, Feishu!TypeOK, CallInv
    <3>3. \A d \in Callers \ {c} : CallInv(d)'
      BY <1>2, <2>0, <2>1, <2>2, <2>4 DEF FeishuInv, Feishu!TypeOK
    <3> QED
      BY <2>0, <3>1, <3>2, <3>3 DEF FeishuInv, TokenInv
  <2> QED
    BY <1>3, <2>3, <2>4 DEF Feishu!Call
<1>4. CASE Feishu!Answer(c)
  <2>1. /\ callerPc' = [callerPc EXCEPT ![c] = "ok"] /\ UNCHANGED Feishu!tokenVars
        /\ Feishu!Over(c)
    BY <1>4 DEF Feishu!Answer
  <2>2. Feishu!TypeOK'
    BY <1>8, <2>1 DEF FeishuInv, Feishu!TypeOK, Feishu!tokenVars, Feishu!Ends
  <2>3. CallInv(c)' /\ \A d \in Callers \ {c} : CallInv(d)'
    BY <1>2, <1>8, <2>1 DEF FeishuInv, Feishu!TypeOK, Feishu!tokenVars, CallInv
  <2> QED
    BY <2>1, <2>2, <2>3 DEF FeishuInv, TokenInv, Feishu!tokenVars
<1>5. CASE Feishu!Refuse(c)
  <2>0. /\ UNCHANGED <<left, lag, issued, void, granted, usable, flight, refusals, holds,
                       attempt, age, refused>>
        /\ callerPc' = [callerPc EXCEPT ![c] = "auth"] /\ callerPc[c] = "sent"
        /\ heard' = heard \cup {holds[c]} /\ access' = 0
        /\ left[holds[c]] <= 0 \/ holds[c] \in void
    <3>1. ~Feishu!Valid(holds[c]) /\ holds[c] \in 1..issued
      BY <1>1, <1>5 DEF Feishu!Refuse, FeishuInv, Feishu!TypeOK, CallInv
    <3>2. holds[c] \in Feishu!Tokens
      BY <3>1 DEF FeishuInv, Feishu!TypeOK, Feishu!Tokens
    <3>3. left[holds[c]] \in Nat
      BY <3>2 DEF FeishuInv, Feishu!TypeOK
    <3>4. left[holds[c]] <= 0 \/ holds[c] \in void
      BY <3>1, <3>3 DEF Feishu!Valid
    <3> QED
      BY <1>5, <3>4 DEF Feishu!Refuse, Feishu!ForgetToken
  <2>1. holds[c] \in 1..issued /\ holds[c] \in Feishu!Tokens
    BY <1>1, <2>0 DEF FeishuInv, Feishu!TypeOK, CallInv, Feishu!Tokens
  <2>2. attempt[c] \in Nat /\ age[c] \in Nat /\ left[holds[c]] \in Nat /\ lag[holds[c]] \in Nat
    BY <2>1 DEF FeishuInv, Feishu!TypeOK
  <2>3. refused[c] \/ attempt[c] > 0 \/ age[c] + lag[holds[c]] > Margin
    BY <1>1, <2>0, <2>2 DEF CallInv
  <2>4. Feishu!TypeOK' /\ access' \notin heard'
    <3>1. callerPc' \in [Callers -> {"idle", "token", "sent", "wait"} \cup Feishu!Ends]
          /\ \A d \in Callers : callerPc'[d] = "token" => callerPc[d] = "token"
      BY <2>0 DEF FeishuInv, Feishu!TypeOK, Feishu!Ends
    <3>2. heard \subseteq 1..issued /\ issued \in Nat
      BY DEF FeishuInv, Feishu!TypeOK
    <3>4. heard' \subseteq 1..issued
      BY <2>0, <2>1, <3>2
    <3>5. 0 \notin 1..issued /\ 0 \in 0..issued
      BY <3>2
    <3> QED
      BY <2>0, <3>1, <3>4, <3>5 DEF FeishuInv, Feishu!TypeOK
  <2>5. CallInv(c)'
    <3>1. callerPc'[c] = "auth"
      BY <2>0 DEF FeishuInv, Feishu!TypeOK
    <3> QED
      BY <2>0, <2>1, <2>3, <3>1 DEF CallInv
  <2>6. \A d \in Callers \ {c} : CallInv(d)'
    BY <1>2, <2>0 DEF FeishuInv, Feishu!TypeOK
  <2> QED
    BY <2>0, <2>4, <2>5, <2>6 DEF FeishuInv, TokenInv
<1>6. CASE Feishu!Lose(c)
  <2>1. CASE /\ Feishu!MayRetry(attempt[c]) /\ callerPc' = [callerPc EXCEPT ![c] = "wait"]
             /\ age' = [age EXCEPT ![c] = 0] /\ UNCHANGED <<holds, attempt, refused>>
    <3>1. Feishu!TypeOK'
      BY <1>6, <2>1 DEF Feishu!Lose, FeishuInv, Feishu!TypeOK, Feishu!tokenVars, Feishu!Ends
    <3>2. CallInv(c)' /\ \A d \in Callers \ {c} : CallInv(d)'
      BY <1>1, <1>2, <1>6, <2>1
         DEF Feishu!Lose, FeishuInv, Feishu!TypeOK, Feishu!tokenVars, Feishu!MayRetry, CallInv
    <3> QED
      BY <1>6, <3>1, <3>2 DEF Feishu!Lose, FeishuInv, TokenInv, Feishu!tokenVars
  <2>2. CASE callerPc' = [callerPc EXCEPT ![c] = "transient"] /\ Feishu!Over(c)
    <3>1. Feishu!TypeOK'
      BY <1>6, <1>8, <2>2 DEF Feishu!Lose, FeishuInv, Feishu!TypeOK, Feishu!tokenVars, Feishu!Ends
    <3>2. CallInv(c)' /\ \A d \in Callers \ {c} : CallInv(d)'
      BY <1>2, <1>6, <1>8, <2>2
         DEF Feishu!Lose, FeishuInv, Feishu!TypeOK, Feishu!tokenVars, CallInv
    <3> QED
      BY <1>6, <3>1, <3>2 DEF Feishu!Lose, FeishuInv, TokenInv, Feishu!tokenVars
  <2> QED
    BY <1>6, <2>1, <2>2 DEF Feishu!Lose
<1>7. CASE Feishu!Resend(c)
  <2>1. /\ callerPc[c] = "wait" /\ callerPc' = [callerPc EXCEPT ![c] = "sent"]
        /\ attempt' = [attempt EXCEPT ![c] = Feishu!NextAttempt(@)]
        /\ age' = [age EXCEPT ![c] = 0] /\ UNCHANGED <<holds, refused>>
        /\ UNCHANGED Feishu!tokenVars
    BY <1>7 DEF Feishu!Resend
  <2>2. attempt[c] \in 0..Retries /\ attempt[c] < Retries
    BY <1>1, <2>1 DEF FeishuInv, Feishu!TypeOK, CallInv
  <2>3. Feishu!NextAttempt(attempt[c]) \in 1..Retries
    BY <2>2 DEF Feishu!NextAttempt
  <2>4. Feishu!TypeOK' /\ attempt'[c] > 0 /\ age'[c] = 0
    BY <2>1, <2>3 DEF FeishuInv, Feishu!TypeOK, Feishu!tokenVars, Feishu!Ends
  <2>5. CallInv(c)' /\ \A d \in Callers \ {c} : CallInv(d)'
    BY <1>1, <1>2, <2>1, <2>4 DEF FeishuInv, Feishu!TypeOK, Feishu!tokenVars, CallInv
  <2> QED
    BY <2>1, <2>4, <2>5 DEF FeishuInv, TokenInv, Feishu!tokenVars
<1> QED
  BY <1>3, <1>4, <1>5, <1>6, <1>7

\* Time takes from a token what it adds to the age of an attempt.
LEMMA TickKeeps == FeishuInv /\ Feishu!Tick => FeishuInv'
<1> SUFFICES ASSUME FeishuInv, Feishu!Tick PROVE FeishuInv'
  OBVIOUS
<1> USE PartsAssumption DEF Feishu!ClientAssumption
<1>1. /\ left' = [t \in Feishu!Tokens |-> IF left[t] > 0 THEN left[t] - 1 ELSE 0]
      /\ age' = [c \in Callers |-> IF callerPc[c] \in {"sent", "wait"} THEN age[c] + 1 ELSE age[c]]
      /\ usable' = IF usable > 0 THEN usable - 1 ELSE 0
      /\ UNCHANGED <<lag, issued, void, granted, access, flight, heard, refusals, callerPc, holds,
                     attempt, refused>>
      /\ \A c \in Callers : callerPc[c] = "sent" => age[c] < Timeout
  BY DEF Feishu!Tick
<1>2. Feishu!TypeOK'
  <2>1. /\ left' \in [Feishu!Tokens -> 0..Life] /\ age' \in [Callers -> Nat]
        /\ usable' \in 0..Life - Margin
    BY <1>1 DEF FeishuInv, Feishu!TypeOK
  <2> QED
    BY <1>1, <2>1 DEF FeishuInv, Feishu!TypeOK
<1>3. ASSUME NEW c \in Callers PROVE CallInv(c)'
  <2>1. CallInv(c) /\ age[c] \in Nat /\ age'[c] \in Nat /\ age'[c] <= age[c] + 1
    BY <1>1 DEF FeishuInv, Feishu!TypeOK
  <2>2. CASE callerPc[c] = "sent" /\ attempt[c] = 0 /\ ~refused[c]
    <3>0. holds[c] \in Feishu!Tokens
      BY <2>1, <2>2 DEF FeishuInv, Feishu!TypeOK, Feishu!Tokens, CallInv
    <3>1. left[holds[c]] \in 0..Life /\ lag[holds[c]] \in Nat
      BY <3>0 DEF FeishuInv, Feishu!TypeOK
    <3>2. age'[c] = age[c] + 1 /\ age[c] < Timeout
      BY <1>1, <2>2
    <3>3. left'[holds[c]] + 1 >= left[holds[c]] /\ left'[holds[c]] \in Nat
      BY <1>1, <3>0, <3>1
    <3> QED
      BY <1>1, <2>1, <2>2, <3>1, <3>2, <3>3 DEF CallInv
  <2>3. CASE ~(callerPc[c] = "sent" /\ attempt[c] = 0 /\ ~refused[c])
    BY <1>1, <2>1, <2>3 DEF CallInv
  <2> QED
    BY <2>2, <2>3
<1>4. TokenInv'
  <2> SUFFICES ASSUME access # 0, usable' > 0
               PROVE  left'[access] + lag[access] >= usable' + Margin
    BY <1>1 DEF TokenInv
  <2>1. access \in Feishu!Tokens /\ usable \in Nat /\ usable > 0 /\ usable' = usable - 1
    BY <1>1 DEF FeishuInv, Feishu!TypeOK, Feishu!Tokens
  <2>2. left[access] \in Nat /\ lag[access] \in Nat /\ left'[access] + 1 >= left[access]
        /\ left'[access] \in Nat
    BY <1>1, <2>1 DEF FeishuInv, Feishu!TypeOK
  <2> QED
    BY <2>1, <2>2 DEF FeishuInv, TokenInv
<1> QED
  BY <1>1, <1>2, <1>3, <1>4 DEF FeishuInv

\* FeishuInv is inductive.
LEMMA FeishuSteps == FeishuInv /\ [Feishu!Next]_feishuVars => FeishuInv'
<1> SUFFICES ASSUME FeishuInv, [Feishu!Next]_feishuVars PROVE FeishuInv'
  OBVIOUS
<1> USE PartsAssumption DEF Feishu!ClientAssumption
<1>1. CASE Feishu!Issue
  <2>1. issued + 1 \in 1..MaxTokens /\ issued' = issued + 1 /\ access' = issued + 1
        /\ usable' = Life - Margin
    BY <1>1 DEF FeishuInv, Feishu!TypeOK, Feishu!Issue, Feishu!Counted
  <2>2. PICK d \in 0..Timeout :
          /\ lag' = [lag EXCEPT ![issued + 1] = d]
          /\ left' = [left EXCEPT ![issued + 1] = IF d < Life THEN Life - d ELSE 0]
    BY <1>1 DEF Feishu!Issue
  <2>3. /\ left' \in [Feishu!Tokens -> 0..Life] /\ lag' \in [Feishu!Tokens -> 0..Timeout]
        /\ left'[issued + 1] + lag'[issued + 1] >= Life
        /\ \A u \in 1..issued : left'[u] = left[u] /\ lag'[u] = lag[u]
    BY <2>1, <2>2 DEF FeishuInv, Feishu!TypeOK, Feishu!Tokens
  <2>4. issued + 1 \notin heard /\ issued + 1 \notin void
    BY <2>1 DEF FeishuInv, Feishu!TypeOK
  <2>5. /\ Feishu!Landed("sent", issued + 1) /\ UNCHANGED <<granted, heard, refusals, void>>
        /\ issued + 1 \in 0..issued' /\ issued' \in issued..MaxTokens /\ Life > Margin
    BY <1>1, <2>1 DEF FeishuInv, Feishu!TypeOK, Feishu!Issue
  <2>6. TokenInv' /\ left'[issued + 1] + lag'[issued + 1] > Margin /\ issued + 1 # 0
    <3>1. left'[issued + 1] \in Nat /\ lag'[issued + 1] \in Nat
      BY <2>1, <2>3 DEF Feishu!Tokens
    <3> QED
      BY <2>1, <2>3, <2>5, <3>1 DEF TokenInv
  <2> QED
    BY <2>1, <2>3, <2>4, <2>5, <2>6, LandedKeeps
<1>2. CASE Feishu!RefuseToken
  <2>1. TokenInv'
    BY <1>2 DEF Feishu!RefuseToken, TokenInv
  <2> QED
    BY <1>2, <2>1, LandedKeeps
       DEF FeishuInv, Feishu!TypeOK, Feishu!RefuseToken, Feishu!TokenRefused
<1>3. CASE Feishu!LoseToken
  <2>1. CASE UNCHANGED Feishu!callVars /\ flight' = Feishu!NextAttempt(flight)
             /\ Feishu!MayRetry(flight)
    BY <1>3, <2>1 DEF FeishuInv, Feishu!TypeOK, Feishu!LoseToken, Feishu!callVars, CallInv,
                      TokenInv, Feishu!NextAttempt, Feishu!MayRetry
  <2>2. CASE Feishu!Landed("transient", 0)
    <3>1. TokenInv'
      BY <1>3 DEF FeishuInv, TokenInv, Feishu!LoseToken
    <3> QED
      BY <1>3, <2>2, <3>1, LandedKeeps DEF FeishuInv, Feishu!TypeOK, Feishu!LoseToken
  <2> QED
    BY <1>3, <2>1, <2>2 DEF Feishu!LoseToken
<1>4. CASE Feishu!Withdraw
  <2>1. refused' \in [Callers -> BOOLEAN] /\ \A c \in Callers : refused'[c]
    BY <1>4 DEF Feishu!Withdraw
  <2>2. Feishu!TypeOK'
    <3>1. refusals \in 0..MaxRefusals /\ refusals < MaxRefusals /\ refusals' = refusals + 1
      BY <1>4 DEF FeishuInv, Feishu!TypeOK, Feishu!Withdraw
    <3>2. refusals' \in 0..MaxRefusals
      BY <3>1
    <3>3. granted' \in BOOLEAN /\ void' = 1..issued
      BY <1>4, Zenon DEF Feishu!Withdraw
    <3> QED
      BY <1>4, <2>1, <3>2, <3>3 DEF FeishuInv, Feishu!TypeOK, Feishu!Withdraw
  <2> QED
    BY <1>4, <2>1, <2>2 DEF FeishuInv, TokenInv, Feishu!Withdraw, CallInv
<1>5. CASE Feishu!Restore
  BY <1>5 DEF FeishuInv, Feishu!TypeOK, Feishu!Restore, Feishu!callVars, TokenInv, CallInv
<1>6. CASE UNCHANGED feishuVars
  BY <1>6 DEF FeishuInv, Feishu!TypeOK, feishuVars, TokenInv, CallInv
<1> QED
  BY <1>1, <1>2, <1>3, <1>4, <1>5, <1>6, CallKeeps, TickKeeps DEF Feishu!Next

\* A call that ends with auth, which pauses the source, was refused by Feishu, unless its
\* attempt was a repeated one, or its answer and that of its token took longer together
\* than the margin; and a refused token is not given out again (token and request in
\* feishu.ts), for any callers, retries, lives of tokens and time limits.
THEOREM RefusalsAreTrue == PartsSpec => []AuthIsTrue
<1>1. FeishuInv /\ [PartsNext]_partVars => FeishuInv'
  BY OthersRest, FeishuSteps
<1>2. FeishuInv => AuthIsTrue
  BY DEF FeishuInv, CallInv, AuthIsTrue, Feishu!AuthIsTrue
<1> QED
  BY FeishuStarts, <1>1, <1>2, PTL DEF PartsSpec

-----------------------------------------------------------------------------
(***************************************************************************)
(* The schedule                                                            *)
(***************************************************************************)

\* A tick keeps to its time, so that a bucket turns once in it at most; who has nothing to
\* ask for has no run in hand.
TickInv(w) ==
  /\ tickAge[w] <= (IF workerPc[w] = "idle" THEN 1 ELSE TickTime)
  /\ workerPc[w] \in {"idle", "process"} => wish[w] = Schedule!NoRun
  /\ workerPc[w] = "enqueue" => wish[w] # Schedule!NoRun
  /\ wish[w] # Schedule!NoRun => wish[w].bucket \in {"this", "last"}
  /\ wish[w].bucket = "last" => tickAge[w] > phase

\* A name of this bucket belongs to a run that waits, runs, has failed or has ended well
\* within the bucket.
Named(mode) ==
  LET run == [mode |-> mode, bucket |-> "this"] IN
  mode \in taken["this"] =>
    \/ \E i \in DOMAIN queue : queue[i] = run
    \/ running = run
    \/ mode \in failed
    \/ (IF mode = "full" THEN scanned ELSE polled) <= phase

\* The worker will queue the run in its hand.
Useful(w) ==
  workerPc[w] \in {"look", "enqueue"} /\ wish[w] # Schedule!NoRun /\ Schedule!Unnamed(w)

\* While a run waits to be asked for, a tick that found nothing to ask for began before,
\* and the next one will ask.
Sooner(w) ==
  late <= (IF Useful(w) THEN TickTime + 1 + tickAge[w]
           ELSE IF workerPc[w] = "idle" THEN TickTime + tickAge[w]
           ELSE tickAge[w])

LateInv ==
  /\ late <= 2 * TickTime + 1
  /\ late > 0 => ~Schedule!Active /\ Schedule!Due # "none"
  /\ late > 0 /\ Schedule!Due \notin taken["this"] => \A w \in Workers : Sooner(w)

\* The scheduled runs that wait, and the workers about to add one.
InQueue == {i \in DOMAIN queue : Schedule!Scheduled(queue[i])}
Asking == {w \in Workers : workerPc[w] = "enqueue"}
Counted ==
  IsFiniteSet(InQueue) /\ Cardinality(InQueue) + Cardinality(Asking) <= Cardinality(Workers)

ScheduleRest ==
  /\ \A w \in Workers : TickInv(w)
  /\ \A mode \in Schedule!Modes : Named(mode)
  /\ LateInv /\ Counted

ScheduleInv == Schedule!TypeOK /\ ScheduleRest

\* The workers are counted.
LEMMA Counts ==
  ASSUME NEW S, S \subseteq Workers
  PROVE  /\ IsFiniteSet(S) /\ Cardinality(S) \in Nat /\ Cardinality(Workers) \in Nat
         /\ Cardinality(S) <= Cardinality(Workers)
<1>1. IsFiniteSet(Workers)
  BY PartsAssumption DEF Schedule!ScheduleAssumption, Schedule!IsFiniteSet, IsFiniteSet
<1>2. IsFiniteSet(S) /\ Cardinality(S) <= Cardinality(Workers)
  BY <1>1, FS_Subset
<1> QED
  BY <1>1, <1>2, FS_CardinalityType

\* Nothing waits and nobody has asked at the start.
LEMMA ScheduleStarts == PartsInit => ScheduleInv
<1> SUFFICES ASSUME PartsInit PROVE ScheduleInv
  OBVIOUS
<1> USE PartsAssumption DEF PartsInit, Schedule!Init, Schedule!ScheduleAssumption
<1>1. Schedule!TypeOK
  BY DEF Schedule!TypeOK, Schedule!Buckets, Schedule!Modes, Schedule!NoRun, Schedule!Runs
<1>2. \A w \in Workers : TickInv(w)
  BY DEF TickInv, Schedule!NoRun
<1>3. \A mode \in Schedule!Modes : Named(mode)
  BY DEF Named, Schedule!Buckets
<1>4. LateInv
  BY DEF LateInv
<1>5. Counted
  <2>1. InQueue = {} /\ Asking \subseteq Workers
    BY DEF InQueue, Asking
  <2>2. IsFiniteSet(InQueue) /\ Cardinality(InQueue) = 0
    BY <2>1, FS_EmptySet
  <2>3. Cardinality(Asking) \in Nat /\ Cardinality(Asking) <= Cardinality(Workers)
    BY <2>1, Counts
  <2> QED
    BY <2>2, <2>3 DEF Counted
<1> QED
  BY <1>1, <1>2, <1>3, <1>4, <1>5 DEF ScheduleInv, ScheduleRest

\* A run keeps its mode and its place as its bucket turns.
LEMMA AgedRuns ==
  /\ \A x \in Schedule!Runs \cup {Schedule!NoRun} :
       /\ Schedule!Aged(x) \in Schedule!Runs \cup {Schedule!NoRun}
       /\ (Schedule!Aged(x) = Schedule!NoRun <=> x = Schedule!NoRun)
       /\ Schedule!Aged(x).mode = x.mode
       /\ Schedule!Aged(x).bucket = (IF x.bucket = "this" THEN "last" ELSE x.bucket)
  /\ \A x \in Schedule!Runs : Schedule!Aged(x) \in Schedule!Runs
<1>1. ASSUME NEW x \in Schedule!Runs \cup {Schedule!NoRun}, x.bucket = "this"
      PROVE  /\ Schedule!Aged(x) = [mode |-> x.mode, bucket |-> "last"] /\ x # Schedule!NoRun
             /\ x.mode \in Schedule!Modes
  BY <1>1 DEF Schedule!Aged, Schedule!Runs, Schedule!NoRun, Schedule!Buckets
<1>2. ASSUME NEW x \in Schedule!Runs \cup {Schedule!NoRun}, x.bucket # "this"
      PROVE  Schedule!Aged(x) = x
  BY <1>2 DEF Schedule!Aged
<1>3. \A m \in Schedule!Modes : [mode |-> m, bucket |-> "last"] \in Schedule!Runs
                                /\ [mode |-> m, bucket |-> "last"] # Schedule!NoRun
  BY DEF Schedule!Runs, Schedule!NoRun, Schedule!Buckets
<1> QED
  BY <1>1, <1>2, <1>3

\* The type invariant, step by step.
LEMMA ScheduleTypes ==
  ASSUME Schedule!TypeOK, \A w \in Workers : TickInv(w), [Schedule!Next]_scheduleVars
  PROVE  Schedule!TypeOK'
<1> DEFINE Wish == Schedule!Runs \cup {Schedule!NoRun}
           Places == {"idle", "look", "enqueue", "process"}
<1> USE PartsAssumption
    DEF Schedule!ScheduleAssumption, Schedule!TypeOK, Schedule!Buckets
<1>1. ASSUME NEW w \in Workers, NEW to \in Places, NEW what \in Wish, Schedule!To(w, to, what)
      PROVE  workerPc' \in [Workers -> Places] /\ wish' \in [Workers -> Wish]
  <2> HIDE DEF Wish
  <2>1. wish \in [Workers -> Wish]
    BY DEF Wish
  <2> QED
    BY <1>1, <2>1 DEF Schedule!To
<1>2. Schedule!NoRun \in Wish
  OBVIOUS
<1>3. ASSUME NEW w \in Workers, Schedule!ReadSource(w) PROVE Schedule!TypeOK'
  <2>1. Schedule!Due # "none" => [mode |-> Schedule!Due, bucket |-> "this"] \in Wish
    BY DEF Schedule!Due, Schedule!Modes, Schedule!Runs
  <2>2. workerPc' \in [Workers -> Places] /\ wish' \in [Workers -> Wish]
    BY <1>1, <1>2, <1>3, <2>1 DEF Schedule!ReadSource
  <2> QED
    BY <1>3, <2>2 DEF Schedule!ReadSource, Schedule!Clock
<1>4. ASSUME NEW w \in Workers, Schedule!Look(w) PROVE Schedule!TypeOK'
  <2>1. wish[w] \in Wish
    OBVIOUS
  <2>2. Schedule!To(w, "enqueue", wish[w]) \/ Schedule!To(w, "process", Schedule!NoRun)
    BY <1>4 DEF Schedule!Look
  <2> QED
    BY <1>1, <1>2, <1>4, <2>1, <2>2 DEF Schedule!Look
<1>5. ASSUME NEW w \in Workers, Schedule!Enqueue(w), TickInv(w) PROVE Schedule!TypeOK'
  <2>1. workerPc' \in [Workers -> Places] /\ wish' \in [Workers -> Wish]
    BY <1>1, <1>2, <1>5 DEF Schedule!Enqueue
  <2>2. /\ wish[w] \in Schedule!Runs /\ wish[w].mode \in Schedule!Modes
        /\ wish[w].bucket \in {"this", "last"}
    BY <1>5 DEF Schedule!Enqueue, TickInv, Schedule!Runs
  <2>3. CASE Schedule!Unnamed(w)
    <3>1. queue' = Append(queue, wish[w]) /\ Len(queue) < MaxQueue
      BY <1>5, <2>3 DEF Schedule!Enqueue
    <3>2. queue' \in Seq(Schedule!Runs) /\ Len(queue') <= MaxQueue
      BY <2>2, <3>1
    <3>3. taken' = [taken EXCEPT ![wish[w].bucket] = @ \cup {wish[w].mode}] /\ late' = 0
      BY <1>5, <2>3 DEF Schedule!Enqueue
    <3>4. taken' \in [{"this", "last"} -> SUBSET Schedule!Modes]
      BY <2>2, <3>3
    <3> QED
      BY <1>5, <2>1, <3>2, <3>3, <3>4 DEF Schedule!Enqueue
  <2>4. CASE ~Schedule!Unnamed(w)
    BY <1>5, <2>1, <2>4 DEF Schedule!Enqueue
  <2> QED
    BY <2>3, <2>4
<1>6. ASSUME NEW w \in Workers, Schedule!Process(w) PROVE Schedule!TypeOK'
  <2>1. workerPc' \in [Workers -> Places] /\ wish' \in [Workers -> Wish]
    BY <1>1, <1>2, <1>6 DEF Schedule!Process
  <2>2. tickAge' \in [Workers -> Nat]
    BY <1>6 DEF Schedule!Process, Schedule!Clock
  <2>3. CASE running' = Head(queue) /\ queue' = Tail(queue) /\ queue # <<>>
    <3>1. running' \in Schedule!Runs /\ queue' \in Seq(Schedule!Runs) /\ Len(queue') <= MaxQueue
      BY <2>3
    <3> QED
      BY <1>6, <2>1, <2>2, <2>3, <3>1 DEF Schedule!Process
  <2>4. CASE UNCHANGED <<running, queue>>
    BY <1>6, <2>1, <2>2, <2>4 DEF Schedule!Process
  <2> QED
    BY <1>6, <2>3, <2>4 DEF Schedule!Process
<1>7. CASE Schedule!Succeed
  <2>1. CASE UNCHANGED queue
    BY <1>7, <2>1 DEF Schedule!Succeed
  <2>2. CASE Len(queue) < MaxQueue /\ queue' = Append(queue, [mode |-> "full", bucket |-> "none"])
    <3>1. [mode |-> "full", bucket |-> "none"] \in Schedule!Runs
      BY DEF Schedule!Runs, Schedule!Modes
    <3>2. queue' \in Seq(Schedule!Runs) /\ Len(queue') <= MaxQueue
      BY <2>2, <3>1
    <3> QED
      BY <1>7, <3>2 DEF Schedule!Succeed
  <2> QED
    BY <1>7, <2>1, <2>2 DEF Schedule!Succeed
<1>8. CASE Schedule!Fail
  <2>1. failed' \subseteq Schedule!Modes
    BY <1>8 DEF Schedule!Fail, Schedule!Runs
  <2> QED
    BY <1>8, <2>1 DEF Schedule!Fail
<1>9. CASE Schedule!Request
  <2>1. PICK m \in Schedule!Modes : queue' = Append(queue, [mode |-> m, bucket |-> "none"])
    BY <1>9 DEF Schedule!Request
  <2>2. [mode |-> m, bucket |-> "none"] \in Schedule!Runs
    BY DEF Schedule!Runs
  <2>3. queue' \in Seq(Schedule!Runs) /\ Len(queue') <= MaxQueue /\ requests' \in 0..MaxRequests
    BY <1>9, <2>1, <2>2 DEF Schedule!Request
  <2> QED
    BY <1>9, <2>3 DEF Schedule!Request
<1>10. CASE Schedule!Pass
  <2>1. polled' \in 0..Poll /\ scanned' \in 0..Reconcile
    <3>1. polled' = (IF polled < Poll THEN polled + 1 ELSE polled)
          /\ scanned' = (IF scanned < Reconcile THEN scanned + 1 ELSE scanned)
      BY <1>10 DEF Schedule!Pass
    <3> QED
      BY <3>1
  <2>2. tickAge' \in [Workers -> Nat] /\ late' \in Nat
    <3>1. tickAge' = [w \in Workers |-> tickAge[w] + 1] /\ late' \in {late + 1, 0}
      BY <1>10 DEF Schedule!Pass
    <3> QED
      BY <3>1
  <2>3. CASE phase # Poll - 1
    <3>1. /\ phase' = phase + 1
          /\ UNCHANGED <<taken, failed, wish, queue, running, workerPc, requests>>
      BY <1>10, <2>3 DEF Schedule!Pass
    <3> QED
      BY <2>1, <2>2, <2>3, <3>1
  <2>4. CASE phase = Poll - 1
    <3>1. phase' = 0 /\ phase' \in 0..Poll - 1 /\ failed' = {}
      BY <1>10, <2>4 DEF Schedule!Pass
    <3>2. taken' \in [{"this", "last"} -> SUBSET Schedule!Modes]
      BY <1>10, <2>4 DEF Schedule!Pass, Schedule!NewNames
    <3>3. running' \in Wish
      BY <1>10, <2>4, AgedRuns DEF Schedule!Pass
    <3>4. wish' \in [Workers -> Wish]
      <4>1. wish' = [w \in Workers |-> Schedule!Aged(wish[w])] /\ wish \in [Workers -> Wish]
        BY <1>10, <2>4 DEF Schedule!Pass
      <4>2. \A x \in Wish : Schedule!Aged(x) \in Wish
        BY AgedRuns
      <4> HIDE DEF Wish
      <4> QED
        BY <4>1, <4>2
    <3>5. queue' \in Seq(Schedule!Runs) /\ Len(queue') <= MaxQueue
      <4>0. queue' = [i \in DOMAIN queue |-> Schedule!Aged(queue[i])]
        BY <1>10, <2>4 DEF Schedule!Pass
      <4>1. queue' = [i \in 1..Len(queue) |-> Schedule!Aged(queue[i])] /\ Len(queue) \in Nat
        BY <4>0
      <4>2. \A i \in 1..Len(queue) : Schedule!Aged(queue[i]) \in Schedule!Runs
        BY AgedRuns
      <4> QED
        BY <4>1, <4>2
    <3> QED
      BY <1>10, <2>1, <2>2, <3>1, <3>2, <3>3, <3>4, <3>5 DEF Schedule!Pass
  <2> QED
    BY <2>3, <2>4
<1>11. CASE UNCHANGED scheduleVars
  BY <1>11 DEF scheduleVars
<1> QED
  BY <1>3, <1>4, <1>5, <1>6, <1>7, <1>8, <1>9, <1>10, <1>11 DEF Schedule!Next, Schedule!Tick

\* A run is added at the end of the queue.
LEMMA Appended ==
  ASSUME NEW q \in Seq(Schedule!Runs), NEW run
  PROVE  LET longer == Append(q, run) IN
         /\ longer # <<>> /\ DOMAIN longer = DOMAIN q \cup {Len(q) + 1}
         /\ Len(q) + 1 \notin DOMAIN q
         /\ longer[Len(q) + 1] = run /\ \A i \in DOMAIN q : longer[i] = q[i]
<1>1. Len(q) \in Nat /\ DOMAIN q = 1..Len(q)
  OBVIOUS
<1>2. Len(q) + 1 \notin 1..Len(q) /\ 1..Len(q) + 1 = 1..Len(q) \cup {Len(q) + 1}
  BY <1>1
<1> QED
  BY <1>1, <1>2

\* A run is taken from the front of the queue.
LEMMA TakenUp ==
  ASSUME NEW q \in Seq(Schedule!Runs), q # <<>>
  PROVE  /\ Head(q) = q[1] /\ 1 \in DOMAIN q
         /\ \A i \in DOMAIN Tail(q) : i + 1 \in DOMAIN q /\ Tail(q)[i] = q[i + 1]
         /\ \A i \in DOMAIN q : i = 1 \/ (i - 1 \in DOMAIN Tail(q) /\ Tail(q)[i - 1] = q[i])
<1>1. Len(q) \in Nat \ {0} /\ DOMAIN q = 1..Len(q) /\ Tail(q) \in Seq(Schedule!Runs)
      /\ Len(Tail(q)) = Len(q) - 1 /\ DOMAIN Tail(q) = 1..Len(q) - 1
  OBVIOUS
<1>2. \A i \in 1..Len(q) - 1 : Tail(q)[i] = q[i + 1]
  BY <1>1
<1>3. \A i \in 1..Len(q) - 1 : i + 1 \in 1..Len(q)
  BY <1>1
<1>4. \A i \in 1..Len(q) : i = 1 \/ (i - 1 \in 1..Len(q) - 1 /\ (i - 1) + 1 = i)
  BY <1>1
<1> QED
  BY <1>1, <1>2, <1>3, <1>4

\* A worker's own step leaves what the others do.
LEMMA ToOne ==
  ASSUME Schedule!TypeOK, NEW w \in Workers, NEW to, NEW what, Schedule!To(w, to, what)
  PROVE  /\ workerPc'[w] = to /\ wish'[w] = what
         /\ \A v \in Workers \ {w} : workerPc'[v] = workerPc[v] /\ wish'[v] = wish[v]
  BY DEF Schedule!TypeOK, Schedule!To

\* Its clock starts, and no other.
LEMMA ClockOne ==
  ASSUME Schedule!TypeOK, NEW w \in Workers, Schedule!Clock(w)
  PROVE  tickAge'[w] = 0 /\ \A v \in Workers \ {w} : tickAge'[v] = tickAge[v]
  BY DEF Schedule!TypeOK, Schedule!Clock

\* What a worker finds due, by the record and the clock.
LEMMA DueIs ==
  ASSUME Schedule!TypeOK
  PROVE  /\ Schedule!Due \in {"full", "incremental", "none"}
         /\ Schedule!Due = "full" => scanned = Reconcile
         /\ Schedule!Due = "incremental" => polled = Poll /\ scanned < Reconcile
         /\ Schedule!Due = "none" => polled < Poll /\ scanned < Reconcile
         /\ phase < Poll /\ phase < Reconcile
  BY PartsAssumption DEF Schedule!TypeOK, Schedule!Due, Schedule!ScheduleAssumption

\* Times are numbers.
LEMMA ScheduleNumbers ==
  ASSUME Schedule!TypeOK
  PROVE  /\ late \in Nat /\ TickTime \in 0..Poll /\ TickTime \in Nat /\ Poll \in Nat \ {0}
         /\ phase \in 0..Poll - 1 /\ phase \in Nat
         /\ \A w \in Workers : tickAge[w] \in Nat
         /\ Reconcile \in Nat /\ polled \in 0..Poll /\ scanned \in 0..Reconcile
  BY PartsAssumption DEF Schedule!TypeOK, Schedule!ScheduleAssumption

\* While the queue keeps its scheduled runs, fewer workers ask.
LEMMA CountKept ==
  ASSUME Counted, UNCHANGED InQueue, Asking' \subseteq Asking
  PROVE  Counted'
<1>1. /\ Cardinality(Asking') \in Nat /\ Cardinality(Asking) \in Nat
      /\ Cardinality(Workers) \in Nat /\ Cardinality(InQueue) \in Nat
      /\ IsFiniteSet(Asking)
  BY Counts, FS_CardinalityType DEF Asking, Counted
<1>2. Cardinality(Asking') <= Cardinality(Asking)
  BY <1>1, FS_Subset
<1> QED
  BY <1>1, <1>2 DEF Counted

\* tick reads the source: it will ask for what is due, if its name is free.
LEMMA ReadSourceKeeps ==
  ASSUME ScheduleInv, NEW w \in Workers, Schedule!ReadSource(w)
  PROVE  ScheduleRest'
<1> DEFINE due == IF Schedule!Due = "none" THEN Schedule!NoRun
                  ELSE [mode |-> Schedule!Due, bucket |-> "this"]
<1>1. /\ workerPc[w] = "idle" /\ workerPc'[w] = "look" /\ wish'[w] = due /\ tickAge'[w] = 0
      /\ \A v \in Workers \ {w} :
           workerPc'[v] = workerPc[v] /\ wish'[v] = wish[v] /\ tickAge'[v] = tickAge[v]
      /\ UNCHANGED <<phase, polled, scanned, taken, queue, running, late, failed>>
  BY ToOne, ClockOne DEF ScheduleInv, Schedule!ReadSource
<1>2. /\ due # Schedule!NoRun => due.bucket = "this" /\ due.mode = Schedule!Due
                                 /\ Schedule!Due # "none"
      /\ due = Schedule!NoRun => Schedule!Due = "none"
      /\ due.bucket # "last"
  BY DueIs DEF ScheduleInv, Schedule!NoRun
<1>3. (Schedule!Due)' = Schedule!Due /\ (Schedule!Active)' = Schedule!Active
  BY <1>1 DEF Schedule!Due, Schedule!Active
<1> HIDE DEF due
<1>4. \A v \in Workers : TickInv(v)'
  <2>1. TickInv(w)'
    BY <1>1, <1>2, ScheduleNumbers DEF ScheduleInv, TickInv
  <2> QED
    BY <1>1, <2>1 DEF ScheduleInv, ScheduleRest, TickInv
<1>5. \A mode \in Schedule!Modes : Named(mode)'
  BY <1>1 DEF ScheduleInv, ScheduleRest, Named
<1>6. LateInv'
  <2> SUFFICES ASSUME late' > 0, (Schedule!Due)' \notin taken'["this"]
               PROVE  \A v \in Workers : Sooner(v)'
    BY <1>1, <1>3 DEF ScheduleInv, ScheduleRest, LateInv
  <2>1. late > 0 /\ Schedule!Due # "none" /\ Schedule!Due \notin taken["this"]
        /\ \A v \in Workers : Sooner(v)
    BY <1>1, <1>3 DEF ScheduleInv, ScheduleRest, LateInv
  <2>2. Useful(w)'
    BY <1>1, <1>2, <2>1 DEF Useful, Schedule!Unnamed
  <2>3. late <= TickTime + tickAge[w] /\ tickAge[w] <= 1
    BY <1>1, <2>1 DEF Sooner, Useful, ScheduleInv, ScheduleRest, TickInv
  <2>4. Sooner(w)'
    <3>1. late <= TickTime + 1 + tickAge'[w]
      BY <1>1, <2>3, ScheduleNumbers DEF ScheduleInv
    <3> QED
      BY <1>1, <2>2, <3>1 DEF Sooner
  <2>5. ASSUME NEW v \in Workers \ {w} PROVE Sooner(v)'
    BY <1>1, <2>1 DEF Sooner, Useful, Schedule!Unnamed
  <2> QED
    BY <2>4, <2>5
<1>7. Counted'
  <2>1. UNCHANGED <<InQueue, Asking>>
    BY <1>1 DEF InQueue, Asking
  <2> QED
    BY <2>1, CountKept DEF ScheduleInv, ScheduleRest
<1> QED
  BY <1>4, <1>5, <1>6, <1>7 DEF ScheduleRest

\* It looks for a run: who is about to ask has seen none that waits.
LEMMA LookKeeps ==
  ASSUME ScheduleInv, NEW w \in Workers, Schedule!Look(w)
  PROVE  ScheduleRest'
<1>1. /\ workerPc[w] = "look"
      /\ \/ /\ workerPc'[w] = "enqueue" /\ ~Schedule!Active /\ wish[w] # Schedule!NoRun
            /\ wish'[w] = wish[w]
         \/ /\ workerPc'[w] = "process" /\ (Schedule!Active \/ wish[w] = Schedule!NoRun)
            /\ wish'[w] = Schedule!NoRun
      /\ \A v \in Workers \ {w} : workerPc'[v] = workerPc[v] /\ wish'[v] = wish[v]
      /\ UNCHANGED <<phase, polled, scanned, taken, queue, running, tickAge, late, failed>>
  BY ToOne DEF ScheduleInv, Schedule!Look
<1>2. Schedule!NoRun.bucket # "last"
  BY DEF Schedule!NoRun
<1>3. (Schedule!Due)' = Schedule!Due /\ (Schedule!Active)' = Schedule!Active
  BY <1>1 DEF Schedule!Due, Schedule!Active
<1>4. \A v \in Workers : TickInv(v)'
  <2>1. TickInv(w)'
    BY <1>1, <1>2 DEF ScheduleInv, ScheduleRest, TickInv
  <2> QED
    BY <1>1, <2>1 DEF ScheduleInv, ScheduleRest, TickInv
<1>5. \A mode \in Schedule!Modes : Named(mode)'
  BY <1>1 DEF ScheduleInv, ScheduleRest, Named
<1>6. LateInv'
  <2> SUFFICES ASSUME late' > 0, (Schedule!Due)' \notin taken'["this"]
               PROVE  \A v \in Workers : Sooner(v)'
    BY <1>1, <1>3 DEF ScheduleInv, ScheduleRest, LateInv
  <2>1. ~Schedule!Active /\ \A v \in Workers : Sooner(v)
    BY <1>1, <1>3 DEF ScheduleInv, ScheduleRest, LateInv
  <2>2. Sooner(w)'
    BY <1>1, <2>1 DEF Sooner, Useful, Schedule!Unnamed
  <2>3. ASSUME NEW v \in Workers \ {w} PROVE Sooner(v)'
    BY <1>1, <2>1 DEF Sooner, Useful, Schedule!Unnamed
  <2> QED
    BY <2>2, <2>3
<1>7. Counted'
  <2>1. CASE workerPc'[w] = "process"
    <3>1. UNCHANGED InQueue /\ Asking' \subseteq Asking
      BY <1>1, <2>1 DEF InQueue, Asking
    <3> QED
      BY <3>1, CountKept DEF ScheduleInv, ScheduleRest
  <2>2. CASE workerPc'[w] # "process"
    <3>1. queue' = <<>>
      BY <1>1, <2>2 DEF Schedule!Active
    <3>2. InQueue' = {} /\ Asking' \subseteq Workers
      BY <3>1 DEF InQueue, Asking
    <3>3. IsFiniteSet(InQueue') /\ Cardinality(InQueue') = 0
      BY <3>2, FS_EmptySet
    <3>4. Cardinality(Asking') \in Nat /\ Cardinality(Asking') <= Cardinality(Workers)
      BY <3>2, Counts
    <3> QED
      BY <3>3, <3>4 DEF Counted
  <2> QED
    BY <2>1, <2>2
<1> QED
  BY <1>4, <1>5, <1>6, <1>7 DEF ScheduleRest

\* enqueue: the run is added under its name, unless the name exists.
LEMMA EnqueueKeeps ==
  ASSUME ScheduleInv, NEW w \in Workers, Schedule!Enqueue(w)
  PROVE  ScheduleRest'
<1>1. /\ workerPc[w] = "enqueue" /\ workerPc'[w] = "process" /\ wish'[w] = Schedule!NoRun
      /\ \A v \in Workers \ {w} : workerPc'[v] = workerPc[v] /\ wish'[v] = wish[v]
      /\ UNCHANGED <<phase, polled, scanned, running, tickAge, failed>>
  BY ToOne DEF ScheduleInv, Schedule!Enqueue
<1>2. /\ wish[w].bucket \in {"this", "last"} /\ wish[w].mode \in Schedule!Modes
      /\ wish[w] \in Schedule!Runs /\ Schedule!NoRun.bucket # "last"
  BY <1>1 DEF ScheduleInv, ScheduleRest, TickInv, Schedule!TypeOK, Schedule!Runs, Schedule!NoRun
<1>3. \A v \in Workers : TickInv(v)'
  <2>1. TickInv(w)'
    BY <1>1, <1>2 DEF ScheduleInv, ScheduleRest, TickInv
  <2> QED
    BY <1>1, <2>1 DEF ScheduleInv, ScheduleRest, TickInv
<1>4. CASE Schedule!Unnamed(w)
  <2>1. /\ queue' = Append(queue, wish[w]) /\ late' = 0
        /\ taken' = [taken EXCEPT ![wish[w].bucket] = @ \cup {wish[w].mode}]
    BY <1>4 DEF Schedule!Enqueue
  <2>2. /\ DOMAIN queue' = DOMAIN queue \cup {Len(queue) + 1}
        /\ Len(queue) + 1 \notin DOMAIN queue
        /\ queue'[Len(queue) + 1] = wish[w] /\ \A i \in DOMAIN queue : queue'[i] = queue[i]
    BY <2>1, Appended DEF ScheduleInv, Schedule!TypeOK
  <2>3. taken'["this"] = IF wish[w].bucket = "this" THEN taken["this"] \cup {wish[w].mode}
                         ELSE taken["this"]
    BY <1>2, <2>1 DEF ScheduleInv, Schedule!TypeOK, Schedule!Buckets
  <2>4. ASSUME NEW mode \in Schedule!Modes PROVE Named(mode)'
    <3>1. CASE wish[w].bucket = "this" /\ mode = wish[w].mode
      <4>1. wish[w] = [mode |-> mode, bucket |-> "this"]
        BY <1>2, <3>1 DEF Schedule!Runs
      <4>2. /\ Len(queue) + 1 \in DOMAIN queue'
            /\ queue'[Len(queue) + 1] = [mode |-> mode, bucket |-> "this"]
        BY <2>2, <4>1
      <4> QED
        BY <4>2 DEF Named
    <3>2. CASE ~(wish[w].bucket = "this" /\ mode = wish[w].mode)
      <4>1. Named(mode) /\ (mode \in taken'["this"] <=> mode \in taken["this"])
        BY <2>3, <3>2 DEF ScheduleInv, ScheduleRest
      <4>2. \A i \in DOMAIN queue : i \in DOMAIN queue' /\ queue'[i] = queue[i]
        BY <2>2
      <4> QED
        BY <1>1, <4>1, <4>2 DEF Named
    <3> QED
      BY <3>1, <3>2
  <2>5. LateInv'
    BY <2>1, ScheduleNumbers DEF LateInv, ScheduleInv
  <2>6. Counted'
    <3>1. InQueue' \subseteq InQueue \cup {Len(queue) + 1} /\ Asking' \subseteq Asking \ {w}
          /\ w \in Asking /\ Asking \subseteq Workers
      BY <1>1, <2>2 DEF InQueue, Asking
    <3>2. IsFiniteSet(InQueue) /\ IsFiniteSet(Asking) /\ Cardinality(Workers) \in Nat
      BY <3>1, Counts DEF ScheduleInv, ScheduleRest, Counted
    <3>3. /\ IsFiniteSet(InQueue') /\ Cardinality(InQueue') \in Nat
          /\ Cardinality(InQueue) \in Nat /\ Cardinality(InQueue') <= Cardinality(InQueue) + 1
      BY <3>1, <3>2, OneMore, Zenon
    <3>4. /\ Cardinality(Asking') \in Nat /\ Cardinality(Asking) \in Nat
          /\ Cardinality(Asking') + 1 <= Cardinality(Asking)
      BY <3>1, <3>2, OneLess, Zenon
    <3> QED
      BY <3>2, <3>3, <3>4 DEF ScheduleInv, ScheduleRest, Counted
  <2> QED
    BY <1>3, <2>4, <2>5, <2>6 DEF ScheduleRest
<1>5. CASE ~Schedule!Unnamed(w)
  <2>1. UNCHANGED <<queue, taken, late>>
    BY <1>5 DEF Schedule!Enqueue
  <2>2. (Schedule!Due)' = Schedule!Due /\ (Schedule!Active)' = Schedule!Active
    BY <1>1, <2>1 DEF Schedule!Due, Schedule!Active
  <2>3. \A mode \in Schedule!Modes : Named(mode)'
    BY <1>1, <2>1 DEF ScheduleInv, ScheduleRest, Named
  <2>4. LateInv'
    <3> SUFFICES ASSUME late' > 0, (Schedule!Due)' \notin taken'["this"]
                 PROVE  \A v \in Workers : Sooner(v)'
      BY <2>1, <2>2 DEF ScheduleInv, ScheduleRest, LateInv
    <3>1. \A v \in Workers : Sooner(v)
      BY <2>1, <2>2 DEF ScheduleInv, ScheduleRest, LateInv
    <3>2. Sooner(w)'
      BY <1>1, <1>5, <2>1, <3>1 DEF Sooner, Useful
    <3>3. ASSUME NEW v \in Workers \ {w} PROVE Sooner(v)'
      BY <1>1, <2>1, <3>1 DEF Sooner, Useful, Schedule!Unnamed
    <3> QED
      BY <3>2, <3>3
  <2>5. Counted'
    <3>1. UNCHANGED InQueue /\ Asking' \subseteq Asking
      BY <1>1, <2>1 DEF InQueue, Asking
    <3> QED
      BY <3>1, CountKept DEF ScheduleInv, ScheduleRest
  <2> QED
    BY <1>3, <2>3, <2>4, <2>5 DEF ScheduleRest
<1> QED
  BY <1>4, <1>5

\* processNext takes up the oldest run, or finds nothing to do.
LEMMA ProcessKeeps ==
  ASSUME ScheduleInv, NEW w \in Workers, Schedule!Process(w)
  PROVE  ScheduleRest'
<1>1. /\ workerPc[w] = "process" /\ workerPc'[w] = "idle" /\ wish'[w] = Schedule!NoRun
      /\ tickAge'[w] = 0
      /\ \A v \in Workers \ {w} :
           workerPc'[v] = workerPc[v] /\ wish'[v] = wish[v] /\ tickAge'[v] = tickAge[v]
      /\ UNCHANGED <<phase, polled, scanned, taken, late, failed>>
  BY ToOne, ClockOne DEF ScheduleInv, Schedule!Process
<1>2. (Schedule!Due)' = Schedule!Due /\ Asking' \subseteq Asking
  BY <1>1 DEF Schedule!Due, Asking
<1>3. \A v \in Workers : TickInv(v)'
  <2>1. TickInv(w)'
    BY <1>1 DEF ScheduleInv, ScheduleRest, TickInv, Schedule!NoRun
  <2> QED
    BY <1>1, <2>1 DEF ScheduleInv, ScheduleRest, TickInv
<1>4. CASE running = Schedule!NoRun /\ queue # <<>>
  <2>1. running' = Head(queue) /\ queue' = Tail(queue) /\ queue \in Seq(Schedule!Runs)
    BY <1>4 DEF Schedule!Process, ScheduleInv, Schedule!TypeOK
  <2>2. /\ running' = queue[1] /\ 1 \in DOMAIN queue
        /\ \A i \in DOMAIN queue' : i + 1 \in DOMAIN queue /\ queue'[i] = queue[i + 1]
        /\ \A i \in DOMAIN queue : i = 1 \/ (i - 1 \in DOMAIN queue' /\ queue'[i - 1] = queue[i])
    BY <1>4, <2>1, TakenUp
  <2>3. LateInv'
    BY <1>1, <1>4, ScheduleNumbers DEF ScheduleInv, ScheduleRest, LateInv, Schedule!Active
  <2>4. ASSUME NEW mode \in Schedule!Modes PROVE Named(mode)'
    <3> DEFINE run == [mode |-> mode, bucket |-> "this"]
    <3>1. Named(mode) /\ running # run
      BY <1>4 DEF ScheduleInv, ScheduleRest, Schedule!NoRun
    <3>2. ASSUME NEW i \in DOMAIN queue, queue[i] = run
          PROVE  running' = run \/ \E j \in DOMAIN queue' : queue'[j] = run
      BY <2>2, <3>2
    <3> QED
      BY <1>1, <3>1, <3>2 DEF Named
  <2>5. Counted'
    <3> DEFINE back == [i \in InQueue \ {1} |-> i - 1]
    <3>1. InQueue \ {1} \subseteq InQueue /\ InQueue \subseteq Int /\ InQueue' \subseteq Int
      BY <2>1 DEF InQueue, ScheduleInv, Schedule!TypeOK
    <3>2. IsFiniteSet(InQueue)
      BY DEF ScheduleInv, ScheduleRest, Counted
    <3>3. IsFiniteSet(InQueue \ {1}) /\ Cardinality(InQueue \ {1}) <= Cardinality(InQueue)
      BY <3>1, <3>2, FS_Subset
    <3>4. \A i \in InQueue \ {1} : i - 1 \in InQueue'
      BY <2>2 DEF InQueue, Schedule!Scheduled
    <3>5. \A j \in InQueue' : j + 1 \in InQueue \ {1} /\ (j + 1) - 1 = j
      <4> SUFFICES ASSUME NEW j \in InQueue'
                   PROVE  j + 1 \in InQueue \ {1} /\ (j + 1) - 1 = j
        OBVIOUS
      <4>1. j \in DOMAIN queue' /\ Schedule!Scheduled(queue'[j])
        BY DEF InQueue
      <4>2. j + 1 \in InQueue
        BY <2>2, <4>1 DEF InQueue
      <4>3. j \in 1..Len(Tail(queue))
        BY <1>4, <2>1, <4>1
      <4> QED
        BY <4>2, <4>3
    <3>6. back \in Surjection(InQueue \ {1}, InQueue')
      <4>1. back \in [InQueue \ {1} -> InQueue']
        BY <3>4
      <4>2. \A j \in InQueue' : \E i \in InQueue \ {1} : back[i] = j
        BY <3>5
      <4> QED
        BY <4>1, <4>2 DEF Surjection
    <3> HIDE DEF back
    <3>7. IsFiniteSet(InQueue') /\ Cardinality(InQueue') <= Cardinality(InQueue \ {1})
      BY <3>3, <3>6, FS_Surjection
    <3>8. IsFiniteSet(Asking) /\ Asking \subseteq Workers /\ Asking' \subseteq Workers
          /\ Cardinality(Asking) \in Nat /\ Cardinality(Workers) \in Nat
          /\ Cardinality(Asking') \in Nat
      BY Counts DEF Asking
    <3>9. Cardinality(Asking') <= Cardinality(Asking)
      BY <1>2, <3>8, FS_Subset
    <3>10. Cardinality(InQueue') \in Nat /\ Cardinality(InQueue) \in Nat
           /\ Cardinality(InQueue \ {1}) \in Nat
      BY <3>2, <3>3, <3>7, FS_CardinalityType
    <3> QED
      BY <3>3, <3>7, <3>8, <3>9, <3>10 DEF ScheduleInv, ScheduleRest, Counted
  <2> QED
    BY <1>3, <2>3, <2>4, <2>5 DEF ScheduleRest
<1>5. CASE ~(running = Schedule!NoRun /\ queue # <<>>)
  <2>1. UNCHANGED <<running, queue>>
    BY <1>5 DEF Schedule!Process
  <2>2. (Schedule!Active)' = Schedule!Active
    BY <2>1 DEF Schedule!Active
  <2>3. LateInv'
    <3> SUFFICES ASSUME late' > 0, (Schedule!Due)' \notin taken'["this"]
                 PROVE  \A v \in Workers : Sooner(v)'
      BY <1>1, <1>2, <2>2 DEF ScheduleInv, ScheduleRest, LateInv
    <3>1. \A v \in Workers : Sooner(v)
      BY <1>1, <1>2 DEF ScheduleInv, ScheduleRest, LateInv
    <3>2. late <= tickAge[w] /\ tickAge[w] <= TickTime
      BY <1>1, <3>1 DEF Sooner, Useful, ScheduleInv, ScheduleRest, TickInv
    <3>3. late <= TickTime + tickAge'[w]
      BY <1>1, <3>2, ScheduleNumbers DEF ScheduleInv
    <3>4. Sooner(w)'
      BY <1>1, <3>3 DEF Sooner, Useful
    <3>5. ASSUME NEW v \in Workers \ {w} PROVE Sooner(v)'
      BY <1>1, <3>1 DEF Sooner, Useful, Schedule!Unnamed
    <3> QED
      BY <3>4, <3>5
  <2>4. \A mode \in Schedule!Modes : Named(mode)'
    BY <1>1, <2>1 DEF ScheduleInv, ScheduleRest, Named
  <2>5. Counted'
    <3>1. UNCHANGED InQueue
      BY <2>1 DEF InQueue
    <3> QED
      BY <1>2, <3>1, CountKept DEF ScheduleInv, ScheduleRest
  <2> QED
    BY <1>3, <2>3, <2>4, <2>5 DEF ScheduleRest
<1> QED
  BY <1>4, <1>5

\* Runs asked for otherwise do not count.
LEMMA OthersAdded ==
  ASSUME Schedule!TypeOK, NEW mode, queue' = Append(queue, [mode |-> mode, bucket |-> "none"])
  PROVE  /\ UNCHANGED InQueue
         /\ \A i \in DOMAIN queue : i \in DOMAIN queue' /\ queue'[i] = queue[i]
<1>1. /\ DOMAIN queue' = DOMAIN queue \cup {Len(queue) + 1} /\ Len(queue) + 1 \notin DOMAIN queue
      /\ queue'[Len(queue) + 1] = [mode |-> mode, bucket |-> "none"]
      /\ \A i \in DOMAIN queue : queue'[i] = queue[i]
  BY Appended DEF Schedule!TypeOK
<1>2. ~Schedule!Scheduled(queue'[Len(queue) + 1])
  BY <1>1 DEF Schedule!Scheduled
<1> QED
  BY <1>1, <1>2 DEF InQueue

\* A run ends: its name stays, and so do those who wait.
LEMMA RunEndsKeeps ==
  ASSUME ScheduleInv, Schedule!Succeed \/ Schedule!Fail
  PROVE  ScheduleRest'
<1>1. /\ running # Schedule!NoRun /\ UNCHANGED <<phase, taken, workerPc, wish, tickAge, late>>
      /\ UNCHANGED queue \/ queue' = Append(queue, [mode |-> "full", bucket |-> "none"])
  BY DEF Schedule!Succeed, Schedule!Fail
<1>2. UNCHANGED InQueue /\ \A i \in DOMAIN queue : i \in DOMAIN queue' /\ queue'[i] = queue[i]
  BY <1>1, OthersAdded DEF ScheduleInv, InQueue
<1>3. LateInv'
  <2>1. late = 0
    BY <1>1, ScheduleNumbers DEF ScheduleInv, ScheduleRest, LateInv, Schedule!Active
  <2> QED
    BY <1>1, <2>1, ScheduleNumbers DEF ScheduleInv, LateInv
<1>4. \A v \in Workers : TickInv(v)'
  BY <1>1 DEF ScheduleInv, ScheduleRest, TickInv
<1>5. ASSUME NEW mode \in Schedule!Modes PROVE Named(mode)'
  <2> DEFINE run == [mode |-> mode, bucket |-> "this"]
  <2>1. CASE Schedule!Succeed
    <3>1. /\ polled' = 0 /\ scanned' = (IF running.mode = "full" THEN 0 ELSE scanned)
          /\ UNCHANGED failed
      BY <2>1 DEF Schedule!Succeed
    <3>2. 0 <= phase
      BY ScheduleNumbers DEF ScheduleInv
    <3>3. running = run => running.mode = mode
      OBVIOUS
    <3> QED
      BY <1>1, <1>2, <3>1, <3>2, <3>3 DEF ScheduleInv, ScheduleRest, Named
  <2>2. CASE Schedule!Fail
    <3>1. /\ UNCHANGED <<polled, scanned>> /\ failed \subseteq failed'
          /\ running.bucket = "this" => running.mode \in failed'
      BY <2>2 DEF Schedule!Fail
    <3>2. running = run => running.bucket = "this" /\ running.mode = mode
      OBVIOUS
    <3> QED
      BY <1>1, <1>2, <3>1, <3>2 DEF ScheduleInv, ScheduleRest, Named
  <2> QED
    BY <2>1, <2>2
<1>6. Counted'
  BY <1>1, <1>2, CountKept DEF ScheduleInv, ScheduleRest, Asking
<1> QED
  BY <1>3, <1>4, <1>5, <1>6 DEF ScheduleRest

\* An administrator asks for a run.
LEMMA RequestKeeps ==
  ASSUME ScheduleInv, Schedule!Request
  PROVE  ScheduleRest'
<1>1. PICK mode \in Schedule!Modes : queue' = Append(queue, [mode |-> mode, bucket |-> "none"])
  BY DEF Schedule!Request
<1>2. UNCHANGED InQueue /\ \A i \in DOMAIN queue : i \in DOMAIN queue' /\ queue'[i] = queue[i]
  BY <1>1, OthersAdded DEF ScheduleInv
<1>3. late' = 0 /\ UNCHANGED <<phase, polled, scanned, taken, running, workerPc, wish, tickAge,
                               failed>>
  BY DEF Schedule!Request
<1>4. (\A v \in Workers : TickInv(v)') /\ \A m \in Schedule!Modes : Named(m)'
  BY <1>2, <1>3 DEF ScheduleInv, ScheduleRest, TickInv, Named
<1>5. LateInv'
  BY <1>3, ScheduleNumbers DEF ScheduleInv, LateInv
<1>6. Counted'
  BY <1>2, <1>3, CountKept DEF ScheduleInv, ScheduleRest, Asking
<1> QED
  BY <1>4, <1>5, <1>6 DEF ScheduleRest

\* A unit passes, wherever the ticks are: what a worker has in hand keeps its name, also
\* over the turn of a bucket, as it was read in the bucket that ends.
LEMMA PassKeeps ==
  ASSUME ScheduleInv, Schedule!Pass
  PROVE  ScheduleRest'
<1> USE ScheduleNumbers DEF ScheduleInv
<1>1. /\ \A w \in Workers : tickAge'[w] = tickAge[w] + 1
      /\ \A w \in Workers : tickAge[w] < (IF workerPc[w] = "idle" THEN 1 ELSE TickTime)
      /\ UNCHANGED workerPc
      /\ polled' = (IF polled < Poll THEN polled + 1 ELSE polled)
      /\ scanned' = (IF scanned < Reconcile THEN scanned + 1 ELSE scanned)
      /\ late' = IF Schedule!Waits THEN late + 1 ELSE 0
  BY DEF Schedule!Pass
<1>2. \/ phase # Poll - 1 /\ phase' = phase + 1
         /\ UNCHANGED <<taken, failed, wish, queue, running>>
      \/ /\ phase = Poll - 1 /\ phase' = 0 /\ taken' = Schedule!NewNames /\ failed' = {}
         /\ wish' = [w \in Workers |-> Schedule!Aged(wish[w])]
         /\ queue' = [i \in DOMAIN queue |-> Schedule!Aged(queue[i])]
         /\ running' = Schedule!Aged(running)
  BY DEF Schedule!Pass
<1>3. /\ \A w \in Workers : wish[w] \in Schedule!Runs \cup {Schedule!NoRun}
      /\ \A i \in DOMAIN queue : queue[i] \in Schedule!Runs
      /\ running \in Schedule!Runs \cup {Schedule!NoRun} /\ queue \in Seq(Schedule!Runs)
  BY DEF Schedule!TypeOK
<1>4. ASSUME NEW w \in Workers, phase = Poll - 1 PROVE wish[w].bucket # "last"
  BY <1>1, <1>4 DEF ScheduleRest, TickInv, Schedule!NoRun
<1>5. ASSUME NEW w \in Workers PROVE TickInv(w)'
  <2>1. TickInv(w)
    BY DEF ScheduleRest
  <2>2. tickAge'[w] <= (IF workerPc'[w] = "idle" THEN 1 ELSE TickTime)
    BY <1>1
  <2>3. CASE phase # Poll - 1
    BY <1>1, <1>2, <2>1, <2>2, <2>3 DEF TickInv
  <2>4. CASE phase = Poll - 1
    <3>1. wish'[w] = Schedule!Aged(wish[w]) /\ phase' = 0
      BY <1>2, <2>4
    <3>2. (wish'[w] = Schedule!NoRun <=> wish[w] = Schedule!NoRun)
          /\ wish'[w].bucket = (IF wish[w].bucket = "this" THEN "last" ELSE wish[w].bucket)
      BY <1>3, <3>1, AgedRuns
    <3>3. tickAge'[w] > phase'
      BY <1>1, <3>1
    <3> QED
      BY <1>1, <2>1, <2>2, <3>2, <3>3 DEF TickInv
  <2> QED
    BY <2>3, <2>4
<1>6. ASSUME NEW mode \in Schedule!Modes PROVE Named(mode)'
  <2>1. CASE phase # Poll - 1
    <3>1. (IF mode = "full" THEN scanned ELSE polled) <= phase =>
            (IF mode = "full" THEN scanned' ELSE polled') <= phase'
      BY <1>1, <1>2, <2>1
    <3>2. Named(mode) /\ UNCHANGED <<taken, failed, queue, running>>
      BY <1>2, <2>1 DEF ScheduleRest
    <3> QED
      BY <3>1, <3>2 DEF Named
  <2>2. CASE phase = Poll - 1
    BY <1>2, <2>2 DEF Named, Schedule!NewNames
  <2> QED
    BY <2>1, <2>2
<1>7. (Schedule!Active)' = Schedule!Active
  <2>1. CASE phase # Poll - 1
    BY <1>2, <2>1 DEF Schedule!Active
  <2>2. CASE phase = Poll - 1
    <3>1. queue' = <<>> <=> queue = <<>>
      <4>1. queue' = [i \in 1..Len(queue) |-> Schedule!Aged(queue[i])] /\ Len(queue) \in Nat
        BY <1>2, <1>3, <2>2
      <4> QED
        BY <1>3, <4>1
    <3>2. running' = Schedule!NoRun <=> running = Schedule!NoRun
      BY <1>2, <1>3, <2>2, AgedRuns
    <3> QED
      BY <3>1, <3>2 DEF Schedule!Active
  <2> QED
    BY <2>1, <2>2
<1>8. ASSUME NEW w \in Workers, Schedule!Waits, Sooner(w) \/ late = 0
      PROVE  Sooner(w)' /\ late + 1 <= 2 * TickTime + 1
  <2>1. Useful(w)' <=> Useful(w)
    <3>1. CASE phase # Poll - 1
      BY <1>1, <1>2, <3>1 DEF Useful, Schedule!Unnamed
    <3>2. CASE phase = Poll - 1
      <4>1. wish'[w] = Schedule!Aged(wish[w]) /\ taken'["last"] = taken["this"]
        BY <1>2, <3>2 DEF Schedule!NewNames
      <4>2. /\ wish'[w] = Schedule!NoRun <=> wish[w] = Schedule!NoRun
            /\ wish'[w].mode = wish[w].mode
            /\ wish'[w].bucket = (IF wish[w].bucket = "this" THEN "last" ELSE wish[w].bucket)
        BY <1>3, <4>1, AgedRuns
      <4>3. wish[w] # Schedule!NoRun => wish[w].bucket = "this"
        BY <1>4, <3>2 DEF ScheduleRest, TickInv
      <4> QED
        BY <1>1, <4>1, <4>2, <4>3 DEF Useful, Schedule!Unnamed
    <3> QED
      BY <3>1, <3>2
  <2>2. CASE late = 0
    BY <1>1, <1>8, <2>2 DEF Sooner
  <2>3. CASE Sooner(w)
    <3>1. Useful(w) => workerPc[w] # "idle"
      BY DEF Useful
    <3>2. late <= 2 * TickTime
      BY <1>1, <2>3, <3>1 DEF Sooner
    <3> QED
      BY <1>1, <1>8, <2>1, <2>3, <3>2 DEF Sooner
  <2> QED
    BY <1>8, <2>2, <2>3
<1>9. LateInv'
  <2>1. CASE ~Schedule!Waits
    BY <1>1, <2>1 DEF LateInv
  <2>2. CASE Schedule!Waits
    <3>1. late' = late + 1 /\ ~Schedule!Active /\ Schedule!Due # "none"
          /\ \A w \in Workers : Sooner(w) \/ late = 0
      BY <1>1, <2>2 DEF Schedule!Waits, ScheduleRest, LateInv
    <3>2. (Schedule!Due)' # "none"
      BY <1>1, <3>1 DEF Schedule!Due
    <3>3. \A w \in Workers : Sooner(w)' /\ late + 1 <= 2 * TickTime + 1
      BY <1>8, <2>2, <3>1
    <3>4. PICK w \in Workers : TRUE
      BY PartsAssumption DEF Schedule!ScheduleAssumption
    <3> QED
      BY <1>7, <3>1, <3>2, <3>3, <3>4 DEF LateInv
  <2> QED
    BY <2>1, <2>2
<1>10. Counted'
  <2>1. DOMAIN queue' = DOMAIN queue
        /\ \A i \in DOMAIN queue : Schedule!Scheduled(queue'[i]) <=> Schedule!Scheduled(queue[i])
    <3>1. CASE phase # Poll - 1
      BY <1>2, <3>1
    <3>2. CASE phase = Poll - 1
      <4>1. DOMAIN queue' = DOMAIN queue
            /\ \A i \in DOMAIN queue : queue'[i] = Schedule!Aged(queue[i])
        BY <1>2, <3>2
      <4>2. \A i \in DOMAIN queue :
              queue'[i].bucket = (IF queue[i].bucket = "this" THEN "last" ELSE queue[i].bucket)
        BY <1>3, <4>1, AgedRuns
      <4> QED
        BY <4>1, <4>2 DEF Schedule!Scheduled
    <3> QED
      BY <3>1, <3>2
  <2>2. UNCHANGED InQueue /\ Asking' \subseteq Asking
    BY <1>1, <2>1 DEF InQueue, Asking
  <2> QED
    BY <2>2, CountKept DEF ScheduleRest
<1> QED
  BY <1>5, <1>6, <1>9, <1>10 DEF ScheduleRest

\* ScheduleInv is inductive.
LEMMA ScheduleSteps == ScheduleInv /\ [Schedule!Next]_scheduleVars => ScheduleInv'
<1> SUFFICES ASSUME ScheduleInv, [Schedule!Next]_scheduleVars PROVE ScheduleInv'
  OBVIOUS
<1>1. Schedule!TypeOK'
  BY ScheduleTypes DEF ScheduleInv, ScheduleRest
<1>2. CASE UNCHANGED scheduleVars
  <2>1. (Schedule!Due)' = Schedule!Due /\ (Schedule!Active)' = Schedule!Active
    BY <1>2 DEF scheduleVars, Schedule!Due, Schedule!Active
  <2>2. LateInv'
    BY <1>2, <2>1 DEF ScheduleInv, ScheduleRest, scheduleVars, LateInv, Sooner, Useful,
                      Schedule!Unnamed
  <2>3. (\A w \in Workers : TickInv(w)') /\ (\A mode \in Schedule!Modes : Named(mode)')
    BY <1>2 DEF ScheduleInv, ScheduleRest, scheduleVars, TickInv, Named
  <2>4. Counted'
    BY <1>2, CountKept DEF ScheduleInv, ScheduleRest, scheduleVars, InQueue, Asking
  <2> QED
    BY <1>1, <2>2, <2>3, <2>4 DEF ScheduleInv, ScheduleRest
<1>3. CASE Schedule!Next
  <2>1. ScheduleRest'
    BY <1>3, ReadSourceKeeps, LookKeeps, EnqueueKeeps, ProcessKeeps, RunEndsKeeps,
       RequestKeeps, PassKeeps
       DEF Schedule!Next, Schedule!Tick
  <2> QED
    BY <1>1, <2>1 DEF ScheduleInv
<1> QED
  BY <1>2, <1>3

\* A run that is due, and whose name is free, is queued within the time of two ticks and a
\* unit, though ticks take their time, straddle the turns of buckets and find things due
\* that no longer are; only the name of a run that failed in this bucket holds one up; and
\* no more scheduled runs wait than there are workers (tick and enqueue in sync.ts and
\* store.ts).  For any workers, any intervals, runs of any length and any time of a tick
\* that is no longer than a bucket.
THEOREM DueRunsAreQueued == PartsSpec => []DueIsQueued
<1>1. ScheduleInv /\ [PartsNext]_partVars => ScheduleInv'
  BY OthersRest, ScheduleSteps
<1>2. ScheduleInv => DueIsQueued
  <2> SUFFICES ASSUME ScheduleInv
               PROVE  /\ late <= 2 * TickTime + 1
                      /\ ~Schedule!Active /\ Schedule!Due \in taken["this"] =>
                           Schedule!Due \in failed
                      /\ Schedule!OnePerWorker
    BY DEF DueIsQueued, Schedule!DueIsQueued
  <2>1. late <= 2 * TickTime + 1
    BY DEF ScheduleInv, ScheduleRest, LateInv
  <2>2. ASSUME ~Schedule!Active, Schedule!Due \in taken["this"]
        PROVE  Schedule!Due \in failed
    <3>1. queue = <<>> /\ running = Schedule!NoRun
      BY <2>2 DEF Schedule!Active
    <3>2. Schedule!Due \in Schedule!Modes
      BY <2>2 DEF ScheduleInv, Schedule!TypeOK, Schedule!Buckets
    <3>3. ~ (IF Schedule!Due = "full" THEN scanned ELSE polled) <= phase
      BY <3>2, DueIs, ScheduleNumbers, PartsAssumption
         DEF ScheduleInv, Schedule!ScheduleAssumption, Schedule!Modes
    <3>4. Named(Schedule!Due)
      BY <3>2 DEF ScheduleInv, ScheduleRest
    <3>5. running # [mode |-> Schedule!Due, bucket |-> "this"]
      BY <3>1 DEF Schedule!NoRun
    <3> QED
      BY <2>2, <3>1, <3>3, <3>4, <3>5 DEF Named
  <2>3. Schedule!OnePerWorker
    <3>1. IsFiniteSet(InQueue) /\ Asking \subseteq Workers
          /\ Cardinality(InQueue) + Cardinality(Asking) <= Cardinality(Workers)
      BY DEF ScheduleInv, ScheduleRest, Counted, Asking
    <3>2. /\ Cardinality(InQueue) \in Nat /\ Cardinality(Asking) \in Nat
          /\ Cardinality(Workers) \in Nat
      BY <3>1, Counts, FS_CardinalityType
    <3>3. Cardinality(InQueue) <= Cardinality(Workers)
      BY <3>1, <3>2
    <3> QED
      BY <3>3 DEF InQueue, Schedule!OnePerWorker, Schedule!Cardinality, Cardinality
  <2> QED
    BY <2>1, <2>2, <2>3
<1> QED
  BY ScheduleStarts, <1>1, <1>2, PTL DEF PartsSpec

-----------------------------------------------------------------------------
(***************************************************************************)
(* The index of one revision                                               *)
(***************************************************************************)

\* What a worker has in hand, and that it has seen all vectors there are.
HandInv(w) ==
  LET pc == indexPc[w] IN
  /\ pc \in {"idle", "embed"} => id[w] = 0
  /\ pc \in {"verify", "publish"} => id[w] \in fileRecords
  /\ pc \in {"check", "save"} => id[w] \in 1..drawn
  /\ pc # "idle" => vectors \subseteq had[w]

\* The workers that may add a file without having found one amiss, and all that may.
Embedding == {w \in Workers : indexPc[w] \in {"embed", "check", "save"}}
Trying == {w \in Workers : indexPc[w] \in {"verify", "embed", "check", "save"}}

\* A worker whose id has lost its vectors will write nothing down; another may.
Hopeless(w) == indexPc[w] \in {"check", "save", "publish"} /\ id[w] \notin vectors
Hopeful(w) == indexPc[w] # "idle" /\ ~Hopeless(w)
Good == indexed # {} /\ indexed \subseteq vectors

\* Each file, and each worker that may add one, is accounted for.  If what the revision
\* names is amiss and nobody is about to mend it, or somebody works in vain, then one loss
\* or failure is not used up.
Used == Cardinality(fileRecords) + Cardinality(Trying)
Bound == 1 + overlaps + losses + indexFaults
Spare ==
  \/ ~Good /\ \A w \in Workers : ~Hopeful(w)
  \/ \E w \in Workers : Hopeless(w)
Account == Used <= Bound /\ (Spare => Used + 1 <= Bound)

\* Before any loss, files keep their vectors, and only an overlap embeds twice.
BeforeLoss ==
  losses = 0 =>
    /\ fileRecords \subseteq vectors
    /\ \A w \in Workers : ~Hopeless(w)
    /\ Cardinality(fileRecords) + Cardinality(Embedding) <= 1 + overlaps

IndexFinite == IsFiniteSet(fileRecords) /\ IsFiniteSet(Trying) /\ IsFiniteSet(Index!Orphans)

IndexInv ==
  /\ Index!TypeOK
  /\ \A w \in Workers : HandInv(w)
  /\ IndexFinite
  /\ Cardinality(Index!Orphans) <= indexFaults
  /\ Account /\ BeforeLoss

\* Nothing is indexed at the start.
LEMMA IndexStarts == PartsInit => IndexInv
<1> SUFFICES ASSUME PartsInit PROVE IndexInv
  OBVIOUS
<1> USE DEF PartsInit, Index!Init
<1>1. Index!TypeOK
  BY PartsAssumption DEF Index!TypeOK, Index!Steps, Index!IndexAssumption
<1>2. \A w \in Workers : HandInv(w)
  BY DEF HandInv
<1>3. fileRecords = {} /\ Trying = {} /\ Embedding = {} /\ Index!Orphans = {}
  BY DEF Trying, Embedding, Index!Orphans
<1>4. Cardinality({}) = 0 /\ IsFiniteSet({})
  BY FS_EmptySet
<1>5. \A w \in Workers : ~Hopeless(w)
  BY DEF Hopeless
<1>6. Account /\ BeforeLoss
  BY <1>3, <1>4, <1>5 DEF Account, BeforeLoss, Used, Bound
<1> QED
  BY <1>1, <1>2, <1>3, <1>4, <1>6 DEF IndexInv, IndexFinite

\* The step of one worker leaves the others where they are.
Apart(w) == \A v \in Workers \ {w} : indexPc'[v] = indexPc[v] /\ id'[v] = id[v]

\* The types of the variables and what each worker has in hand, step by step.
LEMMA IndexHands ==
  ASSUME Index!TypeOK, \A w \in Workers : HandInv(w), [Index!Next]_indexVars
  PROVE  Index!TypeOK' /\ \A w \in Workers : HandInv(w)'
<1> USE PartsAssumption
    DEF Index!IndexAssumption, Index!TypeOK, Index!Steps, HandInv, Index!To, Index!Faulty
<1>1. ASSUME NEW w \in Workers, Index!Begin(w)
      PROVE  Index!TypeOK' /\ \A v \in Workers : HandInv(v)'
  BY <1>1 DEF Index!Begin, Index!FindFile
<1>2. ASSUME NEW w \in Workers, Index!Verify(w)
      PROVE  Index!TypeOK' /\ \A v \in Workers : HandInv(v)'
  BY <1>2 DEF Index!Verify, Index!Verifies
<1>3. ASSUME NEW w \in Workers, Index!Embed(w)
      PROVE  Index!TypeOK' /\ \A v \in Workers : HandInv(v)'
  <2>1. /\ drawn \in 0..MaxIds /\ drawn' = drawn + 1 /\ drawn' \in 0..MaxIds
        /\ 1..drawn \subseteq 1..drawn' /\ 0..drawn \subseteq 0..drawn' /\ drawn' \in 1..drawn'
    BY <1>3 DEF Index!Embed
  <2>2. /\ vectors' \subseteq 1..drawn' /\ fileRecords' = fileRecords /\ indexed' = indexed
        /\ had' \in [Workers -> SUBSET (1..drawn')]
        /\ \A v \in Workers : vectors \subseteq had[v] => vectors' \subseteq had'[v]
    <3>1. /\ vectors' \subseteq 1..drawn' /\ fileRecords' = fileRecords /\ indexed' = indexed
      BY <1>3, <2>1 DEF Index!Embed
    <3>2. CASE vectors' = vectors /\ had' = had
      BY <2>1, <3>1, <3>2
    <3>3. CASE vectors' = vectors \cup {drawn'} /\ had' = [v \in Workers |-> had[v] \cup {drawn'}]
      <4>1. \A v \in Workers : had'[v] = had[v] \cup {drawn'} /\ had'[v] \subseteq 1..drawn'
        BY <2>1, <3>3
      <4>2. \A v \in Workers : vectors \subseteq had[v] => vectors' \subseteq had'[v]
        BY <3>3, <4>1
      <4>3. had' \in [Workers -> SUBSET (1..drawn')]
        BY <3>3, <4>1
      <4> QED
        BY <3>1, <4>2, <4>3
    <3> QED
      BY <1>3, <3>2, <3>3 DEF Index!Embed
  <2>3. losses' \in 0..MaxLosses /\ overlaps' \in 0..MaxOverlaps /\ indexFaults' \in 0..IndexFaults
    BY <1>3 DEF Index!Embed
  <2>4. PICK s \in {"check", "idle"}, i \in 0..drawn' :
          Index!To(w, s, i) /\ (s = "idle" => i = 0) /\ (s = "check" => i = drawn')
    BY <1>3, <2>1 DEF Index!Embed
  <2>5. /\ indexPc' \in [Workers -> Index!Steps] /\ id' \in [Workers -> 0..drawn']
        /\ indexPc'[w] = s /\ id'[w] = i
        /\ \A v \in Workers \ {w} : indexPc'[v] = indexPc[v] /\ id'[v] = id[v]
    BY <2>1, <2>4
  <2>6. Index!TypeOK'
    BY <2>1, <2>2, <2>3, <2>5
  <2>7. HandInv(w)'
    BY <1>3, <2>1, <2>2, <2>4, <2>5 DEF Index!Embed
  <2>8. ASSUME NEW v \in Workers \ {w} PROVE HandInv(v)'
    BY <1>3, <2>1, <2>2, <2>5, <2>8
  <2> QED
    BY <2>6, <2>7, <2>8
<1>4. ASSUME NEW w \in Workers, Index!Check(w)
      PROVE  Index!TypeOK' /\ \A v \in Workers : HandInv(v)'
  BY <1>4 DEF Index!Check
<1>5. ASSUME NEW w \in Workers, Index!Save(w)
      PROVE  Index!TypeOK' /\ \A v \in Workers : HandInv(v)'
  <2>1. id[w] \in 1..drawn /\ fileRecords' = fileRecords \cup {id[w]}
        /\ UNCHANGED <<vectors, drawn, had, indexed, losses, overlaps>>
    BY <1>5 DEF Index!Save
  <2>2. PICK s \in {"publish", "idle"}, i \in {id[w], 0} :
          Index!To(w, s, i) /\ (s = "idle" => i = 0) /\ (s = "publish" => i = id[w])
    BY <1>5 DEF Index!Save
  <2>3. indexFaults' \in 0..IndexFaults
    BY <1>5 DEF Index!Save
  <2>4. Index!TypeOK'
    <3>1. indexPc' \in [Workers -> Index!Steps] /\ id' \in [Workers -> 0..drawn]
      BY <2>1, <2>2
    <3> QED
      BY <2>1, <2>3, <3>1
  <2>5. ASSUME NEW v \in Workers PROVE HandInv(v)'
    BY <1>5, <2>1, <2>2, <2>5 DEF Index!Save
  <2> QED
    BY <2>4, <2>5
<1>6. ASSUME NEW w \in Workers, Index!Publish(w)
      PROVE  Index!TypeOK' /\ \A v \in Workers : HandInv(v)'
  <2>1. id[w] \in fileRecords /\ Index!To(w, "idle", 0)
        /\ UNCHANGED <<vectors, fileRecords, drawn, had, indexFaults, losses, overlaps>>
    BY <1>6 DEF Index!Publish
  <2>2. indexed' \subseteq fileRecords
    BY <1>6, <2>1 DEF Index!Publish
  <2>3. Index!TypeOK'
    <3>1. indexPc' \in [Workers -> Index!Steps] /\ id' \in [Workers -> 0..drawn]
      BY <2>1
    <3> QED
      BY <2>1, <2>2, <3>1
  <2>4. ASSUME NEW v \in Workers PROVE HandInv(v)'
    BY <1>6, <2>1, <2>4 DEF Index!Publish
  <2> QED
    BY <2>3, <2>4
<1>7. ASSUME NEW w \in Workers, Index!Fail(w)
      PROVE  Index!TypeOK' /\ \A v \in Workers : HandInv(v)'
  BY <1>7 DEF Index!Fail
<1>8. CASE Index!LoseVectors
  BY <1>8 DEF Index!LoseVectors
<1>9. CASE UNCHANGED indexVars
  BY <1>9 DEF indexVars
<1> QED
  BY <1>1, <1>2, <1>3, <1>4, <1>5, <1>6, <1>7, <1>8, <1>9 DEF Index!Next

\* The change that one worker's step makes in the number of those that try.
LEMMA OneMoves ==
  ASSUME NEW w \in Workers, Apart(w), IsFiniteSet(Trying)
  PROVE  /\ IsFiniteSet(Trying') /\ Cardinality(Trying') \in Nat /\ Cardinality(Trying) \in Nat
         /\ IsFiniteSet(Embedding') /\ Cardinality(Embedding') \in Nat
         /\ IsFiniteSet(Embedding) /\ Cardinality(Embedding) \in Nat
         /\ Cardinality(Trying') <= Cardinality(Trying) + 1
         /\ Cardinality(Embedding') <= Cardinality(Embedding) + 1
         /\ (w \in Trying' => w \in Trying) => Cardinality(Trying') <= Cardinality(Trying)
         /\ (w \in Embedding' => w \in Embedding) =>
              Cardinality(Embedding') <= Cardinality(Embedding)
         /\ w \in Trying \ Trying' => Cardinality(Trying') + 1 <= Cardinality(Trying)
         /\ w \in Embedding \ Embedding' => Cardinality(Embedding') + 1 <= Cardinality(Embedding)
<1>1. Embedding \subseteq Trying /\ IsFiniteSet(Embedding)
  BY FS_Subset DEF Embedding, Trying
<1>2. /\ Trying' \subseteq Trying \cup {w} /\ Embedding' \subseteq Embedding \cup {w}
      /\ (w \in Trying' => w \in Trying) => Trying' \subseteq Trying
      /\ (w \in Embedding' => w \in Embedding) => Embedding' \subseteq Embedding
      /\ w \notin Trying' => Trying' \subseteq Trying \ {w}
      /\ w \notin Embedding' => Embedding' \subseteq Embedding \ {w}
  BY DEF Trying, Embedding, Apart
<1>3. /\ IsFiniteSet(Trying') /\ Cardinality(Trying') \in Nat /\ Cardinality(Trying) \in Nat
      /\ Cardinality(Trying') <= Cardinality(Trying) + 1
      /\ Trying' \subseteq Trying => Cardinality(Trying') <= Cardinality(Trying)
  BY <1>2, OneMore, Zenon
<1>4. /\ IsFiniteSet(Embedding') /\ Cardinality(Embedding') \in Nat /\ Cardinality(Embedding) \in Nat
      /\ Cardinality(Embedding') <= Cardinality(Embedding) + 1
      /\ Embedding' \subseteq Embedding => Cardinality(Embedding') <= Cardinality(Embedding)
  BY <1>1, <1>2, OneMore, Zenon
<1>5. ASSUME w \in Trying \ Trying' PROVE Cardinality(Trying') + 1 <= Cardinality(Trying)
  BY <1>2, <1>5, OneLess, Zenon
<1>6. ASSUME w \in Embedding \ Embedding' PROVE Cardinality(Embedding') + 1 <= Cardinality(Embedding)
  BY <1>1, <1>2, <1>6, OneLess, Zenon
<1> QED
  BY <1>1, <1>2, <1>3, <1>4, <1>5, <1>6

\* The bounds are numbers.
LEMMA IndexCounts ==
  ASSUME IndexInv
  PROVE  /\ IsFiniteSet(Embedding)
         /\ Cardinality(fileRecords) \in Nat /\ Cardinality(Trying) \in Nat
         /\ Cardinality(Embedding) \in Nat /\ Cardinality(Index!Orphans) \in Nat
         /\ overlaps \in Nat /\ losses \in Nat /\ indexFaults \in Nat
<1>1. Embedding \subseteq Trying
  BY DEF Embedding, Trying
<1>2. IsFiniteSet(Embedding) /\ Cardinality(Embedding) \in Nat
  BY <1>1, FS_Subset, FS_CardinalityType DEF IndexInv, IndexFinite
<1> QED
  BY <1>2, FS_CardinalityType DEF IndexInv, IndexFinite, Index!TypeOK

\* What nobody has in hand any more was left by a failure.
LEMMA OrphansCounted ==
  ASSUME IndexInv, Index!TypeOK', [Index!Next]_indexVars
  PROVE  IsFiniteSet(Index!Orphans') /\ Cardinality(Index!Orphans') <= indexFaults'
<1> USE DEF Index!To, Index!Faulty
<1>1. Index!TypeOK /\ IsFiniteSet(Index!Orphans) /\ Cardinality(Index!Orphans) <= indexFaults
      /\ indexFaults \in Nat /\ indexFaults' \in Nat /\ \A w \in Workers : HandInv(w)
  BY DEF IndexInv, IndexFinite, Index!TypeOK
<1>2. ASSUME Index!Orphans' \subseteq Index!Orphans, indexFaults' >= indexFaults
      PROVE  IsFiniteSet(Index!Orphans') /\ Cardinality(Index!Orphans') <= indexFaults'
  <2>1. IsFiniteSet(Index!Orphans') /\ Cardinality(Index!Orphans') <= Cardinality(Index!Orphans)
    BY <1>1, <1>2, FS_Subset
  <2>2. Cardinality(Index!Orphans') \in Nat /\ Cardinality(Index!Orphans) \in Nat
    BY <1>1, <2>1, FS_CardinalityType
  <2> QED
    BY <1>1, <1>2, <2>1, <2>2
<1>3. ASSUME NEW x, Index!Orphans' \subseteq Index!Orphans \cup {x}, indexFaults' = indexFaults + 1
      PROVE  IsFiniteSet(Index!Orphans') /\ Cardinality(Index!Orphans') <= indexFaults'
  <2>1. /\ IsFiniteSet(Index!Orphans') /\ Cardinality(Index!Orphans') <= Cardinality(Index!Orphans) + 1
        /\ Cardinality(Index!Orphans') \in Nat /\ Cardinality(Index!Orphans) \in Nat
    BY <1>1, <1>3, OneMore, Zenon
  <2> QED
    BY <1>1, <1>3, <2>1
\* Only what the worker had in hand, or just embedded, can be new among the orphans.
<1>4. ASSUME NEW w \in Workers, Apart(w), NEW x,
             vectors' \subseteq vectors \cup {x}, fileRecords \subseteq fileRecords',
             id[w] \in Index!Orphans' => id[w] = x
      PROVE  Index!Orphans' \subseteq Index!Orphans \cup {x}
  BY <1>4 DEF Index!Orphans, Apart
<1>5. ASSUME NEW w \in Workers, Apart(w), vectors' \subseteq vectors,
             fileRecords \subseteq fileRecords', id[w] \notin Index!Orphans'
      PROVE  Index!Orphans' \subseteq Index!Orphans
  BY <1>5 DEF Index!Orphans, Apart
<1>6. 0 \notin Index!Orphans'
  BY DEF Index!Orphans, Index!TypeOK
<1>7. ASSUME NEW w \in Workers, Index!Begin(w)
      PROVE  IsFiniteSet(Index!Orphans') /\ Cardinality(Index!Orphans') <= indexFaults'
  <2>1. Apart(w) /\ id[w] = 0
    BY <1>1, <1>7 DEF Index!Begin, Apart, HandInv, Index!TypeOK
  <2> QED
    BY <1>1, <1>2, <1>5, <1>6, <1>7, <2>1 DEF Index!Begin
<1>8. ASSUME NEW w \in Workers, Index!Verify(w)
      PROVE  IsFiniteSet(Index!Orphans') /\ Cardinality(Index!Orphans') <= indexFaults'
  <2>1. Apart(w) /\ id[w] \in fileRecords'
    BY <1>1, <1>8 DEF Index!Verify, Apart, HandInv, Index!TypeOK
  <2> QED
    BY <1>1, <1>2, <1>5, <1>8, <2>1 DEF Index!Verify, Index!Orphans
<1>9. ASSUME NEW w \in Workers, Index!Embed(w)
      PROVE  IsFiniteSet(Index!Orphans') /\ Cardinality(Index!Orphans') <= indexFaults'
  <2>1. Apart(w) /\ id[w] = 0
    BY <1>1, <1>9 DEF Index!Embed, Apart, HandInv, Index!TypeOK
  <2>2. Index!Orphans' \subseteq Index!Orphans \cup {drawn'}
    <3>1. vectors' \subseteq vectors \cup {drawn'} /\ fileRecords' = fileRecords
      BY <1>9 DEF Index!Embed
    <3> QED
      BY <1>4, <1>6, <2>1, <3>1
  <2>3. CASE indexFaults' = indexFaults + 1
    BY <1>3, <2>2, <2>3
  <2>4. CASE Index!To(w, "check", drawn') /\ UNCHANGED indexFaults
    <3>1. id'[w] = drawn'
      BY <1>1, <2>4 DEF Index!TypeOK
    <3>2. Index!Orphans' \subseteq Index!Orphans
      BY <2>2, <3>1 DEF Index!Orphans
    <3> QED
      BY <1>1, <1>2, <2>4, <3>2
  <2> QED
    BY <1>9, <2>3, <2>4 DEF Index!Embed
<1>10. ASSUME NEW w \in Workers, Index!Check(w)
      PROVE  IsFiniteSet(Index!Orphans') /\ Cardinality(Index!Orphans') <= indexFaults'
  <2>1. Apart(w) /\ (id[w] \notin vectors' \/ id'[w] = id[w])
    BY <1>1, <1>10 DEF Index!Check, Index!HasVectors, Apart, Index!TypeOK
  <2> QED
    BY <1>1, <1>2, <1>5, <1>10, <2>1 DEF Index!Check, Index!Orphans
<1>11. ASSUME NEW w \in Workers, Index!Save(w)
      PROVE  IsFiniteSet(Index!Orphans') /\ Cardinality(Index!Orphans') <= indexFaults'
  <2>1. Apart(w) /\ id[w] \in fileRecords' /\ indexFaults' >= indexFaults
    BY <1>1, <1>11 DEF Index!Save, Apart, Index!TypeOK
  <2> QED
    BY <1>2, <1>5, <1>11, <2>1 DEF Index!Save, Index!Orphans
<1>12. ASSUME NEW w \in Workers, Index!Publish(w)
      PROVE  IsFiniteSet(Index!Orphans') /\ Cardinality(Index!Orphans') <= indexFaults'
  <2>1. Apart(w) /\ id[w] \in fileRecords'
    BY <1>1, <1>12 DEF Index!Publish, Apart, HandInv, Index!TypeOK
  <2> QED
    BY <1>1, <1>2, <1>5, <1>12, <2>1 DEF Index!Publish, Index!Orphans
<1>13. ASSUME NEW w \in Workers, Index!Fail(w)
      PROVE  IsFiniteSet(Index!Orphans') /\ Cardinality(Index!Orphans') <= indexFaults'
  <2>1. Apart(w)
    BY <1>1, <1>13 DEF Index!Fail, Apart, Index!TypeOK
  <2> QED
    BY <1>3, <1>4, <1>13, <2>1 DEF Index!Fail
<1>14. CASE Index!LoseVectors
  BY <1>1, <1>2, <1>14 DEF Index!LoseVectors, Index!Orphans
<1>15. CASE UNCHANGED indexVars
  BY <1>1, <1>2, <1>15 DEF indexVars, Index!Orphans
<1> QED
  BY <1>7, <1>8, <1>9, <1>10, <1>11, <1>12, <1>13, <1>14, <1>15 DEF Index!Next

\* How many files there are, how many workers may add one and what is to spare, step by
\* step.
LEMMA AccountKept ==
  ASSUME IndexInv, Index!TypeOK', [Index!Next]_indexVars
  PROVE  IsFiniteSet(fileRecords') /\ IsFiniteSet(Trying') /\ Account' /\ BeforeLoss'
<1> DEFINE Kept == IsFiniteSet(fileRecords') /\ IsFiniteSet(Trying') /\ Account' /\ BeforeLoss'
           F == Cardinality(fileRecords)
           T == Cardinality(Trying)
           E == Cardinality(Embedding)
<1>1. /\ F \in Nat /\ T \in Nat /\ E \in Nat
      /\ IsFiniteSet(fileRecords) /\ IsFiniteSet(Trying) /\ IsFiniteSet(Embedding)
      /\ overlaps \in Nat /\ losses \in Nat /\ indexFaults \in Nat
      /\ Index!TypeOK /\ Account /\ BeforeLoss /\ \A w \in Workers : HandInv(w)
  BY IndexCounts DEF IndexInv, IndexFinite
<1>2. overlaps' \in Nat /\ losses' \in Nat /\ indexFaults' \in Nat
  BY DEF Index!TypeOK
<1>3. ASSUME F' \in Nat, T' \in Nat,
             \/ F' + T' <= F + T /\ Bound' >= Bound + 1
             \/ F' + T' + 1 <= F + T /\ Bound' >= Bound
             \/ F' + T' <= F + T /\ Bound' >= Bound /\ (Spare' => Spare)
             \/ F' + T' <= F + T + 1 /\ Bound' >= Bound + 1 /\ (Spare' => Spare)
             \/ F' + T' <= F + T + 1 /\ Bound' >= Bound /\ Spare /\ ~Spare'
      PROVE  Account'
  <2>1. Bound \in Nat /\ Bound' \in Nat
    <3>1. \A o, l, f \in Nat : 1 + o + l + f \in Nat
      OBVIOUS
    <3> QED
      BY <1>1, <1>2, <3>1, Zenon DEF Bound
  <2>2. F + T <= Bound /\ (Spare => F + T + 1 <= Bound)
    BY <1>1, Zenon DEF Account, Used
  <2>3. F' + T' <= Bound' /\ (Spare' => F' + T' + 1 <= Bound')
    <3> HIDE DEF F, T
    <3>1. ASSUME Spare' PROVE F' + T' + 1 <= Bound'
      <4>1. \/ F' + T' <= F + T /\ Bound' >= Bound + 1
            \/ F' + T' + 1 <= F + T /\ Bound' >= Bound
            \/ F' + T' <= F + T /\ Bound' >= Bound /\ F + T + 1 <= Bound
            \/ F' + T' <= F + T + 1 /\ Bound' >= Bound + 1 /\ F + T + 1 <= Bound
        BY <1>3, <2>2, <3>1, Zenon
      <4>2. F + T <= Bound
        BY <2>2, Zenon
      <4>3. F \in Nat /\ T \in Nat /\ F' \in Nat /\ T' \in Nat
        BY <1>1, <1>3, Zenon
      <4>4. \A f, t, b, g, u, c \in Nat :
              /\ f + t <= b
              /\ \/ g + u <= f + t /\ c >= b + 1
                 \/ g + u + 1 <= f + t /\ c >= b
                 \/ g + u <= f + t /\ c >= b /\ f + t + 1 <= b
                 \/ g + u <= f + t + 1 /\ c >= b + 1 /\ f + t + 1 <= b
              => g + u + 1 <= c
        OBVIOUS
      <4> QED
        BY <2>1, <4>1, <4>2, <4>3, <4>4, Zenon
    <3>2. F' + T' <= Bound'
      <4>1. \/ F' + T' <= F + T /\ Bound' >= Bound
            \/ F' + T' <= F + T /\ Bound' >= Bound + 1
            \/ F' + T' + 1 <= F + T /\ Bound' >= Bound
            \/ F' + T' <= F + T + 1 /\ Bound' >= Bound + 1
            \/ F' + T' <= F + T + 1 /\ Bound' >= Bound /\ F + T + 1 <= Bound
        BY <1>3, <2>2, Zenon
      <4>2. F + T <= Bound
        BY <2>2, Zenon
      <4>3. F \in Nat /\ T \in Nat /\ F' \in Nat /\ T' \in Nat
        BY <1>1, <1>3, Zenon
      <4>4. \A f, t, b, g, u, c \in Nat :
              /\ f + t <= b
              /\ \/ g + u <= f + t /\ c >= b
                 \/ g + u <= f + t /\ c >= b + 1
                 \/ g + u + 1 <= f + t /\ c >= b
                 \/ g + u <= f + t + 1 /\ c >= b + 1
                 \/ g + u <= f + t + 1 /\ c >= b /\ f + t + 1 <= b
              => g + u <= c
        OBVIOUS
      <4> QED
        BY <2>1, <4>1, <4>2, <4>3, <4>4, Zenon
    <3> QED
      BY <3>1, <3>2, Zenon
  <2> QED
    BY <2>3, Zenon DEF Account, Used
\* The worker's own part in what is to spare.
<1>4. ASSUME NEW w \in Workers, Apart(w), vectors' = vectors, ~Hopeless(w)'
      PROVE  (\E v \in Workers : Hopeless(v)') => (\E v \in Workers : Hopeless(v))
  BY <1>4 DEF Apart, Hopeless
<1>5. ASSUME NEW w \in Workers, Apart(w), vectors' = vectors, indexed' = indexed,
             Hopeless(w)' => Hopeless(w), Hopeful(w) => Hopeful(w)'
      PROVE  Spare' => Spare
  BY <1>5 DEF Apart, Hopeless, Hopeful, Spare, Good
<1>6. ASSUME NEW w \in Workers, Index!Begin(w) PROVE Kept
  <2>1. /\ Apart(w) /\ indexPc[w] = "idle" /\ indexPc'[w] \in {"verify", "embed"}
        /\ indexPc'[w] = "embed" => fileRecords = {}
        /\ UNCHANGED <<vectors, fileRecords, indexed, losses, indexFaults>>
    BY <1>1, <1>6 DEF Index!Begin, Index!FindFile, Index!To, Apart, Index!TypeOK
  <2>2. ~Hopeless(w)' /\ Hopeful(w)' /\ ~Good
    BY <1>6, <2>1 DEF Hopeless, Hopeful, Good, Index!Begin
  <2>3. (Spare' => \E v \in Workers : Hopeless(v)) /\ (Spare' => Spare)
    BY <1>4, <2>1, <2>2 DEF Spare
  <2>4. /\ IsFiniteSet(Trying') /\ T' \in Nat /\ T' <= T + 1
        /\ E' \in Nat /\ E' <= E + 1
        /\ (w \in Embedding' => w \in Embedding) => E' <= E
    BY <1>1, <2>1, OneMoves
  <2>5. CASE Index!Busy(w)
    <3>1. overlaps' = overlaps + 1 /\ F' = F
      BY <1>6, <2>1, <2>5 DEF Index!Begin
    <3>2. Bound' = Bound + 1 /\ F' + T' <= F + T + 1
      BY <1>1, <2>1, <2>4, <3>1 DEF Bound
    <3>3. Account'
      BY <1>1, <1>3, <2>3, <2>4, <3>1, <3>2
    <3>4. BeforeLoss'
      <4>1. \A v \in Workers : losses = 0 => ~Hopeless(v)'
        BY <1>1, <1>4, <2>1, <2>2 DEF BeforeLoss
      <4> QED
        BY <1>1, <2>1, <2>4, <3>1, <4>1 DEF BeforeLoss
    <3> QED
      BY <1>1, <2>1, <2>4, <3>3, <3>4
  <2>6. CASE ~Index!Busy(w)
    <3>1. \A v \in Workers : indexPc[v] = "idle"
      BY <2>1, <2>6 DEF Index!Busy
    <3>2. \A v \in Workers : ~Hopeful(v) /\ ~Hopeless(v)
      BY <3>1 DEF Hopeful, Hopeless
    <3>3. Spare /\ ~Spare'
      BY <2>2, <2>3, <3>2 DEF Spare
    <3>4. overlaps' = overlaps /\ F' = F /\ Bound' = Bound
      BY <1>6, <2>1, <2>6 DEF Index!Begin, Bound
    <3>5. Bound' >= Bound /\ F' + T' <= F + T + 1
      BY <1>1, <2>4, <3>4 DEF Bound
    <3>6. Account'
      BY <1>1, <1>3, <2>4, <3>3, <3>4, <3>5
    <3>7. Embedding = {}
      BY <3>1 DEF Embedding
    <3>8. E = 0
      BY <3>7, FS_EmptySet
    <3>9. F' + E' <= 1 + overlaps \/ losses # 0
      <4>1. CASE indexPc'[w] = "embed"
        <5>1. F = 0
          BY <2>1, <4>1, FS_EmptySet
        <5> QED
          BY <1>1, <2>4, <3>4, <3>8, <5>1
      <4>2. CASE indexPc'[w] = "verify"
        <5>1. w \notin Embedding'
          BY <4>2 DEF Embedding
        <5> QED
          BY <1>1, <2>4, <3>4, <3>8, <5>1 DEF BeforeLoss
      <4> QED
        BY <2>1, <4>1, <4>2
    <3>10. BeforeLoss'
      <4>1. \A v \in Workers : ~Hopeless(v)'
        BY <1>4, <2>1, <2>2, <3>2
      <4> QED
        BY <1>1, <2>1, <3>4, <3>9, <4>1 DEF BeforeLoss
    <3> QED
      BY <1>1, <2>1, <2>4, <3>6, <3>10
  <2> QED
    BY <2>5, <2>6
<1>7. ASSUME NEW w \in Workers, Index!Verify(w) PROVE Kept
  <2>1. /\ Apart(w) /\ indexPc[w] = "verify" /\ id[w] \in fileRecords
        /\ UNCHANGED <<vectors, fileRecords, indexed, losses, indexFaults, overlaps>>
    BY <1>1, <1>7 DEF Index!Verify, Index!To, Apart, Index!TypeOK, HandInv
  <2>2. w \in Trying /\ Hopeful(w) /\ ~Hopeless(w)
    BY <2>1 DEF Trying, Hopeful, Hopeless
  <2>3. \/ indexPc'[w] = "publish" /\ id'[w] = id[w] /\ id[w] \in vectors
        \/ indexPc'[w] = "embed" /\ id[w] \notin vectors
    BY <1>1, <1>7, <2>1
       DEF Index!Verify, Index!To, Index!TypeOK, Index!Verifies, Index!HasVectors
  <2>4. Hopeful(w)' /\ ~Hopeless(w)'
    BY <2>1, <2>3 DEF Hopeful, Hopeless
  <2>5. Spare' => Spare
    BY <1>5, <2>1, <2>2, <2>4
  <2>6. IsFiniteSet(Trying') /\ T' \in Nat /\ T' <= T /\ E' \in Nat /\ E' <= E + 1
        /\ ((w \in Embedding' => w \in Embedding) => E' <= E)
    BY <1>1, <2>1, <2>2, OneMoves
  <2>7. F' = F /\ Bound' = Bound /\ F' + T' <= F + T /\ Bound' >= Bound
    BY <1>1, <2>1, <2>6 DEF Bound
  <2>8. Account'
    BY <1>1, <1>3, <2>5, <2>6, <2>7
  <2>9. BeforeLoss'
    <3>1. ASSUME losses = 0 PROVE w \notin Embedding'
      BY <1>1, <2>1, <2>3, <3>1 DEF BeforeLoss, Embedding
    <3>2. ASSUME losses = 0 PROVE \A v \in Workers : ~Hopeless(v)'
      BY <1>1, <1>4, <2>1, <2>4, <3>2 DEF BeforeLoss
    <3> QED
      BY <1>1, <2>1, <2>6, <2>7, <3>1, <3>2 DEF BeforeLoss
  <2> QED
    BY <1>1, <2>1, <2>6, <2>8, <2>9
\* Who fails makes room for what the next one adds.
<1>8. ASSUME NEW w \in Workers, Apart(w), indexFaults' = indexFaults + 1,
             vectors \subseteq vectors', indexPc'[w] = "idle",
             UNCHANGED <<fileRecords, losses, overlaps>>
      PROVE  Kept
  <2>1. w \notin Trying' /\ w \notin Embedding' /\ ~Hopeless(w)'
    BY <1>8 DEF Trying, Embedding, Hopeless
  <2>2. IsFiniteSet(Trying') /\ T' \in Nat /\ T' <= T /\ E' \in Nat /\ E' <= E
    BY <1>1, <1>8, <2>1, OneMoves
  <2>3. F' = F /\ F' + T' <= F + T /\ Bound' >= Bound + 1
    BY <1>1, <1>8, <2>2 DEF Bound
  <2>4. Account'
    BY <1>1, <1>3, <2>2, <2>3
  <2>5. BeforeLoss'
    <3>1. ASSUME losses = 0 PROVE \A v \in Workers : ~Hopeless(v)'
      BY <1>1, <1>8, <2>1, <3>1 DEF BeforeLoss, Hopeless, Apart
    <3> QED
      BY <1>1, <1>8, <2>2, <2>3, <3>1 DEF BeforeLoss
  <2> QED
    BY <1>1, <1>8, <2>2, <2>4, <2>5
<1>9. ASSUME NEW w \in Workers, Index!Embed(w) PROVE Kept
  <2>1. /\ Apart(w) /\ indexPc[w] = "embed" /\ vectors \subseteq vectors'
        /\ UNCHANGED <<fileRecords, indexed, losses, overlaps>>
    BY <1>1, <1>9 DEF Index!Embed, Index!To, Apart, Index!TypeOK
  <2>2. CASE Index!To(w, "idle", 0) /\ Index!Faulty
    BY <1>1, <1>8, <2>1, <2>2 DEF Index!To, Index!Faulty, Index!TypeOK
  <2>3. CASE /\ Index!To(w, "check", drawn') /\ UNCHANGED indexFaults
             /\ vectors' = vectors \cup {drawn'}
    <3>1. indexPc'[w] = "check" /\ id'[w] = drawn'
      BY <1>1, <2>3 DEF Index!To, Index!TypeOK
    <3>2. w \in Trying /\ w \in Embedding /\ Hopeful(w) /\ Hopeful(w)' /\ ~Hopeless(w)'
      BY <2>1, <2>3, <3>1 DEF Trying, Embedding, Hopeful, Hopeless
    <3>3. \A v \in Workers : Hopeless(v)' => Hopeless(v)
      BY <2>1, <3>2 DEF Hopeless, Apart
    <3>4. Spare' => Spare
      BY <3>2, <3>3 DEF Spare
    <3>5. IsFiniteSet(Trying') /\ T' \in Nat /\ T' <= T /\ E' \in Nat /\ E' <= E
      BY <1>1, <2>1, <3>2, OneMoves
    <3>6. F' = F /\ F' + T' <= F + T /\ Bound' >= Bound
      BY <1>1, <2>1, <2>3, <3>5 DEF Bound
    <3>7. Account'
      BY <1>1, <1>3, <3>4, <3>5, <3>6
    <3>8. BeforeLoss'
      BY <1>1, <2>1, <3>3, <3>5, <3>6 DEF BeforeLoss
    <3> QED
      BY <1>1, <2>1, <3>5, <3>7, <3>8
  <2> QED
    BY <1>9, <2>2, <2>3 DEF Index!Embed
<1>10. ASSUME NEW w \in Workers, Index!Check(w) PROVE Kept
  <2>1. /\ Apart(w) /\ indexPc[w] = "check"
        /\ UNCHANGED <<vectors, fileRecords, indexed, losses, indexFaults, overlaps>>
    BY <1>1, <1>10 DEF Index!Check, Index!To, Apart, Index!TypeOK
  <2>2. \/ indexPc'[w] = "save" /\ id'[w] = id[w] /\ id[w] \in vectors
        \/ indexPc'[w] = "idle"
    BY <1>1, <1>10, <2>1 DEF Index!Check, Index!To, Index!TypeOK, Index!HasVectors
  <2>3. w \in Trying /\ w \in Embedding /\ ~Hopeless(w)'
    BY <2>1, <2>2 DEF Trying, Embedding, Hopeless
  <2>4. IsFiniteSet(Trying') /\ T' \in Nat /\ T' <= T /\ E' \in Nat /\ E' <= E
        /\ (w \notin Trying' => T' + 1 <= T)
    BY <1>1, <2>1, <2>3, OneMoves
  <2>5. F' = F /\ Bound' >= Bound
    BY <1>1, <2>1 DEF Bound
  <2>6. F' + T' + 1 <= F + T \/ (F' + T' <= F + T /\ (Spare' => Spare))
    <3>1. CASE w \notin Trying'
      BY <1>1, <2>4, <2>5, <3>1
    <3>2. CASE w \in Trying'
      <4>1. Hopeful(w)'
        BY <2>2, <2>3, <3>2 DEF Trying, Hopeful
      <4> QED
        BY <1>1, <1>5, <2>1, <2>3, <2>4, <2>5, <4>1
    <3> QED
      BY <3>1, <3>2
  <2>7. Account'
    BY <1>1, <1>3, <2>4, <2>5, <2>6
  <2>8. BeforeLoss'
    <3>1. ASSUME losses = 0 PROVE \A v \in Workers : ~Hopeless(v)'
      BY <1>1, <1>4, <2>1, <2>3, <3>1 DEF BeforeLoss
    <3> QED
      BY <1>1, <2>1, <2>4, <2>5, <3>1 DEF BeforeLoss
  <2> QED
    BY <1>1, <2>1, <2>4, <2>7, <2>8
<1>11. ASSUME NEW w \in Workers, Index!Save(w) PROVE Kept
  <2>1. /\ Apart(w) /\ indexPc[w] = "save" /\ fileRecords' = fileRecords \cup {id[w]}
        /\ UNCHANGED <<vectors, indexed, losses, overlaps>>
    BY <1>1, <1>11 DEF Index!Save, Index!To, Apart, Index!TypeOK
  <2>2. \/ indexPc'[w] = "publish" /\ id'[w] = id[w] /\ indexFaults' = indexFaults
        \/ indexPc'[w] = "idle" /\ indexFaults' = indexFaults + 1
    BY <1>1, <1>11, <2>1 DEF Index!Save, Index!To, Index!TypeOK, Index!Faulty
  <2>3. w \in Trying \ Trying' /\ w \in Embedding \ Embedding' /\ (Hopeless(w)' => Hopeless(w))
    BY <2>1, <2>2 DEF Trying, Embedding, Hopeless
  <2>4. /\ IsFiniteSet(Trying') /\ T' \in Nat /\ T' + 1 <= T
        /\ E' \in Nat /\ E' + 1 <= E
    BY <1>1, <2>1, <2>3, OneMoves
  <2>5. IsFiniteSet(fileRecords') /\ F' \in Nat /\ F' <= F + 1
    BY <1>1, <2>1, OneMore, Zenon
  <2>6. F' + T' <= F + T /\ (losses = 0 => F' + E' <= F + E)
    BY <1>1, <2>4, <2>5
  <2>7. Bound' >= Bound + 1 \/ (Bound' >= Bound /\ (Spare' => Spare))
    <3>1. CASE indexFaults' = indexFaults + 1
      BY <1>1, <2>1, <3>1 DEF Bound
    <3>2. CASE indexPc'[w] = "publish" /\ indexFaults' = indexFaults /\ id'[w] = id[w]
      <4>1. Hopeful(w) => Hopeful(w)'
        BY <2>1, <3>2 DEF Hopeful, Hopeless
      <4>2. Spare' => Spare
        BY <1>5, <2>1, <2>3, <4>1
      <4>3. Bound' >= Bound
        BY <1>1, <2>1, <3>2 DEF Bound
      <4> QED
        BY <4>2, <4>3
    <3> QED
      BY <2>2, <3>1, <3>2
  <2>8. Account'
    BY <1>1, <1>3, <2>4, <2>5, <2>6, <2>7
  <2>9. BeforeLoss'
    <3>1. ASSUME losses = 0 PROVE id[w] \in vectors /\ \A v \in Workers : ~Hopeless(v)'
      BY <1>1, <1>4, <2>1, <2>3, <3>1 DEF BeforeLoss, Hopeless
    <3>2. ASSUME losses = 0 PROVE F' + E' <= 1 + overlaps
      BY <1>1, <2>4, <2>5, <2>6, <3>2 DEF BeforeLoss
    <3> QED
      BY <1>1, <2>1, <3>1, <3>2 DEF BeforeLoss
  <2> QED
    BY <2>4, <2>5, <2>8, <2>9
<1>12. ASSUME NEW w \in Workers, Index!Publish(w) PROVE Kept
  <2>1. /\ Apart(w) /\ indexPc[w] = "publish" /\ indexPc'[w] = "idle" /\ id[w] \in fileRecords
        /\ UNCHANGED <<vectors, fileRecords, losses, indexFaults, overlaps>>
    BY <1>1, <1>12 DEF Index!Publish, Index!To, Apart, Index!TypeOK, HandInv
  <2>2. w \notin Trying' /\ w \notin Embedding' /\ ~Hopeless(w)'
    BY <2>1 DEF Trying, Embedding, Hopeless
  <2>3. Spare' => Spare
    <3>1. CASE \E v \in Workers : Hopeless(v)'
      BY <1>4, <2>1, <2>2, <3>1 DEF Spare
    <3>2. CASE (~Good)' /\ \A v \in Workers : ~Hopeful(v)'
      <4>1. CASE id[w] \notin vectors
        BY <2>1, <4>1 DEF Hopeless, Spare
      <4>2. CASE id[w] \in vectors
        <5>1. ~(indexed' = {id[w]})
          BY <2>1, <3>2, <4>2 DEF Good
        <5>2. Index!Busy(w)
          BY <1>12, <2>1, <4>2, <5>1 DEF Index!Publish, Index!Verifies, Index!HasVectors
        <5>3. PICK v \in Workers \ {w} : indexPc[v] # "idle"
          BY <5>2 DEF Index!Busy
        <5>4. indexPc'[v] = indexPc[v] /\ id'[v] = id[v]
          BY <2>1 DEF Apart
        <5>5. Hopeless(v)
          BY <2>1, <3>2, <5>3, <5>4 DEF Hopeless, Hopeful
        <5> QED
          BY <5>5 DEF Spare
      <4> QED
        BY <4>1, <4>2
    <3> QED
      BY <3>1, <3>2 DEF Spare
  <2>4. IsFiniteSet(Trying') /\ T' \in Nat /\ T' <= T /\ E' \in Nat /\ E' <= E
    BY <1>1, <2>1, <2>2, OneMoves
  <2>5. F' = F /\ Bound' >= Bound /\ F' + T' <= F + T
    BY <1>1, <2>1, <2>4 DEF Bound
  <2>6. Account'
    BY <1>1, <1>3, <2>3, <2>4, <2>5
  <2>7. BeforeLoss'
    <3>1. ASSUME losses = 0 PROVE \A v \in Workers : ~Hopeless(v)'
      BY <1>1, <1>4, <2>1, <2>2, <3>1 DEF BeforeLoss
    <3> QED
      BY <1>1, <2>1, <2>4, <2>5, <3>1 DEF BeforeLoss
  <2> QED
    BY <1>1, <2>1, <2>4, <2>6, <2>7
<1>13. ASSUME NEW w \in Workers, Index!Fail(w) PROVE Kept
  BY <1>1, <1>8, <1>13 DEF Index!Fail, Index!To, Index!Faulty, Apart, Index!TypeOK
<1>14. ASSUME UNCHANGED indexPc, UNCHANGED fileRecords
       PROVE  Trying' = Trying /\ Embedding' = Embedding /\ F' = F
  BY <1>14 DEF Trying, Embedding
<1>15. CASE Index!LoseVectors
  <2>1. losses' = losses + 1 /\ UNCHANGED <<indexPc, fileRecords, overlaps, indexFaults>>
    BY <1>15 DEF Index!LoseVectors
  <2>2. T' = T /\ F' + T' <= F + T /\ Bound' >= Bound + 1
    BY <1>1, <1>14, <2>1 DEF Bound
  <2>3. Account'
    BY <1>1, <1>3, <1>14, <2>1, <2>2
  <2>4. BeforeLoss'
    BY <1>1, <2>1 DEF BeforeLoss
  <2> QED
    BY <1>1, <1>14, <2>1, <2>3, <2>4
<1>16. CASE UNCHANGED indexVars
  <2>1. Trying' = Trying /\ Embedding' = Embedding /\ UNCHANGED indexVars
    BY <1>14, <1>16 DEF indexVars
  <2>2. Spare' = Spare /\ Bound' = Bound /\ Used' = Used
    BY <2>1 DEF indexVars, Spare, Bound, Used, Good, Hopeful, Hopeless
  <2>3. Account' /\ BeforeLoss'
    BY <1>1, <2>1, <2>2 DEF Account, BeforeLoss, Hopeless, indexVars
  <2> QED
    BY <1>1, <2>1, <2>3 DEF indexVars
<1> QED
  BY <1>6, <1>7, <1>9, <1>10, <1>11, <1>12, <1>13, <1>15, <1>16 DEF Index!Next

\* Whatever failed, died or was lost before, a text has at most one file more than its
\* overlaps account for until vectors are lost, and after that one for each loss or failure
\* at most; and what the revision names had its vectors while it was being published.  For
\* any workers and bounds (index in nativeIndex.ts, publish in sync.ts).
THEOREM TextsIndexedOnce == PartsSpec => IndexedOnce
<1>1. IndexInv /\ [PartsNext]_partVars => IndexInv'
  <2> SUFFICES ASSUME IndexInv, [PartsNext]_partVars PROVE IndexInv'
    OBVIOUS
  <2>1. [Index!Next]_indexVars
    BY OthersRest
  <2>2. Index!TypeOK' /\ \A w \in Workers : HandInv(w)'
    BY <2>1, IndexHands DEF IndexInv
  <2>3. IsFiniteSet(Index!Orphans') /\ Cardinality(Index!Orphans') <= indexFaults'
    BY <2>1, <2>2, OrphansCounted
  <2>4. IsFiniteSet(fileRecords') /\ IsFiniteSet(Trying') /\ Account' /\ BeforeLoss'
    BY <2>1, <2>2, AccountKept
  <2> QED
    BY <2>2, <2>3, <2>4 DEF IndexInv, IndexFinite
<1>2. IndexInv => Index!NothingWasted
  <2> SUFFICES ASSUME IndexInv PROVE Index!NothingWasted
    OBVIOUS
  <2>1. /\ Cardinality(fileRecords) \in Nat /\ Cardinality(Trying) \in Nat
        /\ Cardinality(Embedding) \in Nat
        /\ overlaps \in Nat /\ losses \in Nat /\ indexFaults \in Nat
    BY IndexCounts
  <2>2. Cardinality(fileRecords) <= 1 + overlaps + losses + indexFaults
    BY <2>1 DEF IndexInv, Account, Used, Bound
  <2>3. losses = 0 => Cardinality(fileRecords) <= 1 + overlaps
    BY <2>1 DEF IndexInv, BeforeLoss
  <2>4. Cardinality(fileRecords) <= 1 + overlaps + (IF losses = 0 THEN 0 ELSE losses + indexFaults)
    BY <2>1, <2>2, <2>3
  <2>5. \A S : Index!Cardinality(S) = Cardinality(S)
    BY Zenon DEF Cardinality, Index!Cardinality
  <2> QED
    BY <2>4, <2>5 DEF Index!NothingWasted, IndexInv
<1>3. IndexInv /\ [PartsNext]_partVars =>
        [indexed' # indexed => \E w \in Workers : indexPc[w] = "publish" /\ indexed' = {id[w]}
                                                /\ id[w] \in had[w]]_indexVars
  <2> SUFFICES ASSUME IndexInv, [Index!Next]_indexVars, indexed' # indexed
               PROVE  \E w \in Workers : indexPc[w] = "publish" /\ indexed' = {id[w]}
                                         /\ id[w] \in had[w]
    BY OthersRest
  <2>1. PICK w \in Workers : Index!Publish(w)
    BY DEF Index!Next, Index!Begin, Index!Verify, Index!Embed, Index!Check, Index!Save,
           Index!Fail, Index!LoseVectors, indexVars
  <2>2. indexPc[w] = "publish" /\ indexed' = {id[w]} /\ id[w] \in vectors
    BY <2>1 DEF Index!Publish, Index!Verifies, Index!HasVectors
  <2>3. vectors \subseteq had[w]
    BY <2>2 DEF IndexInv, HandInv
  <2> QED
    BY <2>2, <2>3
<1> QED
  BY IndexStarts, <1>1, <1>2, <1>3, PTL
     DEF PartsSpec, IndexedOnce, Index!NamedWereThere, Index!vars, indexVars
=============================================================================
