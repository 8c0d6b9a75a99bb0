------------------------ MODULE KnowledgeGeneration ------------------------
(***************************************************************************)
(* The guards of one generation and of the streams attached to it          *)
(* (KnowledgeStream.js): the generation's guard and its record, which      *)
(* viewers in the same process share, and the metadata of the job, through *)
(* which viewers elsewhere, and those that came before the record, learn   *)
(* of the documents the answer rests on and of its stop.                   *)
(*                                                                         *)
(* What a guard does in time is KnowledgeStreamGuard's; here a check is    *)
(* one step, which reads the context and the documents.  Writes to the job *)
(* may fail in silence.                                                    *)
(***************************************************************************)
CONSTANTS
  Viewers,  \* attached streams
  Local     \* those in the process of the generation

VARIABLES
  phase,     \* where the generation is
  stopped,   \* its guard has a reason
  record,    \* generations holds its record
  context,   \* the answer rests on documents
  valid,     \* they may be used
  jobContext, jobStop, job,  \* the metadata of the job, and whether there is one
  pc,        \* where each viewer is
  shares,    \* the viewers that found the record
  last,      \* lastContext: the viewers that know the documents from the job
  late       \* the viewers that came while the answer was under way

generation == <<phase, record, context>>
metadata == <<jobContext, jobStop, job>>
vars == <<generation, stopped, valid, metadata, pc, shares, last, late>>

Init ==
  /\ phase = "init" /\ stopped = FALSE /\ record = FALSE
  /\ context = FALSE /\ valid = TRUE
  /\ jobContext = FALSE /\ jobStop = FALSE /\ job = TRUE
  /\ pc = [v \in Viewers |-> "out"] /\ shares = {} /\ last = {} /\ late = {}

-----------------------------------------------------------------------------

Attached(v) == pc[v] \in {"checking", "open"}

\* The guard is disposed of by then, and its stop does nothing.
Finished == phase = "ended"

\* A slip: who waits for its first check does not hear of the stop.
OpenOnes == {v \in shares : pc[v] = "open"}

\* The viewers that listen to the abort of the record's guard.
Listeners == {v \in shares : Attached(v)}

\* The generation's guard stops, and with it, at once, all who listen, and S.
StopAll(S) ==
  /\ stopped' = TRUE
  /\ pc' = [v \in Viewers |-> IF v \in Listeners \cup S THEN "stopped" ELSE pc[v]]

\* startKnowledgeGeneration: the record is there before the first check.
Start ==
  /\ phase = "init"
  /\ phase' = "starting" /\ record' = TRUE
  /\ UNCHANGED <<stopped, context, valid, metadata, pc, shares, last, late>>

\* A check of the generation's guard: the interval's, or the one that start or
\* captureKnowledgeContext waits for; a stop or a failure ends the latter two.
GenerationFails ==
  /\ phase \in {"starting", "preparing", "capturing", "emitting"}
  /\ ~stopped /\ StopAll({})
  /\ UNCHANGED <<generation, valid, metadata, shares, last, late>>

MayGoOn == ~stopped /\ (context => valid)

Prepare ==
  /\ phase = "starting" /\ MayGoOn
  /\ phase' = "preparing"
  /\ UNCHANGED <<stopped, record, context, valid, metadata, pc, shares, last, late>>

\* The answer's documents are found, in initializeClient.
FindDocuments ==
  /\ phase = "preparing" /\ ~context
  /\ context' = TRUE
  /\ UNCHANGED <<phase, record, stopped, valid, metadata, pc, shares, last, late>>

\* captureKnowledgeContext: check, then write the documents to the job.
Check ==
  /\ phase = "preparing" /\ MayGoOn
  /\ phase' = "capturing"
  /\ UNCHANGED <<stopped, record, context, valid, metadata, pc, shares, last, late>>

\* A slip: the answer goes on though the write failed.
CapturedOrNot == jobContext' \in {jobContext, context}

\* The write has to succeed.
Captured == jobContext' = context

Capture ==
  /\ phase = "capturing"
  /\ phase' = "emitting" /\ Captured
  /\ UNCHANGED <<stopped, record, context, valid, jobStop, job, pc, shares, last, late>>

\* The answer is complete, or a step fails: finishKnowledgeGeneration.
Finish ==
  /\ phase \notin {"init", "ended"}
  /\ phase' = "ended"
  /\ UNCHANGED <<stopped, record, context, valid, metadata, pc, shares, last, late>>

\* The stop code is written to the job, if the write succeeds.
WriteStopCode ==
  /\ stopped /\ job /\ ~jobStop
  /\ jobStop' = TRUE
  /\ UNCHANGED <<generation, stopped, valid, jobContext, job, pc, shares, last, late>>

\* The record is forgotten a minute after the end.
Forget ==
  /\ Finished /\ record
  /\ record' = FALSE
  /\ UNCHANGED <<phase, context, stopped, valid, metadata, pc, shares, last, late>>

\* The job is deleted in the end.
DeleteJob ==
  /\ Finished /\ job
  /\ job' = FALSE
  /\ UNCHANGED <<generation, stopped, valid, jobContext, jobStop, pc, shares, last, late>>

\* The documents change, or are taken off line.
Withdraw ==
  /\ valid /\ context
  /\ valid' = FALSE
  /\ UNCHANGED <<generation, stopped, metadata, pc, shares, last, late>>

-----------------------------------------------------------------------------

\* A stop that came before the listener is not heard of.
Refused(sharing) == jobStop \/ (sharing /\ stopped)

\* attachKnowledgeStream up to its first check.
Attach(v) ==
  /\ pc[v] = "out" /\ job
  /\ LET sharing == v \in Local /\ record IN
     /\ pc' = [pc EXCEPT ![v] = IF Refused(sharing) THEN "closed" ELSE "checking"]
     /\ shares' = IF sharing THEN shares \cup {v} ELSE shares
  /\ last' = IF jobContext THEN last \cup {v} ELSE last
  /\ late' = IF phase = "emitting" /\ context THEN late \cup {v} ELSE late
  /\ UNCHANGED <<generation, stopped, valid, metadata>>

\* getContext: from the record, from the job, or, when that is gone, the last it knew.
KnownNow(v) == IF v \in shares THEN context ELSE IF job THEN jobContext ELSE v \in last

\* A slip: the stop code is read when the viewer comes, and not again.
StopUnread(v) == v \in shares /\ stopped

\* getContext throws.
StopRead(v) == IF v \in shares THEN stopped ELSE job /\ jobStop

\* The guard of a viewer stops and takes the record's guard with it, if that still runs.
Stops(v) ==
  IF v \in shares /\ ~Finished THEN StopAll({v})
  ELSE pc' = [pc EXCEPT ![v] = "stopped"] /\ UNCHANGED stopped

\* A check of a viewer's guard.
ViewerChecks(v) ==
  /\ Attached(v)
  /\ last' = IF v \notin shares /\ KnownNow(v) THEN last \cup {v} ELSE last
  /\ IF StopRead(v) \/ (KnownNow(v) /\ ~valid)
     THEN Stops(v)
     ELSE pc' = [pc EXCEPT ![v] = "open"] /\ UNCHANGED stopped
  /\ UNCHANGED <<generation, valid, metadata, shares, late>>

\* It fails for a reason of its own: access, a timeout.
ViewerFails(v) ==
  /\ Attached(v)
  /\ Stops(v)
  /\ UNCHANGED <<generation, valid, metadata, shares, last, late>>

Leave(v) ==
  /\ Attached(v)
  /\ pc' = [pc EXCEPT ![v] = "closed"]
  /\ UNCHANGED <<generation, stopped, valid, metadata, shares, last, late>>

Next ==
  \/ Start \/ GenerationFails \/ Prepare \/ FindDocuments \/ Check \/ Capture \/ Finish
  \/ WriteStopCode \/ Forget \/ DeleteJob \/ Withdraw
  \/ \E v \in Viewers : Attach(v) \/ ViewerChecks(v) \/ ViewerFails(v) \/ Leave(v)

Spec == Init /\ [][Next]_vars

\* The interval of each guard goes on.
Fairness == \A v \in Viewers : WF_vars(ViewerChecks(v))
FairSpec == Spec /\ Fairness

-----------------------------------------------------------------------------
(***************************************************************************)
(* Properties                                                              *)
(***************************************************************************)

\* In one process a generation and its viewers stop together, whoever stops first and
\* however a viewer's attachment overlaps the stop (the abort listener and the check of
\* the reason in attachKnowledgeStream).
StopIsShared ==
  \A v \in shares :
    /\ stopped => ~Attached(v)
    /\ pc[v] = "stopped" => stopped \/ Finished

\* A viewer that comes while an answer is written from documents checks these documents
\* before it shows anything, wherever it is and though the job is deleted meanwhile
\* (captureKnowledgeContext comes before the answer, lastContext outlives the job).
LateViewersKnow ==
  \A v \in late : pc[v] = "open" => v \in shares \cup last

\* When the documents may no longer be used, every stream that knows of them ends, also
\* after the generation and its record are gone; a stop code in the job ends every stream,
\* as long as the job is there.
Overdue(v) ==
  pc[v] = "open" /\ ((~valid /\ v \in shares \cup last) \/ (jobStop /\ job))
StreamsEnd == []<>(\A v \in Viewers : ~Overdue(v))
=============================================================================
