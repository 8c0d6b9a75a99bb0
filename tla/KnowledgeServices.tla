-------------------------- MODULE KnowledgeServices --------------------------
(***************************************************************************)
(* The components that serve and feed the knowledge base and share no      *)
(* state in the models, side by side: a behaviour exercises one of them,   *)
(* chosen at the beginning, while the others rest.  The states are the sum *)
(* of theirs, and one run checks them all.  The search is the extended     *)
(* module, the others are instances with their bounds.  The guard of a     *)
(* stream is here for its liveness, with one dependency and timers that    *)
(* are in time; the run stream has the rest.                               *)
(***************************************************************************)
EXTENDS KnowledgeSearch

CONSTANTS
  Parts,                        \* the parts that may be exercised
  Readers, Workers, Callers, Writers, Viewers, Local, Dependencies, Starter,
  Agents, Configured, MaxRevision, MaxEpoch, MaxSwitches, Deletable,  \* of the reader
  Poll, Reconcile, TickTime, MaxRequests, MaxQueue,                 \* of the schedule
  Life, Margin, Retries, MaxTokens, MaxRefusals, Timeout, Delay,    \* of the client
  MaxIds, IndexFaults, MaxLosses, MaxOverlaps,                      \* of the index
  MaxSpoils, BlobFaults                                             \* of the blob store

VARIABLES
  part,
  source, doc, stored, published, agents, files, listed, denied, switches, readerPc, read,
  phase, polled, scanned, taken, queue, running, workerPc, tickAge, wish,
    requests, late, failed,
  left, lag, issued, void, granted, access, usable, flight, heard, refusals, callerPc, holds,
    attempt, age, refused,
  vectors, fileRecords, drawn, indexPc, id, had, indexed, indexFaults, losses, overlaps,
  place, temporary, writerPc, good, answer, spoils, blobFaults,
  answering, stopped, record, context, valid, jobContext, jobStop, job, viewerPc, shares, last,
    came,
  guardStopped, disposed, verified, checking, started, yes, no, armed, untilPoll, checkPc,
    allowed, silent, asked

readerVars == <<source, doc, stored, published, agents, files, listed, denied, switches,
                readerPc, read>>
scheduleVars == <<phase, polled, scanned, taken, queue, running, workerPc, tickAge,
                  wish, requests, late, failed>>
feishuVars == <<left, lag, issued, void, granted, access, usable, flight, heard, refusals,
                callerPc, holds, attempt, age, refused>>
indexVars == <<vectors, fileRecords, drawn, indexPc, id, had, indexed, indexFaults, losses,
               overlaps>>
blobVars == <<place, temporary, writerPc, good, answer, spoils, blobFaults>>
generationVars == <<answering, stopped, record, context, valid, jobContext, jobStop, job,
                    viewerPc, shares, last, came>>
guardVars == <<guardStopped, disposed, verified, checking, started, yes, no, armed, untilPoll,
               checkPc, allowed, silent, asked>>

Reader == INSTANCE KnowledgeReader WITH pc <- readerPc
Schedule == INSTANCE KnowledgeSchedule WITH pc <- workerPc, age <- tickAge
Feishu == INSTANCE FeishuClient WITH pc <- callerPc
Index == INSTANCE NativeIndex WITH
  files <- fileRecords, pc <- indexPc, faults <- indexFaults, MaxFaults <- IndexFaults
Blob == INSTANCE BlobStore WITH pc <- writerPc, faults <- blobFaults, MaxFaults <- BlobFaults
Generation == INSTANCE KnowledgeGeneration WITH pc <- viewerPc, phase <- answering, late <- came
Guard == INSTANCE KnowledgeStreamGuard WITH
  stopped <- guardStopped, running <- checking, granted <- yes, refused <- no, pc <- checkPc,
  Interval <- 2, Timeout <- 3, MaxAge <- 6, Deadline <- 8, MaxLag <- 0

ASSUME PartsAssumption ==
  /\ Parts \subseteq {"search", "reader", "schedule", "feishu", "index", "blob", "generation",
                "guard"}
  /\ Reader!ReaderAssumption /\ Schedule!ScheduleAssumption /\ Feishu!ClientAssumption
  /\ Index!IndexAssumption /\ Blob!BlobAssumption

PartsInit ==
  /\ part \in Parts
  /\ Init /\ Reader!Init /\ Schedule!Init /\ Feishu!Init /\ Index!Init /\ Blob!Init
  /\ Generation!Init /\ Guard!Init
  /\ part # "search" => current = None
  /\ part # "schedule" => phase = 0

\* The step is the named part's, and the others rest.
Only(name) ==
  /\ part = name /\ UNCHANGED part
  /\ name # "search" => UNCHANGED vars
  /\ name # "reader" => UNCHANGED readerVars
  /\ name # "schedule" => UNCHANGED scheduleVars
  /\ name # "feishu" => UNCHANGED feishuVars
  /\ name # "index" => UNCHANGED indexVars
  /\ name # "blob" => UNCHANGED blobVars
  /\ name # "generation" => UNCHANGED generationVars
  /\ name # "guard" => UNCHANGED guardVars

PartsNext ==
  \/ Only("search") /\ Next
  \/ Only("reader") /\ Reader!Next
  \/ Only("schedule") /\ Schedule!Next
  \/ Only("feishu") /\ Feishu!Next
  \/ Only("index") /\ Index!Next
  \/ Only("blob") /\ Blob!Next
  \/ Only("generation") /\ Generation!Next
  \/ Only("guard") /\ Guard!Next

partVars == <<part, vars, readerVars, scheduleVars, feishuVars, indexVars, blobVars,
              generationVars, guardVars>>

\* The fairness that each module states, while its part is exercised.
PartsFairness ==
  /\ WF_vars(part = "search" /\ Start) /\ WF_vars(part = "search" /\ Read)
  /\ WF_vars(part = "search" /\ Settle)
  /\ \A c \in Calls : WF_vars(part = "search" /\ Scan(c))
  /\ WF_scheduleVars(part = "schedule" /\ Schedule!Pass)
  /\ WF_scheduleVars(part = "schedule" /\ (Schedule!Succeed \/ Schedule!Fail))
  /\ \A w \in Workers : WF_scheduleVars(part = "schedule" /\ Schedule!Tick(w))
  /\ WF_feishuVars(part = "feishu" /\ (Feishu!Issue \/ Feishu!RefuseToken \/ Feishu!LoseToken))
  /\ \A c \in Callers :
       /\ WF_feishuVars(part = "feishu" /\ (Feishu!Answer(c) \/ Feishu!Refuse(c) \/ Feishu!Lose(c)))
       /\ WF_feishuVars(part = "feishu" /\ Feishu!Resend(c))
       /\ WF_guardVars(part = "guard" /\ Guard!AskAgain(c))
  /\ \A v \in Viewers :
       WF_generationVars(part = "generation" /\ Generation!ViewerChecks(v))
  /\ WF_guardVars(part = "guard" /\ Guard!Tick) /\ WF_guardVars(part = "guard" /\ Guard!CheckFails)
  /\ WF_guardVars(part = "guard" /\ Guard!Arm) /\ WF_guardVars(part = "guard" /\ Guard!PollFires)

PartsSpec == PartsInit /\ [][PartsNext]_partVars /\ PartsFairness

-----------------------------------------------------------------------------
(***************************************************************************)
(* Properties of the parts, by the names of this run                       *)
(***************************************************************************)

\* store.ts: what is returned was served, and allowed after it had been read.
ReturnedWasReadable == Reader!ReturnedWasReadable

\* store.ts: whenever the source is on, the files of the Agent whose list was written last,
\* if the source still names it, are those of the documents in service.
EnabledFilesExact == Reader!EnabledFilesExact

\* sync.ts: a run that is due is queued in time, and by no more ticks than there are workers.
DueIsQueued == Schedule!DueIsQueued

\* sync.ts: a full scan that is due is started, though runs fail.
FullScanComes == []<>(part = "schedule" => scanned < Reconcile \/ running.mode = "full")

\* feishu.ts: who is refused was refused by Feishu, or was slower than the margin, and a
\* refused token is not reused.
AuthIsTrue == Feishu!AuthIsTrue

\* feishu.ts: every call that waits for a token ends.
RequestsEnd == Feishu!CallsEnd

\* nativeIndex.ts: a retry finds what was done, and a revision names only vectors that
\* were there while it was being published.
IndexedOnce == []Index!NothingWasted /\ Index!NamedWereThere

\* blob.ts: put returns only once the whole content is in place, and only the disk spoils
\* it.
PutWasThere == Blob!PutWasThere

\* KnowledgeStream.js: in one process a generation and its viewers stop together.
StopIsShared == Generation!StopIsShared

\* KnowledgeStream.js: who comes while an answer is written checks its documents first.
LateViewersKnow == Generation!LateViewersKnow

\* KnowledgeStream.js: a withdrawal, or a stop code in the job, ends every stream that
\* can know of it.
StreamsEnd == Generation!StreamsEnd

\* stream.ts: no call of checkNow waits for ever, though no dependency ever answers.
CallsReturn == Guard!CallsReturn
=============================================================================
