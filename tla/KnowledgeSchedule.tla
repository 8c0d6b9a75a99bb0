------------------------- MODULE KnowledgeSchedule -------------------------
(***************************************************************************)
(* The schedule of synchronisation runs: tick and enqueue (knowledge/      *)
(* sync.ts and store.ts), called by every worker in an endless loop.       *)
(*                                                                         *)
(* A scheduled run is named by its mode and the poll interval in which it  *)
(* was asked for, its bucket; a name that exists is never enqueued again.  *)
(* Time is counted in units of which Poll make a bucket, and passes while  *)
(* workers are anywhere in their ticks: what a worker found due, and the   *)
(* bucket it read off its clock, may be old when it asks for the run.      *)
(* Ages are capped at the interval that makes a run due, and names of      *)
(* older buckets than the last are forgotten, as a tick takes at most a    *)
(* bucket.  The inside of a run is KnowledgeSync's.                        *)
(***************************************************************************)
EXTENDS Integers, Sequences, FiniteSets

CONSTANTS
  Workers,
  Poll,          \* pollIntervalMs
  Reconcile,     \* reconcileIntervalMs
  TickTime,      \* units that a tick may take, the run apart
  MaxRequests,   \* bound on the runs asked for by hand
  MaxQueue       \* bound on the runs that wait

\* The configuration allows Reconcile < Poll; full runs then come once in a bucket only.
ScheduleAssumption ==
  /\ Poll \in Nat \ {0} /\ Reconcile \in Nat /\ Reconcile >= Poll
  /\ TickTime \in 0..Poll
  /\ MaxRequests \in Nat /\ MaxQueue \in Nat \ {0}
  /\ Workers # {} /\ IsFiniteSet(Workers)

VARIABLES
  phase,      \* the time within the bucket
  polled,     \* the time since lastPollAt, at most Poll
  scanned,    \* the time since lastReconcileAt, at most Reconcile
  taken,      \* the modes whose names exist, for this bucket and the last
  queue,      \* the runs that are queued
  running,    \* the run that is running: at most one of them
  pc,         \* where each worker's tick is
  age,        \* the units since its tick began, or since the last one ended
  wish,       \* the run that it found due
  requests,
  late,       \* for how long a run has been due, its name free, and none queued or running
  failed      \* the modes whose runs by the names of this bucket have failed

vars == <<phase, polled, scanned, taken, queue, running, pc, age, wish, requests,
          late, failed>>

Modes == {"full", "incremental"}
Buckets == {"this", "last"}
\* The bucket of a run's name: this one, an earlier one, or none if it was asked for by hand.
Runs == [mode : Modes, bucket : Buckets \cup {"none"}]
NoRun == [mode |-> "none", bucket |-> "none"]
Scheduled(run) == run.bucket # "none"

TypeOK ==
  /\ phase \in 0..Poll - 1 /\ polled \in 0..Poll /\ scanned \in 0..Reconcile
  /\ taken \in [Buckets -> SUBSET Modes]
  /\ queue \in Seq(Runs) /\ Len(queue) <= MaxQueue
  /\ running \in Runs \cup {NoRun}
  /\ pc \in [Workers -> {"idle", "look", "enqueue", "process"}]
  /\ age \in [Workers -> Nat]
  /\ wish \in [Workers -> Runs \cup {NoRun}]
  /\ requests \in 0..MaxRequests /\ late \in Nat /\ failed \subseteq Modes

Init ==
  /\ phase \in 0..Poll - 1 /\ polled = Poll /\ scanned = Reconcile
  /\ taken = [b \in Buckets |-> {}]
  /\ queue = <<>> /\ running = NoRun
  /\ pc = [w \in Workers |-> "idle"] /\ age = [w \in Workers |-> 0]
  /\ wish = [w \in Workers |-> NoRun]
  /\ requests = 0 /\ late = 0 /\ failed = {}

-----------------------------------------------------------------------------

Active == queue # <<>> \/ running # NoRun

To(w, step, run) == pc' = [pc EXCEPT ![w] = step] /\ wish' = [wish EXCEPT ![w] = run]
Clock(w) == age' = [age EXCEPT ![w] = 0]

\* A slip: incremental runs come first.
DuePollFirst ==
  IF polled >= Poll THEN "incremental"
  ELSE IF scanned >= Reconcile THEN "full" ELSE "none"

\* What is due by the source's record, now.
Due == IF scanned >= Reconcile THEN "full"
       ELSE IF polled >= Poll THEN "incremental" ELSE "none"

\* tick reads the source and the clock.
ReadSource(w) ==
  /\ pc[w] = "idle"
  /\ To(w, "look", IF Due = "none" THEN NoRun ELSE [mode |-> Due, bucket |-> "this"])
  /\ Clock(w)
  /\ UNCHANGED <<phase, polled, scanned, taken, queue, running, requests, late, failed>>

\* It looks for a run that is queued or running.
Look(w) ==
  /\ pc[w] = "look"
  /\ IF ~Active /\ wish[w] # NoRun THEN To(w, "enqueue", wish[w]) ELSE To(w, "process", NoRun)
  /\ UNCHANGED <<phase, polled, scanned, taken, queue, running, age, requests, late,
                 failed>>

\* The unique index on the name; the loser of a race reads the winner's run.
Unnamed(w) == wish[w].mode \notin taken[wish[w].bucket]

\* enqueue inserts the run, or finds it, whatever has happened since it looked.
Enqueue(w) ==
  /\ pc[w] = "enqueue"
  /\ IF Unnamed(w)
     THEN /\ Len(queue) < MaxQueue
          /\ queue' = Append(queue, wish[w])
          /\ taken' = [taken EXCEPT ![wish[w].bucket] = @ \cup {wish[w].mode}]
          /\ late' = 0
     ELSE UNCHANGED <<queue, taken, late>>
  /\ To(w, "process", NoRun)
  /\ UNCHANGED <<phase, polled, scanned, running, age, requests, failed>>

\* processNext takes up the oldest run unless one is running, or finds nothing to do.
Process(w) ==
  /\ pc[w] = "process"
  /\ IF running = NoRun /\ queue # <<>>
     THEN running' = Head(queue) /\ queue' = Tail(queue)
     ELSE UNCHANGED <<running, queue>>
  /\ To(w, "idle", NoRun) /\ Clock(w)
  /\ UNCHANGED <<phase, polled, scanned, taken, requests, late, failed>>

\* A run ends well, and asks for another full scan if nodes are missing.
Succeed ==
  /\ running # NoRun
  /\ polled' = 0
  /\ scanned' = IF running.mode = "full" THEN 0 ELSE scanned
  /\ \/ UNCHANGED queue
     \/ /\ running.mode = "full" /\ Len(queue) < MaxQueue
        /\ queue' = Append(queue, [mode |-> "full", bucket |-> "none"])
  /\ running' = NoRun
  /\ UNCHANGED <<phase, taken, pc, age, wish, requests, late, failed>>

\* A run fails: its name stays.
Fail ==
  /\ running # NoRun
  /\ failed' = IF running.bucket = "this" THEN failed \cup {running.mode} ELSE failed
  /\ running' = NoRun
  /\ UNCHANGED <<phase, polled, scanned, taken, queue, pc, age, wish, requests, late>>

\* An administrator asks for a run, under a name of their own.
Request ==
  /\ requests < MaxRequests /\ requests' = requests + 1
  /\ Len(queue) < MaxQueue
  /\ \E m \in Modes : queue' = Append(queue, [mode |-> m, bucket |-> "none"])
  /\ late' = 0
  /\ UNCHANGED <<phase, polled, scanned, taken, running, pc, age, wish, failed>>

\* A slip: the name does not have the bucket.
NamedByMode == taken

\* The names of the new bucket are free.
NewNames == [this |-> {}, last |-> taken["this"]]

Aged(run) == IF run.bucket = "this" THEN [run EXCEPT !.bucket = "last"] ELSE run

\* What is due could be asked for, and has not been.
Waits == Due # "none" /\ Due \notin taken["this"] /\ ~Active

\* A unit of time passes, and a bucket with the last of its units.  A tick begins within
\* a unit of the last one, and takes its time; runs take any.
Pass ==
  /\ \A w \in Workers : age[w] < (IF pc[w] = "idle" THEN 1 ELSE TickTime)
  /\ age' = [w \in Workers |-> age[w] + 1]
  /\ polled' = IF polled < Poll THEN polled + 1 ELSE polled
  /\ scanned' = IF scanned < Reconcile THEN scanned + 1 ELSE scanned
  /\ late' = IF Waits THEN late + 1 ELSE 0
  /\ IF phase = Poll - 1
     THEN /\ phase' = 0 /\ taken' = NewNames /\ failed' = {}
          /\ wish' = [w \in Workers |-> Aged(wish[w])]
          /\ queue' = [i \in DOMAIN queue |-> Aged(queue[i])]
          /\ running' = Aged(running)
     ELSE phase' = phase + 1 /\ UNCHANGED <<taken, failed, wish, queue, running>>
  /\ UNCHANGED <<pc, requests>>

Tick(w) == ReadSource(w) \/ Look(w) \/ Enqueue(w) \/ Process(w)
Next == (\E w \in Workers : Tick(w)) \/ Succeed \/ Fail \/ Request \/ Pass

Spec == Init /\ [][Next]_vars
\* The loop of the worker goes on whatever a tick throws; runs end; time passes.
FairSpec == Spec /\ WF_vars(Pass) /\ WF_vars(Succeed \/ Fail)
                 /\ \A w \in Workers : WF_vars(Tick(w))

-----------------------------------------------------------------------------
(***************************************************************************)
(* Properties                                                              *)
(***************************************************************************)

\* Beyond what was asked for by hand and by runs that found nodes missing, no more runs
\* wait than there are workers.  Two may: of both modes, or of one mode in two buckets, when
\* two ticks find nothing queued and ask on either side of the moment.
OnePerWorker ==
  Cardinality({i \in DOMAIN queue : Scheduled(queue[i])}) <= Cardinality(Workers)

\* A run that is due, and whose name is free, is queued within the time of two ticks and
\* the unit between them; only the name of a run that failed in this bucket holds a run
\* up, though slow ticks ask for what is no longer due, under the name of a bucket that is
\* over; and such ticks do not fill the queue.  The windows of docs/boyankb/sync.md:82
\* rest on this.
DueIsQueued ==
  /\ late <= 2 * TickTime + 1
  /\ ~Active /\ Due \in taken["this"] => Due \in failed
  /\ OnePerWorker

\* A full scan that is due is started, even if run after run fails.
FullScanComes == []<>(scanned < Reconcile \/ running.mode = "full")
=============================================================================
