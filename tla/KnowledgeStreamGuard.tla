----------------------- MODULE KnowledgeStreamGuard -----------------------
(***************************************************************************)
(* The guard of an answer stream (createKnowledgeStreamGuard in stream.ts):*)
(* while an answer is produced, the user's access and the state of the     *)
(* knowledge it uses are checked again and again, and output is allowed    *)
(* for a limited time after the start of the last check that passed.       *)
(*                                                                         *)
(* A step is what the event loop runs without a break.  The answers of the *)
(* two dependencies are read in MongoDB at one moment and arrive at a      *)
(* later one.  Instants are kept as the time since them, so that the clock *)
(* needs no bound.  A timer never fires early; MaxLag says how late it may *)
(* be.                                                                     *)
(***************************************************************************)
EXTENDS Integers

CONSTANTS
  Dependencies,  \* checkAccess and assertKnowledgeCurrent
  Callers,       \* calls of checkNow
  Starter,       \* the one that start makes
  Interval,      \* ticks between polls (1000 ms)
  Timeout,       \* ticks that a check may take (1500 ms)
  MaxAge,        \* ticks that a check counts for (3000 ms)
  Deadline,      \* ticks within which a stream must have stopped
  MaxLag         \* ticks by which a timer may be late

Never == -1

ASSUME GuardAssumption ==
  /\ Starter \in Callers
  /\ Interval \in Nat /\ Timeout \in Nat /\ MaxAge \in Nat /\ MaxLag \in Nat
  /\ Deadline \in Nat /\ MaxAge <= Deadline

VARIABLES
  stopped,     \* there is a reason
  disposed,
  verified,    \* the time since verified, when the last check that passed started
  running,     \* a check is pending
  started,     \* the time since its start
  granted,     \* the dependencies that said yes in it
  refused,     \* one of them said no, or failed
  armed,       \* the interval is set
  untilPoll,   \* the time until it fires
  pc,          \* where each call is
  allowed,     \* whether the dependency would say yes
  silent,      \* the time since it last would have
  asked        \* what was read since the call was made, for each call

guardVars == <<stopped, disposed, verified>>
checkVars == <<running, started, granted, refused>>
timerVars == <<armed, untilPoll>>
worldVars == <<allowed, silent>>
vars == <<guardVars, checkVars, timerVars, pc, worldVars, asked>>

Steps == {"idle", "prior", "again", "own", "arming", "passed", "failed"}

TypeOK ==
  /\ stopped \in BOOLEAN /\ disposed \in BOOLEAN
  /\ verified \in 0..MaxAge \cup {Never}
  /\ running \in BOOLEAN /\ started \in 0..Timeout + MaxLag
  /\ granted \subseteq Dependencies /\ refused \in BOOLEAN
  /\ armed \in BOOLEAN /\ untilPoll \in -MaxLag..Interval
  /\ pc \in [Callers -> Steps]
  /\ allowed \in [Dependencies -> BOOLEAN]
  /\ silent \in [Dependencies -> 0..Deadline]
  /\ asked \in [Callers -> SUBSET Dependencies]

Init ==
  /\ stopped = FALSE /\ disposed = FALSE /\ verified = Never
  /\ running = FALSE /\ started = 0 /\ granted = {} /\ refused = FALSE
  /\ armed = FALSE /\ untilPoll = 0
  /\ pc = [c \in Callers |-> "idle"]
  /\ allowed = [x \in Dependencies |-> TRUE]
  /\ silent = [x \in Dependencies |-> 0]
  /\ asked = [c \in Callers |-> {}]

-----------------------------------------------------------------------------

Closed == stopped \/ disposed

\* allowWrite says yes.
MayWrite == ~Closed /\ verified # Never /\ verified < MaxAge
\* allowWrite finds the last check too old, and stops the stream.
Expired == ~Closed /\ verified # Never /\ verified >= MaxAge

\* stop: final, and it clears the interval.
Stop == stopped' = TRUE /\ armed' = FALSE

\* refresh starts a check, unless one is pending already.
BeginCheck ==
  /\ running' = TRUE /\ started' = 0
  /\ granted' = {} /\ refused' = FALSE
Refresh == IF running THEN UNCHANGED checkVars ELSE BeginCheck

\* checkNow: wait for the pending check, if there is one, and then ask again.
Call(c) ==
  /\ pc[c] = "idle"
  /\ asked' = [asked EXCEPT ![c] = {}]
  /\ \/ Closed /\ pc' = [pc EXCEPT ![c] = "failed"] /\ UNCHANGED checkVars
     \/ ~Closed /\ running /\ pc' = [pc EXCEPT ![c] = "prior"] /\ UNCHANGED checkVars
     \/ ~Closed /\ ~running /\ pc' = [pc EXCEPT ![c] = "own"] /\ BeginCheck
  /\ UNCHANGED <<guardVars, timerVars, worldVars>>

AskAgain(c) ==
  /\ pc[c] = "again"
  /\ \/ Closed /\ pc' = [pc EXCEPT ![c] = "failed"] /\ UNCHANGED checkVars
     \/ ~Closed /\ pc' = [pc EXCEPT ![c] = "own"] /\ Refresh
  /\ UNCHANGED <<guardVars, timerVars, worldVars, asked>>

\* A dependency is read.
Read(x) ==
  /\ running /\ ~refused /\ x \notin granted
  /\ \/ allowed[x] /\ granted' = granted \cup {x} /\ UNCHANGED refused
     \/ ~allowed[x] /\ refused' = TRUE /\ UNCHANGED granted
  /\ asked' = [c \in Callers |-> asked[c] \cup {x}]
  /\ UNCHANGED <<guardVars, running, started, timerVars, pc, worldVars>>

\* A dependency cannot be read.
ReadFails ==
  /\ running /\ ~refused
  /\ refused' = TRUE
  /\ UNCHANGED <<guardVars, running, started, granted, timerVars, pc, worldVars, asked>>

\* A slip: the check that was pending when checkNow was called will do.
EndCheckForAll(passed) ==
  /\ running' = FALSE /\ started' = 0 /\ granted' = {} /\ refused' = FALSE
  /\ pc' = [c \in Callers |->
       IF pc[c] \notin {"prior", "own"} THEN pc[c]
       ELSE IF ~passed THEN "failed"
       ELSE IF c = Starter THEN "arming" ELSE "passed"]
  /\ UNCHANGED <<disposed, untilPoll, worldVars, asked>>

\* The pending check ends, for all who wait for it, and forgets what it knew.
EndCheck(passed) ==
  /\ running' = FALSE /\ started' = 0 /\ granted' = {} /\ refused' = FALSE
  /\ pc' = [c \in Callers |->
       IF pc[c] \notin {"prior", "own"} THEN pc[c]
       ELSE IF ~passed THEN "failed"
       ELSE IF pc[c] = "prior" THEN "again"
       ELSE IF c = Starter THEN "arming" ELSE "passed"]
  /\ UNCHANGED <<disposed, untilPoll, worldVars, asked>>

Capped(t, cap) == IF t < cap THEN t ELSE cap

\* A slip: the check counts from its answer.
VerifiedNow == 0

\* The check counts from its start.
VerifiedSince == Capped(started, MaxAge)

\* Both answers are there.
Answered ==
  /\ running /\ ~refused /\ granted = Dependencies
  /\ \/ /\ Closed
        /\ EndCheck(FALSE) /\ UNCHANGED <<stopped, verified, armed>>
     \/ /\ ~Closed
        /\ verified' = VerifiedSince
        /\ \/ started < MaxAge /\ EndCheck(TRUE) /\ UNCHANGED <<stopped, armed>>
           \/ started >= MaxAge /\ EndCheck(FALSE) /\ Stop

\* A slip: a check that hears nothing waits on.
FailedOnAnswer == refused

\* A refusal or a failure arrives, or the timer wins the race.
Failed == refused \/ started >= Timeout

CheckFails ==
  /\ running /\ Failed
  /\ EndCheck(FALSE)
  /\ IF Closed THEN UNCHANGED <<stopped, armed>> ELSE Stop
  /\ UNCHANGED verified

\* start goes on after its check and sets the interval; stop or dispose may have
\* come in between.
Arm ==
  /\ pc[Starter] = "arming"
  /\ armed' = TRUE /\ untilPoll' = Interval
  /\ pc' = [pc EXCEPT ![Starter] = "passed"]
  /\ UNCHANGED <<guardVars, checkVars, worldVars, asked>>

PollFires ==
  /\ armed /\ untilPoll <= 0
  /\ untilPoll' = Interval
  /\ \/ MayWrite /\ Refresh /\ UNCHANGED <<stopped, armed>>
     \/ Expired /\ Stop /\ UNCHANGED checkVars
     \/ ~MayWrite /\ ~Expired /\ UNCHANGED <<stopped, armed, checkVars>>
  /\ UNCHANGED <<disposed, verified, pc, worldVars, asked>>

\* The writer asks allowWrite and finds that time is up.
WriteTooLate ==
  /\ Expired
  /\ Stop
  /\ UNCHANGED <<disposed, verified, checkVars, untilPoll, pc, worldVars, asked>>

\* The generation is aborted, or its other stream stops.
StopFromOutside ==
  /\ ~Closed
  /\ Stop
  /\ UNCHANGED <<disposed, verified, checkVars, untilPoll, pc, worldVars, asked>>

Dispose ==
  /\ ~disposed
  /\ disposed' = TRUE /\ armed' = FALSE
  /\ UNCHANGED <<stopped, verified, checkVars, untilPoll, pc, worldVars, asked>>

\* Access is withdrawn or given back, the source is paused or changes.
Change(x) ==
  /\ allowed' = [allowed EXCEPT ![x] = ~@]
  /\ silent' = [silent EXCEPT ![x] = 0]
  /\ UNCHANGED <<guardVars, checkVars, timerVars, pc, asked>>

\* Time passes, unless a timer would be later than MaxLag.
Tick ==
  /\ running => started < Timeout + MaxLag
  /\ armed => untilPoll > -MaxLag
  /\ pc[Starter] # "arming"
  /\ verified' = IF verified = Never THEN Never ELSE Capped(verified + 1, MaxAge)
  /\ started' = IF running THEN started + 1 ELSE started
  /\ untilPoll' = IF armed THEN untilPoll - 1 ELSE untilPoll
  /\ silent' = [x \in Dependencies |->
       IF allowed[x] THEN 0 ELSE Capped(silent[x] + 1, Deadline)]
  /\ UNCHANGED <<stopped, disposed, running, granted, refused, armed, pc, allowed, asked>>

Next ==
  \/ \E c \in Callers : Call(c) \/ AskAgain(c)
  \/ \E x \in Dependencies : Read(x) \/ Change(x)
  \/ ReadFails \/ Answered \/ CheckFails
  \/ Arm \/ PollFires \/ WriteTooLate \/ StopFromOutside \/ Dispose
  \/ Tick

Spec == Init /\ [][Next]_vars

\* Timers fire and microtasks run; whether an answer ever arrives is open.
Fairness ==
  /\ WF_vars(Tick) /\ WF_vars(CheckFails) /\ WF_vars(Arm) /\ WF_vars(PollFires)
  /\ \A c \in Callers : WF_vars(AskAgain(c))
FairSpec == Spec /\ Fairness

-----------------------------------------------------------------------------
(***************************************************************************)
(* Properties                                                              *)
(***************************************************************************)

\* Whatever the timers do, output is allowed only if each dependency would have
\* said yes less than MaxAge ago: slow answers, late timers and checks that overlap
\* a revocation do not stretch the window (refresh counts
\* from startedAt).
WriteWindow ==
  MayWrite => \A x \in Dependencies : silent[x] < MaxAge

\* checkNow returns only when both dependencies were read after it was called: a
\* check that was under way, for an older context perhaps, does not count.
CheckIsFresh == \A c \in Callers : pc[c] \in {"arming", "passed"} => asked[c] = Dependencies

\* With timers that are at most MaxLag late, a stream whose user lost access, or
\* whose knowledge changed, is stopped within Deadline, though nothing is written.
StoppedInTime ==
  armed /\ ~Closed => \A x \in Dependencies : silent[x] < Deadline

\* No call of checkNow waits for ever, though no dependency ever answers.
CallsReturn == \A c \in Callers : []<>(pc[c] \notin {"prior", "again", "own"})
=============================================================================
