--------------------- MODULE KnowledgeStreamGuardProofs ---------------------
(***************************************************************************)
(* Theorems about KnowledgeStreamGuard, for any number of dependencies and *)
(* callers and any lengths of the timers.                                  *)
(***************************************************************************)
EXTENDS KnowledgeStreamGuard, TLAPS

-----------------------------------------------------------------------------

\* The time since an instant, in ticks, does not grow by more than one a tick.
LEMMA CappedGrows ==
  ASSUME NEW t \in Nat, NEW cap \in Nat
  PROVE  /\ Capped(t, cap) \in 0..cap
         /\ Capped(t, cap) <= t
         /\ Capped(t, cap) < cap => Capped(t, cap) = t
BY DEF Capped

\* The lengths of the timers.
LEMMA Lengths ==
  /\ Interval \in Nat /\ Timeout \in Nat /\ MaxAge \in Nat /\ MaxLag \in Nat
  /\ Deadline \in Nat /\ MaxAge <= Deadline
BY GuardAssumption DEF GuardAssumption

\* Every variable keeps its type: no check outlives its time limit by more than
\* the lag of the timer, and no instant is before the state it is measured in.
THEOREM TypeCorrect == Spec => []TypeOK
<1>0. /\ 0 \in 0..Timeout + MaxLag /\ 0 \in 0..Deadline
      /\ 0 \in -MaxLag..Interval /\ Interval \in -MaxLag..Interval
  BY Lengths
<1>1. Init => TypeOK
  <2> SUFFICES ASSUME Init PROVE TypeOK
    OBVIOUS
  <2>1. /\ stopped \in BOOLEAN /\ disposed \in BOOLEAN
        /\ verified \in 0..MaxAge \cup {Never}
        /\ running \in BOOLEAN /\ started \in 0..Timeout + MaxLag
        /\ granted \subseteq Dependencies /\ refused \in BOOLEAN
    BY <1>0 DEF Init
  <2>2. armed \in BOOLEAN /\ untilPoll \in -MaxLag..Interval
    BY <1>0 DEF Init
  <2>3. pc \in [Callers -> Steps]
    BY DEF Init, Steps
  <2>4. asked \in [Callers -> SUBSET Dependencies]
    BY DEF Init
  <2>5. allowed \in [Dependencies -> BOOLEAN]
    BY DEF Init
  <2>6. silent \in [Dependencies -> 0..Deadline]
    BY <1>0 DEF Init
  <2> QED  BY <2>1, <2>2, <2>3, <2>4, <2>5, <2>6 DEF TypeOK
<1>2. TypeOK /\ [Next]_vars => TypeOK'
  <2> SUFFICES ASSUME TypeOK, [Next]_vars
               PROVE  TypeOK'
    OBVIOUS
  <2> USE DEF TypeOK, guardVars, checkVars, timerVars, worldVars, Steps
  <2>1. ASSUME NEW c \in Callers PROVE Call(c) => TypeOK'
    <3> SUFFICES ASSUME Call(c) PROVE TypeOK'
      OBVIOUS
    <3>1. /\ running' \in BOOLEAN /\ started' \in 0..Timeout + MaxLag
          /\ granted' \subseteq Dependencies /\ refused' \in BOOLEAN
      BY <1>0 DEF Call, BeginCheck
    <3>2. pc' \in [Callers -> Steps]
      BY DEF Call
    <3>3. asked' \in [Callers -> SUBSET Dependencies]
      BY DEF Call
    <3> QED  BY <3>1, <3>2, <3>3 DEF Call
  <2>2. ASSUME NEW c \in Callers PROVE AskAgain(c) => TypeOK'
    <3> SUFFICES ASSUME AskAgain(c) PROVE TypeOK'
      OBVIOUS
    <3>1. /\ running' \in BOOLEAN /\ started' \in 0..Timeout + MaxLag
          /\ granted' \subseteq Dependencies /\ refused' \in BOOLEAN
      BY <1>0 DEF AskAgain, Refresh, BeginCheck
    <3>2. pc' \in [Callers -> Steps]
      BY DEF AskAgain
    <3> QED  BY <3>1, <3>2 DEF AskAgain
  <2>3. ASSUME NEW x \in Dependencies PROVE Read(x) => TypeOK'
    <3> SUFFICES ASSUME Read(x) PROVE TypeOK'
      OBVIOUS
    <3>1. granted' \subseteq Dependencies /\ refused' \in BOOLEAN
      BY DEF Read
    <3>2. asked' \in [Callers -> SUBSET Dependencies]
      BY DEF Read
    <3> QED  BY <3>1, <3>2 DEF Read
  <2>4. ReadFails => TypeOK'
    BY DEF ReadFails
  <2>5. Answered => TypeOK'
    <3> SUFFICES ASSUME Answered PROVE TypeOK'
      OBVIOUS
    <3>0. pc' \in [Callers -> Steps]
      BY DEF Answered, EndCheck
    <3>1. /\ running' = FALSE /\ started' = 0 /\ granted' = {} /\ refused' = FALSE
          /\ UNCHANGED <<disposed, untilPoll, worldVars, asked>>
      BY DEF Answered, EndCheck
    <3>2. VerifiedSince \in 0..MaxAge
      BY Lengths, CappedGrows DEF VerifiedSince
    <3>3. stopped' \in BOOLEAN /\ armed' \in BOOLEAN
      BY DEF Answered, Stop
    <3>4. verified' \in 0..MaxAge \cup {Never}
      BY <3>2 DEF Answered
    <3> QED  BY <1>0, <3>0, <3>1, <3>3, <3>4
  <2>6. CheckFails => TypeOK'
    <3> SUFFICES ASSUME CheckFails PROVE TypeOK'
      OBVIOUS
    <3>0. pc' \in [Callers -> Steps]
      BY DEF CheckFails, EndCheck
    <3>1. /\ running' = FALSE /\ started' = 0 /\ granted' = {} /\ refused' = FALSE
          /\ UNCHANGED <<disposed, untilPoll, worldVars, asked>>
      BY DEF CheckFails, EndCheck
    <3>2. stopped' \in BOOLEAN /\ armed' \in BOOLEAN /\ UNCHANGED verified
      BY DEF CheckFails, Stop
    <3> QED  BY <1>0, <3>0, <3>1, <3>2
  <2>7. Arm => TypeOK'
    BY <1>0 DEF Arm
  <2>8. PollFires => TypeOK'
    <3> SUFFICES ASSUME PollFires PROVE TypeOK'
      OBVIOUS
    <3>1. untilPoll' \in -MaxLag..Interval
      BY <1>0 DEF PollFires
    <3>2. /\ running' \in BOOLEAN /\ started' \in 0..Timeout + MaxLag
          /\ granted' \subseteq Dependencies /\ refused' \in BOOLEAN
      BY <1>0 DEF PollFires, Refresh, BeginCheck
    <3>3. stopped' \in BOOLEAN /\ armed' \in BOOLEAN
      BY DEF PollFires, Stop
    <3> QED  BY <3>1, <3>2, <3>3 DEF PollFires
  <2>9. WriteTooLate \/ StopFromOutside \/ Dispose => TypeOK'
    BY DEF WriteTooLate, StopFromOutside, Dispose, Stop
  <2>10. ASSUME NEW x \in Dependencies PROVE Change(x) => TypeOK'
    BY <1>0 DEF Change
  <2>11. Tick => TypeOK'
    <3> SUFFICES ASSUME Tick PROVE TypeOK'
      OBVIOUS
    <3>1. verified' \in 0..MaxAge \cup {Never}
      <4>1. CASE verified = Never
        BY <4>1 DEF Tick
      <4>2. CASE verified # Never
        BY <4>2, Lengths, CappedGrows DEF Tick
      <4> QED  BY <4>1, <4>2
    <3>2. started' \in 0..Timeout + MaxLag
      <4>1. CASE running
        BY <4>1, Lengths DEF Tick
      <4>2. CASE ~running
        BY <4>2 DEF Tick
      <4> QED  BY <4>1, <4>2
    <3>3. untilPoll' \in -MaxLag..Interval
      BY Lengths DEF Tick
    <3>4. ASSUME NEW x \in Dependencies
          PROVE  (IF allowed[x] THEN 0 ELSE Capped(silent[x] + 1, Deadline)) \in 0..Deadline
      <4>1. 0 \in 0..Deadline /\ silent[x] + 1 \in Nat
        BY <1>0
      <4>2. Capped(silent[x] + 1, Deadline) \in 0..Deadline
        BY <4>1, Lengths, CappedGrows
      <4> QED  BY <4>1, <4>2, Zenon
    <3>5. silent' \in [Dependencies -> 0..Deadline]
      BY <3>4 DEF Tick
    <3> QED  BY <3>1, <3>2, <3>3, <3>5 DEF Tick
  <2>12. UNCHANGED vars => TypeOK'
    BY DEF vars
  <2> QED
    BY <2>1, <2>2, <2>3, <2>4, <2>5, <2>6, <2>7, <2>8, <2>9, <2>10, <2>11, <2>12 DEF Next
<1> QED  BY <1>1, <1>2, PTL DEF Spec

-----------------------------------------------------------------------------
(***************************************************************************)
(* The window of writing.  A dependency that said yes in the pending check *)
(* did so after its start, so it has been silent for no longer than the    *)
(* check has run; when the check passes, that age becomes the age of the   *)
(* verification, and from then on the two grow together.                   *)
(***************************************************************************)
SilentInv == \A x \in Dependencies : allowed[x] => silent[x] = 0

PendingInv ==
  /\ ~running => granted = {}
  /\ \A x \in granted : silent[x] <= started

VerifiedInv ==
  verified # Never /\ verified < MaxAge =>
    \A x \in Dependencies : silent[x] <= verified

WindowInv == SilentInv /\ PendingInv /\ VerifiedInv

\* A step that leaves the world and the verification alone, and the pending check
\* or ends it, keeps the window.
LEMMA WindowKept ==
  ASSUME WindowInv,
         UNCHANGED <<verified, silent, allowed>>,
         granted' = {} \/ UNCHANGED <<running, started, granted>>
  PROVE  WindowInv'
BY DEF WindowInv, SilentInv, PendingInv, VerifiedInv

\* No dependency has been silent for longer than the check that counts is old.
LEMMA WindowHolds == Spec => []WindowInv
<1>1. Init => WindowInv
  BY DEF Init, WindowInv, SilentInv, PendingInv, VerifiedInv
<1>2. TypeOK /\ TypeOK' /\ WindowInv /\ [Next]_vars => WindowInv'
  <2> SUFFICES ASSUME TypeOK, TypeOK', WindowInv, [Next]_vars
               PROVE  WindowInv'
    OBVIOUS
  <2> USE DEF guardVars, checkVars, timerVars, worldVars
  <2>0. /\ \A x \in Dependencies : silent[x] \in Nat /\ silent'[x] \in Nat
        /\ started \in Nat
        /\ verified # Never => verified \in Nat
        /\ granted \subseteq Dependencies
        /\ MaxAge \in Nat /\ Deadline \in Nat
    BY Lengths DEF TypeOK
  <2>1. ASSUME NEW c \in Callers, Call(c) \/ AskAgain(c)
        PROVE  WindowInv'
    BY <2>1, WindowKept DEF Call, AskAgain, Refresh, BeginCheck
  <2>2. ASSUME NEW x \in Dependencies, Read(x)
        PROVE  WindowInv'
    <3>1. /\ running /\ UNCHANGED <<allowed, silent, verified, running, started>>
          /\ granted' = granted \/ (allowed[x] /\ granted' = granted \cup {x})
      BY <2>2 DEF Read
    <3>2. PendingInv'
      <4>1. allowed[x] => silent[x] <= started
        BY <2>0 DEF WindowInv, SilentInv
      <4> QED  BY <3>1, <4>1 DEF WindowInv, PendingInv
    <3> QED  BY <3>1, <3>2 DEF WindowInv, SilentInv, VerifiedInv
  <2>3. CASE Answered
    <3>1. CASE UNCHANGED verified
      BY <2>3, <3>1, WindowKept DEF Answered, EndCheck
    <3>2. CASE verified' = VerifiedSince
      <4>1. granted = Dependencies /\ granted' = {} /\ UNCHANGED <<allowed, silent>>
        BY <2>3 DEF Answered, EndCheck
      <4>2. verified' < MaxAge => verified' = started
        BY <2>0, <3>2, CappedGrows DEF VerifiedSince
      <4>3. VerifiedInv'
        BY <4>1, <4>2 DEF WindowInv, PendingInv, VerifiedInv
      <4> QED  BY <4>1, <4>3 DEF WindowInv, SilentInv, PendingInv
    <3> QED  BY <2>3, <3>1, <3>2 DEF Answered
  <2>4. ASSUME NEW x \in Dependencies, Change(x)
        PROVE  WindowInv'
    <3>1. /\ \A y \in Dependencies : silent'[y] <= silent[y] /\ (y # x => silent'[y] = silent[y] /\ allowed'[y] = allowed[y])
          /\ silent'[x] = 0
          /\ UNCHANGED <<verified, running, started, granted>>
      BY <2>0, <2>4 DEF Change, TypeOK
    <3>2. SilentInv'
      BY <3>1 DEF WindowInv, SilentInv
    <3>3. PendingInv'
      BY <2>0, <3>1 DEF WindowInv, PendingInv
    <3>4. VerifiedInv'
      BY <2>0, <3>1 DEF WindowInv, VerifiedInv
    <3> QED  BY <3>2, <3>3, <3>4 DEF WindowInv
  <2>5. CASE Tick
    <3>1. ASSUME NEW x \in Dependencies
          PROVE  /\ silent'[x] <= silent[x] + 1
                 /\ allowed[x] => silent'[x] = 0
      <4>1. CASE allowed[x]
        BY <2>0, <2>5, <4>1 DEF Tick
      <4>2. CASE ~allowed[x]
        <5>1. silent'[x] = Capped(silent[x] + 1, Deadline)
          BY <2>5, <4>2 DEF Tick
        <5>2. silent[x] + 1 \in Nat /\ Deadline \in Nat
          BY <2>0
        <5> QED  BY <4>2, <5>1, <5>2, CappedGrows
      <4> QED  BY <4>1, <4>2
    <3>2. SilentInv'
      BY <2>5, <3>1 DEF Tick, SilentInv
    <3>3. PendingInv'
      <4>1. CASE running
        BY <2>0, <2>5, <3>1, <4>1 DEF Tick, WindowInv, PendingInv
      <4>2. CASE ~running
        BY <2>5, <4>2 DEF Tick, WindowInv, PendingInv
      <4> QED  BY <4>1, <4>2
    <3>4. VerifiedInv'
      <4>1. CASE verified = Never
        BY <2>5, <4>1 DEF Tick, VerifiedInv
      <4>2. CASE verified # Never
        <5>1. verified' = Capped(verified + 1, MaxAge)
          BY <2>5, <4>2 DEF Tick
        <5>2. verified' < MaxAge => verified' = verified + 1
          BY <2>0, <4>2, <5>1, CappedGrows
        <5> QED  BY <2>0, <3>1, <4>2, <5>2 DEF WindowInv, VerifiedInv
      <4> QED  BY <4>1, <4>2
    <3> QED  BY <3>2, <3>3, <3>4 DEF WindowInv
  <2>6. CASE PollFires
    BY <2>6, WindowKept DEF PollFires, Refresh, BeginCheck
  <2>7. CASE CheckFails
    BY <2>7, WindowKept DEF CheckFails, EndCheck
  <2>8. CASE ReadFails \/ Arm \/ WriteTooLate \/ StopFromOutside \/ Dispose \/ UNCHANGED vars
    BY <2>8, WindowKept DEF ReadFails, Arm, WriteTooLate, StopFromOutside, Dispose, vars
  <2> QED
    BY <2>1, <2>2, <2>3, <2>4, <2>5, <2>6, <2>7, <2>8 DEF Next
<1> QED  BY <1>1, <1>2, TypeCorrect, PTL DEF Spec

\* Output is allowed only while each dependency said yes less than MaxAge ago
\* (allowWrite, and refresh counting from startedAt).
THEOREM WriteWindowHolds == Spec => []WriteWindow
<1>1. TypeOK /\ WindowInv => WriteWindow
  <2> SUFFICES ASSUME TypeOK, WindowInv, MayWrite, NEW x \in Dependencies
               PROVE  silent[x] < MaxAge
    BY DEF WriteWindow
  <2>1. silent[x] \in Nat /\ verified \in Nat /\ MaxAge \in Nat
    BY Lengths DEF TypeOK, MayWrite
  <2>2. silent[x] <= verified /\ verified < MaxAge
    BY DEF WindowInv, VerifiedInv, MayWrite
  <2> QED  BY <2>1, <2>2
<1> QED  BY <1>1, TypeCorrect, WindowHolds, PTL

-----------------------------------------------------------------------------
(***************************************************************************)
(* checkNow.  Whoever waits for a check of its own was there when the check*)
(* began, so what was read in the check was read after the call.           *)
(***************************************************************************)
FreshInv ==
  /\ ~running => granted = {}
  /\ \A c \in Callers :
       /\ pc[c] \in {"again", "own"} => granted \subseteq asked[c]
       /\ pc[c] \in {"arming", "passed"} => asked[c] = Dependencies

\* A call of checkNow that returns has had both dependencies read since it was
\* made (checkNow waits for the pending check and then refreshes).
THEOREM ChecksAreFresh == Spec => []CheckIsFresh
<1>1. Init => FreshInv
  BY DEF Init, FreshInv
<1>2. TypeOK /\ FreshInv /\ [Next]_vars => FreshInv'
  <2> SUFFICES ASSUME TypeOK, FreshInv, [Next]_vars
               PROVE  FreshInv'
    OBVIOUS
  <2> USE DEF guardVars, checkVars, timerVars, worldVars
  <2>0. /\ pc \in [Callers -> Steps] /\ granted \subseteq Dependencies
        /\ asked \in [Callers -> SUBSET Dependencies]
    BY DEF TypeOK
  <2>1. ASSUME UNCHANGED <<pc, asked>>,
               granted' = {} \/ UNCHANGED <<running, granted>>
        PROVE  FreshInv'
    BY <2>1 DEF FreshInv
  <2>2. ASSUME NEW c \in Callers, Call(c)
        PROVE  FreshInv'
    <3>1. /\ granted' = {} \/ UNCHANGED <<running, granted>>
          /\ pc'[c] \in {"failed", "prior"} \/ (pc'[c] = "own" /\ granted' = {})
          /\ \A d \in Callers \ {c} : pc'[d] = pc[d] /\ asked'[d] = asked[d]
      BY <2>0, <2>2 DEF Call, BeginCheck
    <3> QED  BY <3>1 DEF FreshInv
  <2>3. ASSUME NEW c \in Callers, AskAgain(c)
        PROVE  FreshInv'
    <3>1. /\ granted' = {} \/ UNCHANGED <<running, granted>>
          /\ pc[c] = "again" /\ pc'[c] \in {"failed", "own"}
          /\ \A d \in Callers \ {c} : pc'[d] = pc[d]
          /\ UNCHANGED asked
      BY <2>0, <2>3 DEF AskAgain, Refresh, BeginCheck
    <3> QED  BY <3>1 DEF FreshInv
  <2>4. ASSUME NEW x \in Dependencies, Read(x)
        PROVE  FreshInv'
    <3>1. /\ running /\ UNCHANGED <<pc, running>>
          /\ granted' \subseteq granted \cup {x}
          /\ \A c \in Callers : asked'[c] = asked[c] \cup {x}
      BY <2>4 DEF Read
    <3> QED  BY <3>1 DEF FreshInv
  <2>5. ASSUME NEW passed \in BOOLEAN, EndCheck(passed), passed => granted = Dependencies
        PROVE  FreshInv'
    <3>1. granted' = {} /\ UNCHANGED asked
      BY <2>5 DEF EndCheck
    <3>2. ASSUME NEW c \in Callers, pc'[c] \in {"arming", "passed"}
          PROVE  asked'[c] = Dependencies
      <4>1. CASE pc[c] \notin {"prior", "own"}
        BY <2>5, <3>1, <3>2, <4>1 DEF EndCheck, FreshInv
      <4>2. CASE pc[c] \in {"prior", "own"}
        <5>1. passed /\ pc[c] = "own"
          BY <2>5, <3>2, <4>2 DEF EndCheck
        <5> QED  BY <2>0, <2>5, <3>1, <5>1 DEF FreshInv
      <4> QED  BY <4>1, <4>2
    <3> QED  BY <3>1, <3>2 DEF FreshInv
  <2>6. CASE Answered
    BY <2>5, <2>6 DEF Answered
  <2>7. CASE CheckFails
    BY <2>5, <2>7 DEF CheckFails
  <2>8. CASE Arm
    <3>1. /\ UNCHANGED <<asked, granted, running>>
          /\ pc[Starter] = "arming"
          /\ \A c \in Callers : pc'[c] = IF c = Starter THEN "passed" ELSE pc[c]
      BY <2>0, <2>8 DEF Arm
    <3> QED  BY <3>1 DEF FreshInv
  <2>9. CASE PollFires
    BY <2>1, <2>9 DEF PollFires, Refresh, BeginCheck
  <2>10. CASE Tick
    BY <2>1, <2>10 DEF Tick
  <2>11. CASE ReadFails \/ WriteTooLate \/ StopFromOutside \/ Dispose \/ UNCHANGED vars
    BY <2>1, <2>11 DEF ReadFails, WriteTooLate, StopFromOutside, Dispose, vars
  <2>12. ASSUME NEW x \in Dependencies, Change(x)
         PROVE  FreshInv'
    BY <2>1, <2>12 DEF Change
  <2> QED
    BY <2>2, <2>3, <2>4, <2>6, <2>7, <2>8, <2>9, <2>10, <2>11, <2>12 DEF Next
<1>3. FreshInv => CheckIsFresh
  BY DEF FreshInv, CheckIsFresh
<1> QED  BY <1>1, <1>2, <1>3, TypeCorrect, PTL DEF Spec

-----------------------------------------------------------------------------
(***************************************************************************)
(* The stop.  While the last check counts, no dependency has been silent   *)
(* for longer than that check is old.  Once it no longer counts, the       *)
(* interval that is set is the one that will stop the stream: silence and  *)
(* what is left of the interval do not grow together.                      *)
(***************************************************************************)
ArmedInv ==
  /\ armed /\ ~Closed => verified # Never
  /\ pc[Starter] = "arming" /\ ~Closed => verified # Never /\ verified < MaxAge

OverdueInv ==
  armed /\ ~Closed /\ verified = MaxAge =>
    \A x \in Dependencies : silent[x] + untilPoll < MaxAge + Interval

StopInv == ArmedInv /\ OverdueInv

\* What a step of the callers, of the readers or of the outside leaves alone.
LEMMA StopKept ==
  ASSUME StopInv, stopped => stopped', disposed => disposed',
         UNCHANGED <<verified, silent, untilPoll>>,
         armed' => armed,
         pc'[Starter] = "arming" => pc[Starter] = "arming"
  PROVE  StopInv'
BY DEF StopInv, ArmedInv, OverdueInv, Closed

\* The end of a check that passed: it counts from its start, and that is recent.
LEMMA AnswerKeepsStop ==
  ASSUME TypeOK, StopInv, Answered
  PROVE  StopInv'
<1>1. CASE Closed
  <2>1. Closed'
    BY <1>1 DEF Answered, EndCheck, Closed
  <2> QED  BY <2>1 DEF StopInv, ArmedInv, OverdueInv
<1>2. CASE ~Closed /\ started >= MaxAge
  <2>1. Stop
    <3>1. ~(started < MaxAge)
      BY <1>2, Lengths DEF TypeOK
    <3> QED  BY <1>2, <3>1 DEF Answered
  <2>2. Closed'
    BY <2>1 DEF Stop, Closed
  <2> QED  BY <2>2 DEF StopInv, ArmedInv, OverdueInv
<1>3. CASE ~Closed /\ started < MaxAge
  <2>1. started \in Nat /\ MaxAge \in Nat
    BY Lengths DEF TypeOK
  <2>2. verified' = started
    BY <1>3, <2>1 DEF Answered, VerifiedSince, Capped
  <2>3. verified' # Never /\ verified' < MaxAge /\ verified' # MaxAge
    BY <1>3, <2>1, <2>2 DEF Never
  <2> QED  BY <2>3 DEF StopInv, ArmedInv, OverdueInv
<1> QED
  <2>1. started \in Nat /\ MaxAge \in Nat
    BY Lengths DEF TypeOK
  <2> QED  BY <1>1, <1>2, <1>3, <2>1

LEMMA TickKeepsStop ==
  ASSUME TypeOK, WindowInv, StopInv, Tick
  PROVE  StopInv'
<1>0. /\ \A x \in Dependencies : silent[x] \in Nat
      /\ verified # Never => verified \in Nat /\ verified <= MaxAge
      /\ untilPoll \in Int /\ untilPoll <= Interval
      /\ MaxAge \in Nat /\ Deadline \in Nat /\ Interval \in Nat /\ Never \notin Nat
  BY Lengths DEF TypeOK, Never
<1>1. ArmedInv'
  <2>1. pc'[Starter] # "arming" /\ (armed' = armed) /\ (Closed' = Closed)
    BY DEF Tick, Closed
  <2>2. verified # Never => verified' # Never
    <3> SUFFICES ASSUME verified # Never PROVE verified' # Never
      OBVIOUS
    <3>1. verified + 1 \in Nat
      BY <1>0
    <3>2. verified' = Capped(verified + 1, MaxAge)
      BY DEF Tick
    <3>3. verified' \in 0..MaxAge
      BY <1>0, <3>1, <3>2, CappedGrows
    <3> QED  BY <1>0, <3>3
  <2> QED  BY <2>1, <2>2 DEF StopInv, ArmedInv
<1>2. OverdueInv'
  <2> SUFFICES ASSUME armed', ~Closed', verified' = MaxAge, NEW x \in Dependencies
               PROVE  silent'[x] + untilPoll' < MaxAge + Interval
    BY DEF OverdueInv, Tick
  <2>1. armed /\ ~Closed /\ untilPoll' = untilPoll - 1
    BY DEF Tick, Closed
  <2>2. verified # Never
    BY <2>1 DEF StopInv, ArmedInv
  <2>3. silent'[x] \in Nat /\ silent'[x] <= silent[x] + 1
    <3>1. CASE allowed[x]
      BY <1>0, <3>1 DEF Tick
    <3>2. CASE ~allowed[x]
      <4>1. silent'[x] = Capped(silent[x] + 1, Deadline)
        BY <3>2 DEF Tick
      <4>2. silent[x] + 1 \in Nat
        BY <1>0
      <4> QED  BY <1>0, <4>1, <4>2, CappedGrows
    <3> QED  BY <3>1, <3>2
  <2>4. CASE verified = MaxAge
    <3>1. silent[x] + untilPoll < MaxAge + Interval
      BY <2>1, <2>4 DEF StopInv, OverdueInv
    <3> QED  BY <1>0, <2>1, <2>3, <3>1
  <2>5. CASE verified # MaxAge
    <3>1. verified < MaxAge /\ silent[x] <= verified
      BY <1>0, <2>2, <2>5 DEF WindowInv, VerifiedInv
    <3> QED  BY <1>0, <2>1, <2>2, <2>3, <3>1
  <2> QED  BY <2>4, <2>5
<1> QED  BY <1>1, <1>2 DEF StopInv

\* A stream in service whose interval is set stops within MaxAge, one interval and
\* the lag of the timer, though nothing is written and no dependency answers: the
\* poll finds the last check too old (allowWrite) and stops.
THEOREM StopsInTime ==
  ASSUME MaxAge + Interval + MaxLag <= Deadline
  PROVE  Spec => []StoppedInTime
<1>1. Init => StopInv
  BY GuardAssumption DEF GuardAssumption, Init, StopInv, ArmedInv, OverdueInv
<1>2. TypeOK /\ WindowInv /\ StopInv /\ [Next]_vars => StopInv'
  <2> SUFFICES ASSUME TypeOK, WindowInv, StopInv, [Next]_vars
               PROVE  StopInv'
    OBVIOUS
  <2> USE DEF guardVars, checkVars, timerVars, worldVars
  <2>0. /\ pc \in [Callers -> Steps] /\ Starter \in Callers
        /\ MaxAge \in Nat /\ Interval \in Nat
        /\ verified # Never => verified \in Nat
    BY GuardAssumption DEF TypeOK, GuardAssumption
  <2>1. ASSUME NEW c \in Callers, Call(c) \/ AskAgain(c)
        PROVE  StopInv'
    <3>1. /\ UNCHANGED <<stopped, disposed, verified, silent, untilPoll, armed>>
          /\ pc'[c] # "arming" /\ \A b \in Callers \ {c} : pc'[b] = pc[b]
      BY <2>0, <2>1 DEF Call, AskAgain
    <3> QED  BY <2>0, <3>1, StopKept
  <2>2. ASSUME NEW x \in Dependencies, Read(x)
        PROVE  StopInv'
    BY <2>2, StopKept DEF Read
  <2>3. CASE Answered
    BY <2>3, AnswerKeepsStop
  <2>4. CASE CheckFails
    <3>1. Closed'
      BY <2>4 DEF CheckFails, EndCheck, Stop, Closed
    <3> QED  BY <3>1 DEF StopInv, ArmedInv, OverdueInv
  <2>5. CASE Arm
    <3>1. /\ pc[Starter] = "arming" /\ pc'[Starter] = "passed"
          /\ UNCHANGED <<stopped, disposed, verified>>
      BY <2>0, <2>5 DEF Arm
    <3>2. ~Closed' => verified' # Never /\ verified' # MaxAge
      BY <2>0, <3>1 DEF StopInv, ArmedInv, Closed
    <3> QED  BY <3>1, <3>2 DEF StopInv, ArmedInv, OverdueInv
  <2>6. CASE PollFires
    <3>0. UNCHANGED <<disposed, verified, pc>>
      BY <2>6 DEF PollFires
    <3>1. CASE MayWrite
      <4>1. verified # Never /\ verified # MaxAge /\ ~Expired
        BY <2>0, <3>1 DEF MayWrite, Expired
      <4>2. UNCHANGED stopped
        BY <2>6, <3>1, <4>1 DEF PollFires
      <4> QED  BY <3>0, <4>1, <4>2 DEF StopInv, ArmedInv, OverdueInv, Closed
    <3>2. CASE Expired
      <4>1. ~MayWrite
        BY <2>0, <3>2 DEF MayWrite, Expired
      <4>2. Stop
        BY <2>6, <3>2, <4>1 DEF PollFires
      <4>3. Closed'
        BY <4>2 DEF Stop, Closed
      <4> QED  BY <4>3 DEF StopInv, ArmedInv, OverdueInv
    <3>3. CASE ~MayWrite /\ ~Expired
      <4>1. armed /\ UNCHANGED stopped
        BY <2>6, <3>3 DEF PollFires
      <4>2. Closed
        BY <2>0, <3>3, <4>1 DEF MayWrite, Expired, StopInv, ArmedInv
      <4>3. Closed'
        BY <3>0, <4>1, <4>2 DEF Closed
      <4> QED  BY <4>3 DEF StopInv, ArmedInv, OverdueInv
    <3> QED  BY <3>1, <3>2, <3>3
  <2>7. CASE Tick
    BY <2>7, TickKeepsStop
  <2>8. ASSUME NEW x \in Dependencies, Change(x)
        PROVE  StopInv'
    <3>1. /\ UNCHANGED <<stopped, disposed, verified, untilPoll, armed, pc>>
          /\ \A y \in Dependencies : silent'[y] = silent[y] \/ silent'[y] = 0
          /\ \A y \in Dependencies : silent[y] \in Nat
          /\ untilPoll \in Int
      BY <2>8, Lengths DEF Change, TypeOK
    <3>2. OverdueInv'
      <4> SUFFICES ASSUME armed', ~Closed', verified' = MaxAge, NEW y \in Dependencies
                   PROVE  silent'[y] + untilPoll' < MaxAge + Interval
        BY DEF OverdueInv
      <4>1. silent[y] + untilPoll < MaxAge + Interval
        BY <3>1 DEF StopInv, OverdueInv, Closed
      <4> QED  BY <2>0, <3>1, <4>1
    <3> QED  BY <3>1, <3>2 DEF StopInv, ArmedInv, Closed
  <2>9. CASE ReadFails \/ WriteTooLate \/ StopFromOutside \/ Dispose \/ UNCHANGED vars
    BY <2>9, StopKept DEF ReadFails, WriteTooLate, StopFromOutside, Dispose, Stop, vars
  <2> QED
    BY <2>1, <2>2, <2>3, <2>4, <2>5, <2>6, <2>7, <2>8, <2>9 DEF Next
<1>3. TypeOK /\ WindowInv /\ StopInv => StoppedInTime
  <2> SUFFICES ASSUME TypeOK, WindowInv, StopInv, armed, ~Closed, NEW x \in Dependencies
               PROVE  silent[x] < Deadline
    BY DEF StoppedInTime
  <2>1. /\ silent[x] \in Nat /\ verified \in Nat /\ verified <= MaxAge
        /\ untilPoll \in Int /\ -MaxLag <= untilPoll
        /\ MaxAge \in Nat /\ Interval \in Nat /\ MaxLag \in Nat /\ Deadline \in Nat
    BY Lengths DEF TypeOK, StopInv, ArmedInv
  <2>2. CASE verified = MaxAge
    <3>1. silent[x] + untilPoll < MaxAge + Interval
      BY <2>2 DEF StopInv, OverdueInv
    <3> QED  BY <2>1, <3>1
  <2>3. CASE verified < MaxAge
    <3>1. silent[x] <= verified
      BY <2>1, <2>3 DEF WindowInv, VerifiedInv, Never
    <3> QED  BY <2>1, <2>3, <3>1
  <2> QED  BY <2>1, <2>2, <2>3
<1> QED  BY <1>1, <1>2, <1>3, TypeCorrect, WindowHolds, PTL DEF Spec
=============================================================================
