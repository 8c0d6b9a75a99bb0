-------------------------- MODULE StreamingProofs --------------------------
(***************************************************************************)
(* Theorems about LeaderElection, for any cluster, any number of calls and *)
(* any failures, and about the run that exercises it beside the transport  *)
(* of a stream, whose own theorems are in StreamTransportProofs.           *)
(***************************************************************************)
EXTENDS MCStreaming, TLAPS


-----------------------------------------------------------------------------

\* An attempt to renew leaves the renewal in its type.
LEMMA AttemptType ==
  ASSUME TypeOK, NEW s \in Servers, NEW r \in Renewals, NEW n \in 1..Attempts + 1,
         Attempt(s, r, n)
  PROVE  /\ renewal' \in [Servers -> [Renewals -> RenewalState]]
         /\ ttl' \in 0..Lease /\ errors' \in 0..MaxErrors
<1>1. ttl' \in 0..Lease /\ errors' \in 0..MaxErrors
  BY LeaderAssumption DEF Attempt, TypeOK, Fails, Succeeds
<1>2. PICK v \in {"renewed", "error", "lost"} :
        renewal' = [renewal EXCEPT ![s][r] = [attempt |-> n, reply |-> v]]
  BY DEF Attempt
<1>3. [attempt |-> n, reply |-> v] \in RenewalState
  BY LeaderAssumption DEF RenewalState
<1> QED  BY <1>1, <1>2, <1>3 DEF TypeOK

\* The step and the reply of a call stay in their types.
LEMMA AwaitType ==
  ASSUME TypeOK, NEW s \in Servers, NEW c \in Calls, NEW step \in Steps, NEW v \in Replies,
         Await(s, c, step, v)
  PROVE  /\ pc' \in [Servers -> [Calls -> Steps]]
         /\ reply' \in [Servers -> [Calls -> Replies]]
BY DEF Await, To, TypeOK

\* The key, the timers, the calls and the renewals of every server stay well formed.
THEOREM TypeCorrect == Spec => []TypeOK
<1>1. Init => TypeOK
  <2>1. Free \in RenewalState /\ None \in Replies /\ "idle" \in Steps
    BY LeaderAssumption DEF Free, RenewalState, Replies, Steps
  <2>2. ASSUME Init
        PROVE  /\ timer \in [Servers -> BOOLEAN] /\ alive \in [Servers -> BOOLEAN]
               /\ held \in [Servers -> [Calls -> BOOLEAN]] /\ late \in BOOLEAN
    BY <2>2, Zenon DEF Init
  <2>3. ASSUME Init
        PROVE  /\ pc \in [Servers -> [Calls -> Steps]]
               /\ reply \in [Servers -> [Calls -> Replies]]
               /\ renewal \in [Servers -> [Renewals -> RenewalState]]
    BY <2>1, <2>3 DEF Init
  <2>4. ASSUME Init
        PROVE  /\ key \in Servers \cup {None} /\ ttl \in 0..Lease
               /\ due \in [Servers -> 0..Interval]
               /\ errors \in 0..MaxErrors /\ resigns \in 0..MaxResigns
    BY <2>4, LeaderAssumption DEF Init
  <2> QED  BY <2>2, <2>3, <2>4, Zenon DEF TypeOK
<1>2. TypeOK /\ [Next]_vars => TypeOK'
  <2> SUFFICES ASSUME TypeOK, [Next]_vars
               PROVE  TypeOK'
    OBVIOUS
  <2> USE LeaderAssumption
  <2> DEFINE CallsOK ==
        /\ pc' \in [Servers -> [Calls -> Steps]]
        /\ reply' \in [Servers -> [Calls -> Replies]]
  <2>1. CASE UNCHANGED vars
    BY <2>1 DEF vars, TypeOK, redisVars, timerVars, callVars
  <2>2. ASSUME NEW s \in Servers, NEW c \in Calls, Ask(s, c)
        PROVE  TypeOK'
    <3>1. CallsOK  BY <2>2, AwaitType DEF Ask, TypeOK, Steps, Replies
    <3>2. held' \in [Servers -> [Calls -> BOOLEAN]]
      BY <2>2, Zenon DEF Ask, TypeOK
    <3> QED  BY <2>2, <3>1, <3>2 DEF Ask, TypeOK, redisVars, timerVars, Fails, Succeeds
  <2>3. ASSUME NEW s \in Servers, NEW c \in Calls, HearLeader(s, c) \/ HearOwner(s, c)
        PROVE  TypeOK'
    <3>1. CallsOK  BY <2>3, AwaitType DEF HearLeader, HearOwner, GoOn, Steps, Replies
    <3> QED  BY <2>3, <3>1 DEF HearLeader, HearOwner, TypeOK, redisVars, timerVars
  <2>4. ASSUME NEW s \in Servers, NEW c \in Calls, Elect(s, c)
        PROVE  TypeOK'
    <3>1. CallsOK  BY <2>4, AwaitType DEF Elect, Steps, Replies
    <3>2. CASE UNCHANGED <<redisVars, held>>
      BY <2>4, <3>1, <3>2 DEF Elect, TypeOK, redisVars, timerVars, Fails, Succeeds
    <3>3. CASE key' = s /\ ttl' = Lease /\ held' = [held EXCEPT ![s] = [d \in Calls |-> TRUE]]
      <4>1. held' \in [Servers -> [Calls -> BOOLEAN]]
        BY <3>3, Zenon DEF TypeOK
      <4> QED
        BY <2>4, <3>1, <3>3, <4>1 DEF Elect, TypeOK, redisVars, timerVars, Fails, Succeeds
    <3> QED  BY <2>4, <3>2, <3>3 DEF Elect, LeaseTime
  <2>5. ASSUME NEW s \in Servers, NEW c \in Calls, HearElected(s, c)
        PROVE  TypeOK'
    <3>1. CallsOK
      BY <2>5, AwaitType DEF HearElected, GoOn, Steps, Replies, TypeOK
    <3>2. CASE UNCHANGED timerVars
      BY <2>5, <3>1, <3>2 DEF HearElected, TypeOK, redisVars, timerVars, Fails, Succeeds
    <3>3. CASE StartTimer(s)
      <4>1. timer' \in [Servers -> BOOLEAN]
        BY <3>3, Zenon DEF StartTimer, TypeOK
      <4>2. due' \in [Servers -> 0..Interval]
        BY <3>3 DEF StartTimer, RenewEvery, TypeOK
      <4> QED
        BY <2>5, <3>1, <4>1, <4>2 DEF HearElected, TypeOK, redisVars, Fails, Succeeds
    <3> QED  BY <2>5, <3>2, <3>3 DEF HearElected
  <2>6. ASSUME NEW s \in Servers, NEW r \in Renewals, HearRenewal(s, r)
        PROVE  TypeOK'
    <3>1. renewal[s][r].attempt \in 0..Attempts + 1
      BY DEF TypeOK, RenewalState
    <3>2. timer' \in [Servers -> BOOLEAN] /\ due' \in [Servers -> 0..Interval]
      BY <2>6 DEF HearRenewal, OnLoss, StopTimer, TypeOK, timerVars
    <3>3. /\ renewal' \in [Servers -> [Renewals -> RenewalState]]
          /\ ttl' \in 0..Lease /\ errors' \in 0..MaxErrors
      <4>1. CASE renewal' = [renewal EXCEPT ![s][r] = Free] /\ UNCHANGED <<ttl, errors>>
        BY <4>1 DEF TypeOK, Free, RenewalState
      <4>2. CASE MayTryAgain(renewal[s][r].attempt)
                 /\ Attempt(s, r, renewal[s][r].attempt + 1)
        BY <3>1, <4>2, AttemptType DEF MayTryAgain
      <4> QED  BY <2>6, <4>1, <4>2 DEF HearRenewal
    <3> QED  BY <2>6, <3>2, <3>3 DEF HearRenewal, TypeOK, callVars
  <2>7. ASSUME NEW s \in Servers, Fire(s)
        PROVE  TypeOK'
    <3>1. PICK r \in Renewals : Attempt(s, r, 1)
      BY <2>7 DEF Fire
    <3>2. /\ renewal' \in [Servers -> [Renewals -> RenewalState]]
          /\ ttl' \in 0..Lease /\ errors' \in 0..MaxErrors
      BY <3>1, AttemptType
    <3>3. due' \in [Servers -> 0..Interval]
      BY <2>7 DEF Fire, TypeOK, RenewEvery
    <3> QED  BY <2>7, <3>2, <3>3 DEF Fire, TypeOK, callVars
  <2>8. ASSUME NEW s \in Servers, Resign(s)
        PROVE  TypeOK'
    BY <2>8 DEF Resign, TypeOK, StopTimer, Succeeds, Fails, callVars, redisVars
  <2>9. ASSUME NEW s \in Servers, Crash(s)
        PROVE  TypeOK'
    <3>1. Free \in RenewalState /\ "idle" \in Steps /\ None \in Replies
      BY DEF Free, RenewalState, Steps, Replies
    <3> QED  BY <2>9, <3>1 DEF Crash, TypeOK, redisVars
  <2>10. CASE Tick
    BY <2>10 DEF Tick, TypeOK, callVars
  <2> QED
    BY <2>1, <2>2, <2>3, <2>4, <2>5, <2>6, <2>7, <2>8, <2>9, <2>10 DEF Next
<1> QED  BY <1>1, <1>2, PTL DEF Spec

-----------------------------------------------------------------------------
(***************************************************************************)
(* A yes is true.  The invariant follows the evidence back from the answer *)
(* to the reply on its way and to the key: whoever is seen to have the key *)
(* had it at some moment of every call that is under way.                  *)
(***************************************************************************)

OwnerHeld == \A s \in Servers, c \in Calls : key = s => held[s][c]
EvidenceHeld ==
  \A s \in Servers, c \in Calls :
    pc[s][c] = "yes" \/ reply[s][c] \in {s, "OK"} => held[s][c]

Inv == OwnerHeld /\ EvidenceHeld

\* What a call has found out, it keeps, while held only grows.
LEMMA KeptEvidence ==
  ASSUME TypeOK, Inv, UNCHANGED key, UNCHANGED held,
         NEW s \in Servers, NEW c \in Calls, NEW step \in Steps, NEW v \in Replies,
         Await(s, c, step, v),
         step = "yes" \/ v \in {s, "OK"} => held[s][c]
  PROVE  Inv'
<1>1. OwnerHeld'
  BY DEF Inv, OwnerHeld
<1>2. EvidenceHeld'
  <2> SUFFICES ASSUME NEW t \in Servers, NEW d \in Calls,
                      pc'[t][d] = "yes" \/ reply'[t][d] \in {t, "OK"}
               PROVE  held'[t][d]
    BY DEF EvidenceHeld
  <2>1. CASE t = s /\ d = c
    BY <2>1 DEF Await, To, TypeOK
  <2>2. CASE ~(t = s /\ d = c)
    BY <2>2 DEF Await, To, TypeOK, Inv, EvidenceHeld
  <2> QED  BY <2>1, <2>2
<1> QED  BY <1>1, <1>2 DEF Inv

\* One step keeps the evidence.
LEMMA InvStep ==
  ASSUME TypeOK, Inv, [Next]_vars
  PROVE  Inv'
<1> USE LeaderAssumption
<1>1. CASE UNCHANGED vars
  BY <1>1 DEF vars, redisVars, callVars, Inv, OwnerHeld, EvidenceHeld
<1>2. ASSUME NEW s \in Servers, NEW c \in Calls, Ask(s, c)
      PROVE  Inv'
  <2>1. UNCHANGED key
    BY <1>2 DEF Ask, redisVars
  <2>2. PICK v \in {key, "error"} : Await(s, c, "get", v)
    BY <1>2 DEF Ask
  <2>3. \A t \in Servers, d \in Calls :
          held'[t][d] = IF t = s /\ d = c THEN key = s ELSE held[t][d]
    BY <1>2, Zenon DEF Ask, TypeOK
  <2>4. OwnerHeld'
    BY <2>1, <2>3 DEF Inv, OwnerHeld
  <2>5. EvidenceHeld'
    <3> SUFFICES ASSUME NEW t \in Servers, NEW d \in Calls,
                        pc'[t][d] = "yes" \/ reply'[t][d] \in {t, "OK"}
                 PROVE  held'[t][d]
      BY DEF EvidenceHeld
    <3>1. CASE t = s /\ d = c
      <4>1. pc'[t][d] = "get" /\ reply'[t][d] = v
        BY <2>2, <3>1 DEF Await, To, TypeOK
      <4>2. v = s
        BY <3>1, <4>1 DEF TypeOK
      <4>3. key = s
        BY <4>2
      <4> QED  BY <2>3, <3>1, <4>3
    <3>2. CASE ~(t = s /\ d = c)
      <4>1. pc'[t][d] = pc[t][d] /\ reply'[t][d] = reply[t][d]
        BY <2>2, <3>2 DEF Await, To, TypeOK
      <4> QED  BY <2>3, <3>2, <4>1 DEF Inv, EvidenceHeld
    <3> QED  BY <3>1, <3>2
  <2> QED  BY <2>4, <2>5 DEF Inv
<1>3. ASSUME NEW s \in Servers, NEW c \in Calls, HearLeader(s, c) \/ HearOwner(s, c)
      PROVE  Inv'
  <2>1. UNCHANGED key /\ UNCHANGED held
    BY <1>3 DEF HearLeader, HearOwner, redisVars
  <2>2. PICK step \in {"yes", "sleep", "no"} :
          Await(s, c, step, None) /\ (step = "yes" => reply[s][c] = s)
    BY <1>3 DEF HearLeader, HearOwner, GoOn, Leads
  <2>3. step \in Steps /\ None \in Replies /\ None \notin {s, "OK"}
    BY DEF Steps, Replies
  <2>4. step = "yes" => held[s][c]
    BY <2>2 DEF Inv, EvidenceHeld
  <2> QED  BY <2>1, <2>2, <2>3, <2>4, KeptEvidence
<1>4. ASSUME NEW s \in Servers, NEW c \in Calls, Elect(s, c)
      PROVE  Inv'
  <2>1. CASE UNCHANGED key /\ UNCHANGED held
    <3>1. PICK v \in {"nil", "error"} : Await(s, c, "set", v)
      BY <1>4, <2>1 DEF Elect, Absent
    <3>2. "set" \in Steps /\ v \in Replies /\ v \notin {s, "OK"}
      BY DEF Steps, Replies
    <3> QED  BY <2>1, <3>1, <3>2, KeptEvidence
  <2>2. CASE key' = s /\ held' = [held EXCEPT ![s] = [d \in Calls |-> TRUE]]
    <3>1. \A t \in Servers, d \in Calls : t = s \/ held[t][d] => held'[t][d]
      BY <2>2, Zenon DEF TypeOK
    <3>2. \A t \in Servers, d \in Calls :
            t # s => pc'[t][d] = pc[t][d] /\ reply'[t][d] = reply[t][d]
      BY <1>4 DEF Elect, Await, To, TypeOK
    <3>3. OwnerHeld'
      BY <2>2, <3>1 DEF OwnerHeld
    <3>4. EvidenceHeld'
      <4> SUFFICES ASSUME NEW t \in Servers, NEW d \in Calls,
                          pc'[t][d] = "yes" \/ reply'[t][d] \in {t, "OK"}
                   PROVE  held'[t][d]
        BY DEF EvidenceHeld
      <4>1. CASE t = s
        BY <3>1, <4>1, Zenon
      <4>2. CASE t # s
        <5>1. held[t][d]
          BY <3>2, <4>2 DEF Inv, EvidenceHeld
        <5> QED  BY <3>1, <5>1, Zenon
      <4> QED  BY <4>1, <4>2
    <3> QED  BY <3>3, <3>4 DEF Inv
  <2> QED  BY <1>4, <2>1, <2>2 DEF Elect, redisVars
<1>5. ASSUME NEW s \in Servers, NEW c \in Calls, HearElected(s, c)
      PROVE  Inv'
  <2>1. UNCHANGED key /\ UNCHANGED held
    BY <1>5 DEF HearElected, redisVars
  <2>2. CASE reply[s][c] = "OK" /\ GoOn(s, c, "yes")
    <3>1. held[s][c]
      BY <2>2 DEF Inv, EvidenceHeld
    <3>2. "yes" \in Steps /\ None \in Replies
      BY DEF Steps, Replies
    <3> QED  BY <2>1, <2>2, <3>1, <3>2, KeptEvidence DEF GoOn
  <2>3. CASE Await(s, c, "check", key)
    <3>1. key \in {s, "OK"} => held[s][c]
      BY DEF Inv, OwnerHeld, TypeOK
    <3>2. "check" \in Steps /\ key \in Replies
      BY DEF Steps, Replies, TypeOK
    <3> QED  BY <2>1, <2>3, <3>1, <3>2, KeptEvidence
  <2>4. CASE Await(s, c, "check", "error")
    <3>1. "check" \in Steps /\ "error" \in Replies /\ "error" \notin {s, "OK"}
      BY DEF Steps, Replies
    <3> QED  BY <2>1, <2>4, <3>1, KeptEvidence
  <2>5. CASE GoOn(s, c, "no")
    <3>1. "no" \in Steps /\ None \in Replies /\ None \notin {s, "OK"}
      BY DEF Steps, Replies
    <3> QED  BY <2>1, <2>5, <3>1, KeptEvidence DEF GoOn
  <2> QED  BY <1>5, <2>2, <2>3, <2>4, <2>5 DEF HearElected
<1>6. ASSUME NEW s \in Servers, (\E r \in Renewals : HearRenewal(s, r)) \/ Fire(s)
      PROVE  Inv'
  BY <1>6 DEF HearRenewal, Fire, callVars, Inv, OwnerHeld, EvidenceHeld
<1>7. ASSUME NEW s \in Servers, Resign(s)
      PROVE  Inv'
  BY <1>7 DEF Resign, redisVars, callVars, Inv, OwnerHeld, EvidenceHeld
<1>8. ASSUME NEW s \in Servers, Crash(s)
      PROVE  Inv'
  <2>1. UNCHANGED <<key, held>>
    BY <1>8 DEF Crash, redisVars
  <2>2. \A t \in Servers, d \in Calls :
          \/ pc'[t][d] = pc[t][d] /\ reply'[t][d] = reply[t][d]
          \/ pc'[t][d] = "idle" /\ reply'[t][d] = None
    BY <1>8 DEF Crash, TypeOK
  <2> QED  BY <2>1, <2>2 DEF Inv, OwnerHeld, EvidenceHeld
<1>9. CASE Tick
  BY <1>9 DEF Tick, callVars, Inv, OwnerHeld, EvidenceHeld
<1> QED
  BY <1>1, <1>2, <1>3, <1>4, <1>5, <1>6, <1>7, <1>8, <1>9 DEF Next

\* isLeader says yes only to a server that had the key during the call, through replies
\* that come late or out of order, lost leases, resignations and crashes.
THEOREM YesIsTrue == Spec => []YesWasTrue
<1>1. Init => Inv
  BY LeaderAssumption DEF Init, Inv, OwnerHeld, EvidenceHeld
<1>2. Inv => YesWasTrue
  BY DEF Inv, EvidenceHeld, YesWasTrue
<1> QED  BY <1>1, <1>2, InvStep, TypeCorrect, PTL DEF Spec

-----------------------------------------------------------------------------

\* Nobody ends or prolongs another server's leadership, whatever late command of his
\* reaches Redis.
THEOREM OnlyTheOwner == Spec => OwnerOnly
<1> DEFINE A == /\ key # None /\ key' # key => key' = None /\ (Tick \/ ByOwner(Resign))
                /\ key # None /\ ttl' > ttl => ByOwner(Prolongs)
<1>1. TypeOK /\ [Next]_vars => [A]_vars
  <2> SUFFICES ASSUME TypeOK, Next
               PROVE  A
    OBVIOUS
  <2> USE LeaderAssumption
  <2>1. ASSUME NEW s \in Servers, NEW c \in Calls, Ask(s, c) \/ HearLeader(s, c)
               \/ HearElected(s, c) \/ HearOwner(s, c)
        PROVE  A
    <3>1. UNCHANGED <<key, ttl>>
      BY <2>1 DEF Ask, HearLeader, HearElected, HearOwner, redisVars
    <3> QED  BY <3>1 DEF TypeOK
  <2>2. ASSUME NEW s \in Servers, NEW c \in Calls, Elect(s, c)
        PROVE  A
    <3>1. UNCHANGED <<key, ttl>> \/ key = None
      BY <2>2 DEF Elect, Absent, redisVars
    <3> QED  BY <3>1 DEF TypeOK
  <2>3. ASSUME NEW s \in Servers, NEW r \in Renewals, HearRenewal(s, r)
        PROVE  A
    <3>1. UNCHANGED key /\ (UNCHANGED ttl \/ key = s)
      BY <2>3 DEF HearRenewal, Attempt, RenewsOwn
    <3> QED  BY <2>3, <3>1 DEF TypeOK, ByOwner, Prolongs
  <2>4. ASSUME NEW s \in Servers, Fire(s)
        PROVE  A
    <3>1. UNCHANGED key /\ (UNCHANGED ttl \/ key = s)
      BY <2>4 DEF Fire, Attempt, RenewsOwn
    <3> QED  BY <2>4, <3>1 DEF TypeOK, ByOwner, Prolongs
  <2>5. ASSUME NEW s \in Servers, Resign(s)
        PROVE  A
    <3>1. UNCHANGED <<key, ttl>> \/ (key = s /\ key' = None /\ ttl' = 0)
      BY <2>5 DEF Resign, ReleasesOwn, redisVars
    <3>2. ~(ttl' > ttl)
      BY <3>1 DEF TypeOK
    <3>3. key # None /\ key' # key => key' = None /\ ByOwner(Resign)
      BY <2>5, <3>1 DEF ByOwner
    <3> QED  BY <3>2, <3>3
  <2>6. ASSUME NEW s \in Servers, Crash(s)
        PROVE  A
    <3>1. UNCHANGED <<key, ttl>>
      BY <2>6 DEF Crash, redisVars
    <3> QED  BY <3>1 DEF TypeOK
  <2>7. CASE Tick
    <3>1. key' \in {None, key} /\ ttl' \in Int /\ ttl' <= ttl
      BY <2>7 DEF Tick, TypeOK
    <3> QED  BY <2>7, <3>1 DEF TypeOK
  <2> QED  BY <2>1, <2>2, <2>3, <2>4, <2>5, <2>6, <2>7 DEF Next
<1> QED  BY <1>1, TypeCorrect, PTL DEF Spec, OwnerOnly

-----------------------------------------------------------------------------
(***************************************************************************)
(* The lease outlives the interval.  While nobody is late, the key of a    *)
(* server that renews has more ticks left than its timer, unless an answer *)
(* that may end the renewal is on its way; and an election that has not    *)
(* been heard of yet is of this tick.                                      *)
(***************************************************************************)

Ending(s) == \E r \in Renewals : renewal[s][r].reply \in {"error", "lost"}
RenewedInTime == \A s \in Servers : key = s /\ timer[s] => ttl > due[s] \/ Ending(s)
JustElected ==
  \A s \in Servers, c \in Calls :
    pc[s][c] = "set" /\ reply[s][c] = "OK" /\ key = s => ttl = Lease

LeaseInv == ~late => RenewedInTime /\ JustElected

\* An attempt renews the whole lease of the key's owner, or an answer that is not a
\* renewal is on its way; the other renewals rest.
LEMMA AttemptKeeps ==
  ASSUME TypeOK, NEW s \in Servers, NEW r \in Renewals, NEW n \in 1..Attempts + 1,
         Attempt(s, r, n)
  PROVE  /\ UNCHANGED ttl \/ (key = s /\ ttl' = Lease)
         /\ \A t \in Servers : t # s => renewal'[t] = renewal[t]
         /\ key = s => ttl' = Lease \/ renewal'[s][r].reply = "error"
<1>1. PICK v \in {"renewed", "error", "lost"} :
        /\ renewal' = [renewal EXCEPT ![s][r] = [attempt |-> n, reply |-> v]]
        /\ UNCHANGED ttl \/ (key = s /\ ttl' = Lease)
        /\ key = s => ttl' = Lease \/ v = "error"
  BY DEF Attempt, RenewsOwn
<1>2. renewal'[s][r].reply = v
  BY <1>1 DEF TypeOK
<1> QED  BY <1>1, <1>2 DEF TypeOK

\* One step keeps the lease longer than the interval, unless it is late.
LEMMA LeaseStep ==
  ASSUME Interval < Lease, TypeOK, LeaseInv, [Next]_vars
  PROVE  LeaseInv'
<1> USE LeaderAssumption
<1> SUFFICES ASSUME ~late'
             PROVE  RenewedInTime' /\ JustElected'
  BY DEF LeaseInv
<1>1. CASE UNCHANGED vars
  BY <1>1 DEF vars, redisVars, timerVars, callVars, LeaseInv, RenewedInTime, JustElected, Ending
<1>2. ASSUME Next
      PROVE  ~late /\ RenewedInTime /\ JustElected
  <2>1. ~late
    BY <1>2 DEF Next, Ask, HearLeader, HearOwner, HearElected, Elect, HearRenewal, Fire,
                Resign, Crash, Tick
  <2> QED  BY <2>1 DEF LeaseInv
\* A step of one call that touches neither the key nor the timers.
<1>3. ASSUME NEW s \in Servers, NEW c \in Calls, NEW step \in Steps, NEW v \in Replies,
             Await(s, c, step, v), step # "set" \/ v # "OK", RenewedInTime, JustElected,
             UNCHANGED <<redisVars, timerVars, renewal>>
      PROVE  RenewedInTime' /\ JustElected'
  <2>1. RenewedInTime'
    BY <1>3 DEF RenewedInTime, Ending, redisVars, timerVars
  <2>2. \A t \in Servers, d \in Calls :
          \/ pc'[t][d] = pc[t][d] /\ reply'[t][d] = reply[t][d]
          \/ pc'[t][d] = step /\ reply'[t][d] = v
    BY <1>3 DEF Await, To, TypeOK
  <2> QED  BY <1>3, <2>1, <2>2 DEF JustElected, redisVars
<1>4. ASSUME NEW s \in Servers, NEW c \in Calls,
             Ask(s, c) \/ HearLeader(s, c) \/ HearOwner(s, c)
      PROVE  RenewedInTime' /\ JustElected'
  <2>1. RenewedInTime /\ JustElected
    BY <1>2, <1>4 DEF Next
  <2>2. UNCHANGED <<redisVars, timerVars, renewal>>
    BY <1>4 DEF Ask, HearLeader, HearOwner
  <2>3. PICK step \in Steps \ {"set"}, v \in Replies : Await(s, c, step, v)
    BY <1>4 DEF Ask, HearLeader, HearOwner, GoOn, Steps, Replies, TypeOK
  <2> QED  BY <1>3, <2>1, <2>2, <2>3
<1>5. ASSUME NEW s \in Servers, NEW c \in Calls, Elect(s, c)
      PROVE  RenewedInTime' /\ JustElected'
  <2>1. RenewedInTime /\ JustElected
    BY <1>2, <1>5 DEF Next
  <2>2. CASE UNCHANGED <<redisVars, held>>
    <3>1. PICK v \in {"nil", "error"} : Await(s, c, "set", v)
      BY <1>5, <2>2 DEF Elect, Absent, redisVars, TypeOK
    <3>2. v \in Replies /\ v # "OK" /\ "set" \in Steps
      BY DEF Replies, Steps
    <3> QED  BY <1>3, <1>5, <2>1, <2>2, <3>1, <3>2 DEF Elect
  <2>3. CASE key' = s /\ ttl' = Lease
    BY <1>5, <2>3 DEF Elect, timerVars, TypeOK, RenewedInTime, JustElected
  <2> QED  BY <1>5, <2>2, <2>3 DEF Elect, LeaseTime
<1>6. ASSUME NEW s \in Servers, NEW c \in Calls, HearElected(s, c)
      PROVE  RenewedInTime' /\ JustElected'
  <2>1. RenewedInTime /\ JustElected
    BY <1>2, <1>6 DEF Next
  <2>2. CASE reply[s][c] = "OK" /\ GoOn(s, c, "yes") /\ StartTimer(s)
    <3>1. RenewedInTime'
      <4> SUFFICES ASSUME NEW t \in Servers, key' = t, timer'[t]
                   PROVE  ttl' > due'[t] \/ Ending(t)'
        BY DEF RenewedInTime
      <4>1. CASE t = s
        <5>1. ttl' = Lease
          BY <1>6, <2>1, <2>2, <4>1 DEF HearElected, Arrived, JustElected, redisVars
        <5>2. due'[s] = Interval
          BY <2>2 DEF StartTimer, RenewEvery, TypeOK
        <5> QED  BY <4>1, <5>1, <5>2
      <4>2. CASE t # s
        <5>1. timer'[t] = timer[t] /\ due'[t] = due[t]
          BY <2>2, <4>2 DEF StartTimer, TypeOK
        <5> QED  BY <1>6, <2>1, <5>1 DEF HearElected, RenewedInTime, Ending, redisVars
      <4> QED  BY <4>1, <4>2
    <3>2. \A t \in Servers, d \in Calls :
            \/ pc'[t][d] = pc[t][d] /\ reply'[t][d] = reply[t][d]
            \/ pc'[t][d] = "yes"
      BY <2>2 DEF GoOn, Await, To, TypeOK
    <3> QED  BY <1>6, <2>1, <3>1, <3>2 DEF HearElected, JustElected, redisVars
  <2>3. CASE UNCHANGED timerVars /\ reply[s][c] # "OK"
    <3>1. PICK step \in {"check", "no"}, v \in Replies : Await(s, c, step, v)
      BY <1>6, <2>3 DEF HearElected, GoOn, TypeOK, Replies
    <3> QED  BY <1>3, <1>6, <2>1, <2>3, <3>1 DEF HearElected, Steps
  <2> QED  BY <1>6, <2>2, <2>3 DEF HearElected
<1>7. ASSUME NEW s \in Servers, NEW r \in Renewals, HearRenewal(s, r)
      PROVE  RenewedInTime' /\ JustElected'
  <2>1. RenewedInTime /\ JustElected
    BY <1>2, <1>7 DEF Next
  <2>2. CASE StopTimer(s) /\ renewal' = [renewal EXCEPT ![s][r] = Free] /\ UNCHANGED ttl
    <3>1. \A t \in Servers : timer'[t] => t # s /\ timer[t] /\ due'[t] = due[t]
                                             /\ renewal'[t] = renewal[t]
      BY <2>2, Zenon DEF StopTimer, TypeOK
    <3> QED  BY <1>7, <2>1, <2>2, <3>1 DEF HearRenewal, callVars, RenewedInTime, JustElected, Ending
  <2>3. CASE /\ renewal[s][r].reply = "renewed" /\ UNCHANGED timerVars
             /\ renewal' = [renewal EXCEPT ![s][r] = Free] /\ UNCHANGED ttl
    <3>1. \A t \in Servers : Ending(t) => Ending(t)'
      BY <2>3 DEF Ending, TypeOK
    <3> QED  BY <1>7, <2>1, <2>3, <3>1 DEF HearRenewal, callVars, timerVars, RenewedInTime, JustElected
  <2>4. CASE /\ MayTryAgain(renewal[s][r].attempt) /\ UNCHANGED timerVars
             /\ Attempt(s, r, renewal[s][r].attempt + 1)
    <3>1. renewal[s][r].attempt + 1 \in 1..Attempts + 1
      BY <2>4 DEF TypeOK, RenewalState, MayTryAgain
    <3>2. /\ UNCHANGED ttl \/ (key = s /\ ttl' = Lease)
          /\ \A t \in Servers : t # s => renewal'[t] = renewal[t]
          /\ key = s => ttl' = Lease \/ renewal'[s][r].reply = "error"
      BY <2>4, <3>1, AttemptKeeps
    <3>3. UNCHANGED <<key, callVars, timer, due>>
      BY <1>7, <2>4 DEF HearRenewal, timerVars
    <3>4. RenewedInTime'
      <4> SUFFICES ASSUME NEW t \in Servers, key' = t, timer'[t]
                   PROVE  ttl' > due'[t] \/ Ending(t)'
        BY DEF RenewedInTime
      <4>1. CASE t = s
        <5>1. ttl' = Lease \/ renewal'[t][r].reply = "error"
          BY <3>2, <3>3, <4>1
        <5>2. due'[t] \in 0..Interval
          BY <3>3 DEF TypeOK
        <5>3. CASE ttl' = Lease
          BY <5>2, <5>3
        <5>4. CASE renewal'[t][r].reply = "error"
          BY <5>4, Zenon DEF Ending
        <5> QED  BY <5>1, <5>3, <5>4
      <4>2. CASE t # s
        BY <2>1, <3>2, <3>3, <4>2 DEF RenewedInTime, Ending
      <4> QED  BY <4>1, <4>2
    <3>5. JustElected'
      BY <2>1, <3>2, <3>3 DEF JustElected, callVars
    <3> QED  BY <3>4, <3>5
  <2> QED  BY <1>7, <2>2, <2>3, <2>4 DEF HearRenewal, OnLoss
<1>8. ASSUME NEW s \in Servers, Fire(s)
      PROVE  RenewedInTime' /\ JustElected'
  <2>1. RenewedInTime /\ JustElected
    BY <1>2, <1>8 DEF Next
  <2>2. PICK r \in Renewals : Attempt(s, r, 1)
    BY <1>8 DEF Fire
  <2>3. /\ UNCHANGED ttl \/ (key = s /\ ttl' = Lease)
        /\ \A t \in Servers : t # s => renewal'[t] = renewal[t]
        /\ key = s => ttl' = Lease \/ renewal'[s][r].reply = "error"
    BY <2>2, AttemptKeeps
  <2>4. \A t \in Servers : t # s => due'[t] = due[t]
    BY <1>8 DEF Fire, TypeOK
  <2>5. UNCHANGED <<key, callVars, timer>> /\ due'[s] \in 0..Interval
    BY <1>8 DEF Fire, RenewEvery, TypeOK
  <2>6. RenewedInTime'
    <3> SUFFICES ASSUME NEW t \in Servers, key' = t, timer'[t]
                 PROVE  ttl' > due'[t] \/ Ending(t)'
      BY DEF RenewedInTime
    <3>1. CASE t = s
      <4>1. ttl' = Lease \/ renewal'[t][r].reply = "error"
        BY <2>3, <2>5, <3>1
      <4>2. CASE ttl' = Lease
        <5>1. due'[t] \in 0..Interval
          BY <2>5, <3>1
        <5> QED  BY <4>2, <5>1
      <4>3. CASE renewal'[t][r].reply = "error"
        BY <4>3, Zenon DEF Ending
      <4> QED  BY <4>1, <4>2, <4>3
    <3>2. CASE t # s
      BY <2>1, <2>3, <2>4, <2>5, <3>2 DEF RenewedInTime, Ending
    <3> QED  BY <3>1, <3>2
  <2>7. JustElected'
    BY <2>1, <2>3, <2>5 DEF JustElected, callVars
  <2> QED  BY <2>6, <2>7
<1>9. ASSUME NEW s \in Servers, Resign(s)
      PROVE  RenewedInTime' /\ JustElected'
  <2>1. RenewedInTime /\ JustElected
    BY <1>2, <1>9 DEF Next
  <2>2. key' = None \/ UNCHANGED redisVars
    BY <1>9 DEF Resign
  <2>3. \A t \in Servers : timer'[t] => timer[t]
    BY <1>9 DEF Resign, StopTimer, TypeOK
  <2>4. UNCHANGED <<callVars, renewal, due>> /\ None \notin Servers
    BY <1>9 DEF Resign, StopTimer
  <2> QED
    BY <2>1, <2>2, <2>3, <2>4 DEF RenewedInTime, JustElected, Ending, redisVars, callVars
<1>10. ASSUME NEW s \in Servers, Crash(s)
       PROVE  RenewedInTime' /\ JustElected'
  <2>1. RenewedInTime /\ JustElected
    BY <1>2, <1>10 DEF Next
  <2>2. \A t \in Servers : timer'[t] => t # s /\ timer[t] /\ renewal'[t] = renewal[t]
    BY <1>10 DEF Crash, TypeOK
  <2>3. \A t \in Servers, d \in Calls :
          \/ pc'[t][d] = pc[t][d] /\ reply'[t][d] = reply[t][d]
          \/ pc'[t][d] = "idle"
    BY <1>10 DEF Crash, TypeOK
  <2>4. UNCHANGED <<redisVars, due>>
    BY <1>10 DEF Crash
  <2> QED  BY <2>1, <2>2, <2>3, <2>4 DEF RenewedInTime, JustElected, Ending, redisVars
<1>11. CASE Tick
  <2>1. RenewedInTime /\ JustElected
    BY <1>2, <1>11 DEF Next
  <2>2. \A s \in Servers : ~Pending(s)
    BY <1>11 DEF Tick
  <2>3. RenewedInTime'
    <3> SUFFICES ASSUME NEW s \in Servers, key' = s, timer'[s]
                 PROVE  ttl' > due'[s]
      BY DEF RenewedInTime
    <3>1. key = s /\ timer[s]
      BY <1>11 DEF Tick
    <3>2. ~Ending(s) /\ due[s] # 0
      BY <2>2, <3>1 DEF Pending, Ending, Free
    <3>3. ttl > due[s]
      BY <2>1, <3>1, <3>2 DEF RenewedInTime
    <3> QED  BY <1>11, <3>1, <3>2, <3>3 DEF Tick, TypeOK
  <2>4. JustElected'
    BY <1>11, <2>2 DEF Tick, Pending, JustElected, callVars
  <2> QED  BY <2>3, <2>4
<1> QED
  BY <1>1, <1>4, <1>5, <1>6, <1>7, <1>8, <1>9, <1>10, <1>11 DEF Next

\* As long as no server is late with a reply or a timer, a leader that renews keeps its
\* key, however many attempts of its renewals fail or are lost, unless it resigns. The
\* interval has to be shorter than the lease, as it is by default (config.ts), where the
\* environment may set either.
THEOREM LeaseNeverLost ==
  ASSUME Interval < Lease
  PROVE  Spec => LeaseKept
<1> DEFINE A == ~late' /\ key # None /\ key' = None => Resign(key) \/ ~timer[key]
<1>1. Init => LeaseInv
  BY LeaderAssumption DEF Init, LeaseInv, RenewedInTime, JustElected
<1>2. TypeOK /\ LeaseInv /\ [Next]_vars => LeaseInv'
  BY LeaseStep
<1>3. TypeOK /\ LeaseInv /\ [Next]_vars => [A]_vars
  <2> SUFFICES ASSUME TypeOK, LeaseInv, Next, ~late', key # None, key' = None, timer[key]
               PROVE  Resign(key)
    OBVIOUS
  <2> USE LeaderAssumption
  <2>1. key \in Servers
    BY DEF TypeOK
  <2>2. CASE Tick
    <3>1. ~late /\ \A s \in Servers : ~Pending(s)
      BY <2>2 DEF Tick
    <3>2. ~Ending(key) /\ due[key] # 0
      BY <2>1, <3>1 DEF Pending, Ending, Free
    <3>3. ttl > due[key]
      BY <2>1, <3>1, <3>2 DEF LeaseInv, RenewedInTime
    <3>4. ttl = 1
      BY <2>2 DEF Tick
    <3> QED  BY <2>1, <3>2, <3>3, <3>4 DEF TypeOK
  <2>3. ASSUME NEW s \in Servers, Resign(s)
        PROVE  Resign(key)
    BY <2>3 DEF Resign, ReleasesOwn, redisVars
  <2>4. ASSUME NEW s \in Servers, NEW c \in Calls, Elect(s, c)
        PROVE  FALSE
    BY <2>4 DEF Elect, redisVars
  <2>5. ASSUME NEW s \in Servers,
               \/ \E c \in Calls : Ask(s, c) \/ HearLeader(s, c) \/ HearElected(s, c) \/ HearOwner(s, c)
               \/ \E r \in Renewals : HearRenewal(s, r)
               \/ Fire(s) \/ Crash(s)
        PROVE  FALSE
    BY <2>5 DEF Ask, HearLeader, HearElected, HearOwner, HearRenewal, Fire, Crash, redisVars
  <2> QED  BY <2>2, <2>3, <2>4, <2>5 DEF Next
<1> QED  BY <1>1, <1>2, <1>3, TypeCorrect, PTL DEF Spec, LeaseKept

-----------------------------------------------------------------------------
(***************************************************************************)
(* The transport in the run                                                *)
(***************************************************************************)

Proved == INSTANCE StreamTransportProofs WITH pc <- attachPc, timer <- flushTimer

\* The theorems are about the module that the run exercises: definition by definition the
\* two instances are the same.
LEMMA SameTransport ==
  /\ Proved!TransportAssumption <=> Transport!TransportAssumption
  /\ Proved!Init <=> Transport!Init
  /\ [Proved!Next]_(Proved!vars) <=> [Transport!Next]_(Transport!vars)
  /\ Proved!OnceInOrder <=> Transport!OnceInOrder
  /\ Proved!NothingSkipped <=> Transport!NothingSkipped
  BY DEF
    Transport!TransportAssumption, Transport!emission, Transport!buffer, Transport!outcome,
    Transport!vars, Transport!Init, Transport!Published, Transport!SequenceOf,
    Transport!EventAt, Transport!NextInRedis, Transport!NamedSequences, Transport!InOrder,
    Transport!Frames, Transport!Given, Transport!FirstGap, Transport!FlushFrom,
    Transport!ResetBuffer, Transport!Buffered, Transport!Emit, Transport!Receipt,
    Transport!ForceFlush, Transport!Arrive, Transport!Lose, Transport!Timeout,
    Transport!BreakFlush, Transport!At, Transport!Join, Transport!Ready, Transport!Fenced,
    Transport!CheckFails, Transport!AfterFence, Transport!Leave, Transport!ReplayedNext,
    Transport!Replay, Transport!ReadCounter, Transport!WithoutCopies, Transport!GoOnFrom,
    Transport!Rearmed, Transport!Apply, Transport!Settles, Transport!Next,
    Transport!OnceInOrder, Transport!NothingSkipped, Transport!Max, Transport!Min,
    Transport!Cardinality, Transport!IsFiniteSet,
    Proved!TransportAssumption, Proved!emission, Proved!buffer, Proved!outcome, Proved!vars,
    Proved!Init, Proved!Published, Proved!SequenceOf, Proved!EventAt, Proved!NextInRedis,
    Proved!NamedSequences, Proved!InOrder, Proved!Frames, Proved!Given, Proved!FirstGap,
    Proved!FlushFrom, Proved!ResetBuffer, Proved!Buffered, Proved!Emit, Proved!Receipt,
    Proved!ForceFlush, Proved!Arrive, Proved!Lose, Proved!Timeout, Proved!BreakFlush, Proved!At,
    Proved!Join, Proved!Ready, Proved!Fenced, Proved!CheckFails, Proved!AfterFence,
    Proved!Leave, Proved!ReplayedNext, Proved!Replay, Proved!ReadCounter, Proved!WithoutCopies,
    Proved!GoOnFrom, Proved!Rearmed, Proved!Apply, Proved!Settles, Proved!Next,
    Proved!OnceInOrder, Proved!NothingSkipped, Proved!Max, Proved!Min, Proved!Cardinality,
    Proved!IsFiniteSet

\* While the election is exercised the transport rests.
LEMMA TransportMoves == [PartsNext]_partVars => [Transport!Next]_(Transport!vars)
  BY DEF PartsNext, Only, partVars, transportVars, Transport!vars, Transport!emission,
         Transport!buffer, Transport!outcome

\* No viewer gets an event twice or out of turn, and none is skipped but for gaps that were
\* given up (the replay frontier of attachSubscription, syncReorderBuffer and the reorder
\* buffer of RedisEventTransport.ts), for any viewers, events, faults and waiting frames.
THEOREM OrderKept == PartsSpec => []DeliveredInOrder
<1>1. PartsInit => Proved!TransportInv
  BY PartsAssumption, SameTransport, Proved!Begins DEF PartsInit
<1>2. Proved!TransportInv /\ [PartsNext]_partVars => Proved!TransportInv'
  BY PartsAssumption, SameTransport, TransportMoves, Proved!TransportStep
<1>3. Proved!TransportInv => DeliveredInOrder
  BY SameTransport DEF DeliveredInOrder, Proved!TransportInv
<1> QED  BY <1>1, <1>2, <1>3, PTL DEF PartsSpec
=============================================================================
