------------------------ MODULE KnowledgeLeaseProofs ------------------------
(***************************************************************************)
(* Theorems about KnowledgeLease, for any set of workers, any lease time   *)
(* and any number of grants.                                               *)
(***************************************************************************)
EXTENDS KnowledgeLease, TLAPS

-----------------------------------------------------------------------------

\* Every variable keeps its type (the source document and the local state of
\* processNext).
THEOREM TypeCorrect == Spec => []TypeOK
<1>1. Init => TypeOK
  BY LeaseAssumption DEF Init, TypeOK, Steps
<1>2. TypeOK /\ [Next]_vars => TypeOK'
  <2> SUFFICES ASSUME TypeOK, [Next]_vars
               PROVE  TypeOK'
    OBVIOUS
  <2> USE LeaseAssumption DEF TypeOK, leaseVars, workerVars, Steps
  <2>1. CASE UNCHANGED vars
    BY <2>1 DEF vars
  <2>2. CASE Next
    <3>1. Tick => TypeOK'
      BY DEF Tick
    <3>2. ASSUME NEW w \in Workers
          PROVE  /\ Acquire(w) => TypeOK'
                 /\ SendRenewal(w) => TypeOK'
                 /\ BeginMutation(w) => TypeOK'
                 /\ SealMutation(w) => TypeOK'
                 /\ CommitMutation(w) => TypeOK'
                 /\ AbortMutation(w) => TypeOK'
                 /\ Finish(w) => TypeOK'
                 /\ Release(w) => TypeOK'
                 /\ Crash(w) => TypeOK'
      <4>1. Acquire(w) => TypeOK'  BY DEF Acquire
      <4>2. SendRenewal(w) => TypeOK'  BY DEF SendRenewal, LeaseOf, Leases
      <4>3. BeginMutation(w) => TypeOK'  BY DEF BeginMutation
      <4>4. SealMutation(w) => TypeOK'  BY DEF SealMutation
      <4>5. CommitMutation(w) => TypeOK'  BY DEF CommitMutation
      <4>6. AbortMutation(w) => TypeOK'  BY DEF AbortMutation
      <4>7. Finish(w) => TypeOK'  BY DEF Finish
      <4>8. Release(w) => TypeOK'  BY DEF Release
      <4>9. Crash(w) => TypeOK'  BY DEF Crash
      <4> QED  BY <4>1, <4>2, <4>3, <4>4, <4>5, <4>6, <4>7, <4>8, <4>9
    <3>3. ASSUME NEW lease \in renewals
          PROVE  /\ ApplyRenewal(lease) => TypeOK'
                 /\ DropRenewal(lease) => TypeOK'
      <4>1. Notify(lease) => lost' \in [Workers -> BOOLEAN]
        BY DEF Notify
      <4>2. ApplyRenewal(lease) => TypeOK'
        BY <4>1 DEF ApplyRenewal, RenewedTime
      <4>3. DropRenewal(lease) => TypeOK'
        BY <4>1 DEF DropRenewal
      <4> QED  BY <4>2, <4>3
    <3> QED  BY <2>2, <3>1, <3>2, <3>3 DEF Next, WorkerStep
  <2> QED  BY <2>1, <2>2
<1> QED  BY <1>1, <1>2, PTL DEF Spec

-----------------------------------------------------------------------------
(***************************************************************************)
(* The inductive invariant.  GuardedIsCurrent alone is not inductive: that *)
(* no grant happens while a transaction is past its guard rests on the     *)
(* write lock, and the lock must be seen to belong to such a transaction.  *)
(***************************************************************************)

\* Only a transaction past its guard holds the write lock.
LockIsGuarded ==
  writeLock # NoWorker => pc[writeLock] \in {"guarded", "sealed"}

Inv == TypeOK /\ GuardedIsCurrent /\ LockIsGuarded

LEMMA InvInit == Init => GuardedIsCurrent /\ LockIsGuarded
BY DEF Init, GuardedIsCurrent, LockIsGuarded

\* One step keeps the invariant: a step that changes the owner, the fence or the
\* lock finds no other transaction past its guard.
LEMMA InvStep ==
  ASSUME Inv, [Next]_vars
  PROVE  (GuardedIsCurrent /\ LockIsGuarded)'
<1> DEFINE P == (GuardedIsCurrent /\ LockIsGuarded)'
<1> USE LeaseAssumption
     DEF Inv, TypeOK, GuardedIsCurrent, LockIsGuarded, leaseVars, workerVars, Steps
<1>1. CASE UNCHANGED vars
  BY <1>1 DEF vars
<1>2. CASE Next
  <2>1. Tick => P
    BY DEF Tick
  <2>2. ASSUME NEW w \in Workers
        PROVE  /\ Acquire(w) => P
               /\ SendRenewal(w) => P
               /\ BeginMutation(w) => P
               /\ SealMutation(w) => P
               /\ CommitMutation(w) => P
               /\ AbortMutation(w) => P
               /\ Finish(w) => P
               /\ Release(w) => P
               /\ Crash(w) => P
    <3>1. Acquire(w) => P
      BY DEF Acquire
    <3>2. SendRenewal(w) => P
      BY DEF SendRenewal
    <3>3. BeginMutation(w) => P
      BY DEF BeginMutation, LeaseHolds, StillNamed, LeaseOf
    <3>4. SealMutation(w) => P
      BY DEF SealMutation, LeaseHolds, StillNamed, LeaseOf
    <3>5. CommitMutation(w) => P
      BY DEF CommitMutation
    <3>6. AbortMutation(w) => P
      BY DEF AbortMutation
    <3>7. Finish(w) => P
      BY DEF Finish
    <3>8. Release(w) => P
      BY DEF Release
    <3>9. Crash(w) => P
      BY DEF Crash
    <3> QED  BY <3>1, <3>2, <3>3, <3>4, <3>5, <3>6, <3>7, <3>8, <3>9
  <2>3. ASSUME NEW lease \in renewals
        PROVE  /\ ApplyRenewal(lease) => P
               /\ DropRenewal(lease) => P
    BY DEF ApplyRenewal, DropRenewal
  <2> HIDE DEF P
  <2>4. P  BY <1>2, <2>1, <2>2, <2>3 DEF Next, WorkerStep
  <2> QED  BY <2>4 DEF P
<1> QED  BY <1>1, <1>2

LEMMA InvCorrect == Spec => []Inv
<1>1. TypeOK /\ GuardedIsCurrent /\ LockIsGuarded /\ [Next]_vars
        => (GuardedIsCurrent /\ LockIsGuarded)'
  BY InvStep DEF Inv
<1>2. Spec => [](GuardedIsCurrent /\ LockIsGuarded)
  BY InvInit, <1>1, TypeCorrect, PTL DEF Spec
<1>3. Spec => [](TypeOK /\ GuardedIsCurrent /\ LockIsGuarded)
  BY <1>2, TypeCorrect, PTL
<1> QED  BY <1>3, PTL DEF Inv

\* No transaction that has passed its guard is ever superseded, whatever the
\* number of workers and however their renewals are delayed.
THEOREM GuardedNeverSuperseded == Spec => []GuardedIsCurrent
<1>1. Inv => GuardedIsCurrent
  BY DEF Inv
<1> QED  BY <1>1, InvCorrect, PTL

\* No late renewal revives a lease that ran out or was released.
THEOREM NoRenewalRevives == Spec => NoRevival
<1>1. TypeOK /\ [Next]_vars => [ttl = 0 /\ ttl' > 0 => fence' = fence + 1]_vars
  <2> SUFFICES ASSUME TypeOK, [Next]_vars
               PROVE  [ttl = 0 /\ ttl' > 0 => fence' = fence + 1]_vars
    OBVIOUS
  <2> DEFINE P == ttl = 0 /\ ttl' > 0 => fence' = fence + 1
  <2>1. CASE UNCHANGED vars
    BY <2>1
  <2>2. CASE Next
    <3> USE DEF TypeOK, leaseVars, workerVars
    <3>1. Tick => P
      BY DEF Tick
    <3>2. ASSUME NEW w \in Workers
          PROVE  /\ Acquire(w) => P
                 /\ SendRenewal(w) => P
                 /\ BeginMutation(w) => P
                 /\ SealMutation(w) => P
                 /\ CommitMutation(w) => P
                 /\ AbortMutation(w) => P
                 /\ Finish(w) => P
                 /\ Release(w) => P
                 /\ Crash(w) => P
      BY DEF Acquire, SendRenewal, BeginMutation, SealMutation, CommitMutation,
             AbortMutation, Finish, Release, Crash
    <3>3. ASSUME NEW lease \in renewals
          PROVE  /\ ApplyRenewal(lease) => P
                 /\ DropRenewal(lease) => P
      BY DEF ApplyRenewal, DropRenewal, LeaseHolds, StillNamed, RenewedTime
    <3> HIDE DEF P
    <3>4. P  BY <2>2, <3>1, <3>2, <3>3 DEF Next, WorkerStep
    <3> QED  BY <3>4 DEF P
  <2> QED  BY <2>1, <2>2
<1> QED  BY <1>1, TypeCorrect, PTL DEF Spec, NoRevival

-----------------------------------------------------------------------------

\* The detailed lease implements the abstract fence: every commit is made under
\* the latest grant, and no commit follows that grant's release.
THEOREM LeaseImplementsFence == Spec => ImplementsFence
<1> USE DEF Fence!fenceVars
<1>1. Init => Fence!FenceInit
  BY DEF Init, Fence!FenceInit
<1>2. Inv /\ [Next]_vars => [Fence!FenceNext]_(Fence!fenceVars)
  <2> SUFFICES ASSUME Inv, [Next]_vars
               PROVE  [Fence!FenceNext]_(Fence!fenceVars)
    OBVIOUS
  <2> DEFINE P == [Fence!FenceNext]_(Fence!fenceVars)
  <2> USE LeaseAssumption
       DEF Inv, TypeOK, leaseVars, workerVars,
           Fence!FenceNext, Fence!Grant, Fence!Write, Fence!HandBack
  <2>1. CASE UNCHANGED vars
    BY <2>1 DEF vars
  <2>2. CASE Next
    <3>1. Tick => P
      BY DEF Tick
    <3>2. ASSUME NEW w \in Workers
          PROVE  /\ Acquire(w) => P
                 /\ SendRenewal(w) => P
                 /\ BeginMutation(w) => P
                 /\ SealMutation(w) => P
                 /\ CommitMutation(w) => P
                 /\ AbortMutation(w) => P
                 /\ Finish(w) => P
                 /\ Release(w) => P
                 /\ Crash(w) => P
      <4>1. Acquire(w) => P
        BY DEF Acquire
      <4>2. CommitMutation(w) => P
        BY DEF CommitMutation, GuardedIsCurrent
      <4>3. Release(w) => P
        BY DEF Release, StillNamed, LeaseOf
      <4>4. SendRenewal(w) \/ BeginMutation(w) \/ SealMutation(w)
              \/ AbortMutation(w) \/ Finish(w) \/ Crash(w) => P
        BY DEF SendRenewal, BeginMutation, SealMutation, AbortMutation, Finish, Crash
      <4> QED  BY <4>1, <4>2, <4>3, <4>4
    <3>3. ASSUME NEW lease \in renewals
          PROVE  /\ ApplyRenewal(lease) => P
                 /\ DropRenewal(lease) => P
      BY DEF ApplyRenewal, DropRenewal
    <3> HIDE DEF P
    <3>4. P  BY <2>2, <3>1, <3>2, <3>3 DEF Next, WorkerStep
    <3> QED  BY <3>4 DEF P
  <2> QED  BY <2>1, <2>2
<1> QED  BY <1>1, <1>2, InvCorrect, PTL DEF Spec, ImplementsFence, Fence!FenceSpec
=============================================================================
