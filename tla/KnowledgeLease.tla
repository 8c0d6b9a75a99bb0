--------------------------- MODULE KnowledgeLease ---------------------------
(***************************************************************************)
(* The lease of one knowledge source (KnowledgeStore.acquire, renew,       *)
(* release and mutate) and the life of the worker invocations that hold it *)
(* (the frame of KnowledgeService.processNext).                            *)
(*                                                                         *)
(* The lease lives in the source document.  Its end is kept here as the    *)
(* time it has left, so that the clock needs no bound of its own.  MongoDB *)
(* serialises writers of one document: a transaction that has written the  *)
(* source document keeps every other writer of it waiting until it commits *)
(* or aborts, which is what writeLock says.                                *)
(***************************************************************************)
EXTENDS Naturals

CONSTANTS
  Workers,     \* worker processes
  NoWorker,    \* nobody
  LeaseTicks,  \* leaseMs, in ticks of the clock
  MaxFence     \* bound on the number of grants explored

ASSUME LeaseAssumption ==
  /\ NoWorker \notin Workers
  /\ LeaseTicks \in Nat \ {0}
  /\ MaxFence \in Nat

VARIABLES
  owner,      \* leaseOwner
  fence,      \* leaseFence
  ttl,        \* leaseUntil - NOW, 0 once the lease has run out
  writeLock,  \* the worker whose transaction has written the source document
  pc,         \* where each worker's processNext is
  held,       \* the fence in the lease each invocation was given
  lost,       \* the invocation's leaseLost flag
  renewals,   \* renewals that heartbeats have sent and MongoDB has not seen
  committed   \* the fence under which the latest transaction was committed

leaseVars == <<owner, fence, ttl>>
workerVars == <<pc, held, lost>>
vars == <<owner, fence, ttl, writeLock, pc, held, lost, renewals, committed>>

Leases == [owner : Workers, fence : Nat]
Steps == {"idle", "work", "guarded", "sealed", "leaving"}

TypeOK ==
  /\ owner \in Workers \cup {NoWorker}
  /\ fence \in Nat
  /\ ttl \in 0..LeaseTicks
  /\ writeLock \in Workers \cup {NoWorker}
  /\ pc \in [Workers -> Steps]
  /\ held \in [Workers -> Nat]
  /\ lost \in [Workers -> BOOLEAN]
  /\ renewals \subseteq Leases
  /\ committed \in Nat

Init ==
  /\ owner = NoWorker
  /\ fence = 0
  /\ ttl = 0
  /\ writeLock = NoWorker
  /\ pc = [w \in Workers |-> "idle"]
  /\ held = [w \in Workers |-> 0]
  /\ lost = [w \in Workers |-> FALSE]
  /\ renewals = {}
  /\ committed = 0

-----------------------------------------------------------------------------

LeaseOf(w) == [owner |-> w, fence |-> held[w]]

\* release looks for its own lease and does not ask whether it has run out.
StillNamed(lease) ==
  /\ owner = lease.owner
  /\ fence = lease.fence

\* A slip: any lease that has time left will do.
SomeLeaseHolds(lease) == ttl > 0

\* leaseFilter: the lease is still the one in the document, and has time left.
LeaseHolds(lease) == StillNamed(lease) /\ ttl > 0

\* renew sets leaseUntil to leaseMs from NOW.
RenewedTime == LeaseTicks

Tick ==
  /\ ttl > 0
  /\ ttl' = ttl - 1
  /\ UNCHANGED <<owner, fence, writeLock, workerVars, renewals, committed>>

Acquire(w) ==
  /\ pc[w] = "idle"
  /\ writeLock = NoWorker
  /\ ttl = 0
  /\ fence < MaxFence
  /\ owner' = w
  /\ fence' = fence + 1
  /\ ttl' = LeaseTicks
  /\ pc' = [pc EXCEPT ![w] = "work"]
  /\ held' = [held EXCEPT ![w] = fence + 1]
  /\ lost' = [lost EXCEPT ![w] = FALSE]
  /\ UNCHANGED <<writeLock, renewals, committed>>

\* The heartbeat timer fires; heartbeatBusy lets one renewal be under way.
SendRenewal(w) ==
  /\ pc[w] \in {"work", "guarded", "sealed"}
  /\ LeaseOf(w) \notin renewals
  /\ renewals' = renewals \cup {LeaseOf(w)}
  /\ UNCHANGED <<leaseVars, writeLock, workerVars, committed>>

\* The invocation that sent a renewal hears that it failed.
Notify(lease) ==
  lost' = [w \in Workers |-> lost[w] \/ (pc[w] # "idle" /\ LeaseOf(w) = lease)]

\* MongoDB applies a renewal, late perhaps.  A renewal that finds its lease gone
\* fails; the caller of one that succeeds may still get an error.
ApplyRenewal(lease) ==
  /\ lease \in renewals
  /\ writeLock = NoWorker
  /\ renewals' = renewals \ {lease}
  /\ \/ /\ LeaseHolds(lease)
        /\ ttl' = RenewedTime
        /\ UNCHANGED lost \/ Notify(lease)
     \/ /\ ~LeaseHolds(lease)
        /\ UNCHANGED ttl
        /\ Notify(lease)
  /\ UNCHANGED <<owner, fence, writeLock, pc, held, committed>>

\* A renewal never reaches the database.
DropRenewal(lease) ==
  /\ lease \in renewals
  /\ renewals' = renewals \ {lease}
  /\ Notify(lease)
  /\ UNCHANGED <<leaseVars, writeLock, pc, held, committed>>

\* The first statement of mutate writes the source document under the lease
\* filter.  The transaction goes on only if it matched.
BeginMutation(w) ==
  /\ pc[w] = "work"
  /\ writeLock = NoWorker
  /\ \/ /\ LeaseHolds(LeaseOf(w))
        /\ writeLock' = w
        /\ pc' = [pc EXCEPT ![w] = "guarded"]
     \/ /\ ~LeaseHolds(LeaseOf(w))
        /\ pc' = [pc EXCEPT ![w] = "leaving"]
        /\ UNCHANGED writeLock
  /\ UNCHANGED <<leaseVars, held, lost, renewals, committed>>

\* The last statement of mutate: the final guard, after the callback.
SealMutation(w) ==
  /\ pc[w] = "guarded"
  /\ \/ /\ LeaseHolds(LeaseOf(w))
        /\ pc' = [pc EXCEPT ![w] = "sealed"]
        /\ UNCHANGED writeLock
     \/ /\ ~LeaseHolds(LeaseOf(w))
        /\ pc' = [pc EXCEPT ![w] = "leaving"]
        /\ writeLock' = NoWorker
  /\ UNCHANGED <<leaseVars, held, lost, renewals, committed>>

CommitMutation(w) ==
  /\ pc[w] = "sealed"
  /\ committed' = held[w]
  /\ writeLock' = NoWorker
  /\ pc' = [pc EXCEPT ![w] = "work"]
  /\ UNCHANGED <<leaseVars, held, lost, renewals>>

\* The callback of mutate throws, or MongoDB aborts the transaction: the error
\* is handled inside the invocation.
AbortMutation(w) ==
  /\ pc[w] \in {"guarded", "sealed"}
  /\ writeLock' = NoWorker
  /\ pc' = [pc EXCEPT ![w] = "work"]
  /\ UNCHANGED <<leaseVars, held, lost, renewals, committed>>

\* The step loop ends: the work is done, or leaseLost is up.
Finish(w) ==
  /\ pc[w] = "work"
  /\ pc' = [pc EXCEPT ![w] = "leaving"]
  /\ UNCHANGED <<leaseVars, writeLock, held, lost, renewals, committed>>

\* The finally block: the heartbeat is cleared and the lease released, if it is
\* still this invocation's.
Release(w) ==
  /\ pc[w] = "leaving"
  /\ writeLock = NoWorker
  /\ pc' = [pc EXCEPT ![w] = "idle"]
  /\ \/ /\ StillNamed(LeaseOf(w))
        /\ owner' = NoWorker
        /\ ttl' = 0
     \/ /\ ~StillNamed(LeaseOf(w))
        /\ UNCHANGED <<owner, ttl>>
  /\ UNCHANGED <<fence, writeLock, held, lost, renewals, committed>>

\* The process dies.  Its open transaction is aborted by the server; its lease
\* stays until it runs out.
Crash(w) ==
  /\ pc[w] # "idle"
  /\ pc' = [pc EXCEPT ![w] = "idle"]
  /\ writeLock' = IF writeLock = w THEN NoWorker ELSE writeLock
  /\ UNCHANGED <<leaseVars, held, lost, renewals, committed>>

WorkerStep(w) ==
  \/ Acquire(w) \/ SendRenewal(w)
  \/ BeginMutation(w) \/ SealMutation(w) \/ CommitMutation(w) \/ AbortMutation(w)
  \/ Finish(w) \/ Release(w)

Next ==
  \/ Tick
  \/ \E w \in Workers : WorkerStep(w) \/ Crash(w)
  \/ \E lease \in renewals : ApplyRenewal(lease) \/ DropRenewal(lease)

Spec == Init /\ [][Next]_vars

-----------------------------------------------------------------------------
(***************************************************************************)
(* Properties                                                              *)
(***************************************************************************)

\* A transaction that has passed its first guard cannot be superseded: until it
\* ends, the fence it started under is the fence of the source, its owner the
\* owner, and no other worker has a transaction past its guard
\* (KnowledgeStore.mutate).
GuardedIsCurrent ==
  \A w \in Workers :
    pc[w] \in {"guarded", "sealed"} =>
      /\ writeLock = w
      /\ owner = w
      /\ fence = held[w]

\* A lease that ran out or was released comes back to life only as a new grant:
\* no renewal, however late, revives it (KnowledgeStore.renew, release).
NoRevival == [][ttl = 0 /\ ttl' > 0 => fence' = fence + 1]_vars

\* The lease keeps the promise of the abstract fence: every commit is made under
\* the latest grant, and none after that grant was released.
Fence == INSTANCE KnowledgeFence WITH
  granted <- fence, open <- owner # NoWorker, written <- committed

ImplementsFence == Fence!FenceSpec

\* The step loop reads leaseLost before every step, and mutate throws, so an
\* invocation that goes on working meets one of them.
Superseded(w) == pc[w] # "idle" /\ held[w] # fence

Fairness ==
  \A w \in Workers :
    /\ WF_vars(SealMutation(w) \/ CommitMutation(w) \/ AbortMutation(w))
    /\ SF_vars(BeginMutation(w))
    /\ SF_vars(Release(w))

FairSpec == Spec /\ Fairness

\* A worker whose lease was taken over does not keep working for ever: its next
\* mutation is refused and the invocation ends (processNext rethrows LEASE_LOST).
SupersededStops == \A w \in Workers : Superseded(w) ~> ~Superseded(w)
=============================================================================
