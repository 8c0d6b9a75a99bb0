-------------------------- MODULE StreamTransport --------------------------
(***************************************************************************)
(* The way of an answer's events from the generation to the viewers that   *)
(* are attached in its own process: the early buffer and the attachment    *)
(* of GenerationJobManager.ts, the sequence counter and the channel in     *)
(* Redis, and the reorder buffer of RedisEventTransport.ts, which all      *)
(* viewers of one stream share.                                            *)
(*                                                                         *)
(* Frames arrive in any order and may be lost; a publication may fail      *)
(* before or after it took effect; the job store and the counter may fail  *)
(* to answer; a viewer may leave at any moment, in the middle of a flush   *)
(* too.  Sequences go on from an earlier turn.  A step runs up to the      *)
(* next answer of Redis, of the job store or of a timer; the answers of    *)
(* two commands are handled one after the other.  A viewer stands for one  *)
(* attachment: who comes back is another viewer.                           *)
(***************************************************************************)
EXTENDS Integers, Sequences, FiniteSetsExt

CONSTANTS
  Viewers,     \* attachments that are not resumptions
  Base,        \* the next sequence of the conversation when the generation begins
  MaxEvents,   \* bound: events of the generation
  MaxFaults,   \* bound: frames that are lost and publications that fail
  MaxBuffer    \* frames that wait before a flush is forced (100)

\* What MCStreaming assumes of these, and the theorems with it.
TransportAssumption ==
  Base \in Nat /\ MaxEvents \in Nat /\ MaxFaults \in Nat /\ MaxBuffer \in Nat

VARIABLES
  emitted,     \* events that were emitted
  log,         \* the events in the order of their sequences, from Base on
  wire,        \* sequences published and not arrived
  early,       \* events buffered before anybody watched
  unsettled,   \* those whose receipt is outstanding
  nameless,    \* published events whose receipt was lost
  closed,      \* earlyEventBufferClosed
  attached,    \* hasSubscriber
  joined,      \* the viewers with a handler
  pc,          \* where each attachment is
  frontier,    \* the sequence it will go on from
  reads,       \* the attachments that wait for the counter, in their order
  deferred,    \* deliveryDeferred
  nextSeq,
  pending,     \* sequences that arrived and wait
  timer,       \* flushTimeout is set
  got,         \* the events given to each viewer
  whole,       \* the viewers that the early buffer was replayed to
  passed,      \* sequences that a flush, the counter or an attachment left behind
  stranded,    \* the store failed the attachment that was to end the deferral
  broken,      \* a flush met a frame that was no longer there
  faults

emission == <<emitted, log, early, unsettled, nameless, closed>>
buffer == <<deferred, nextSeq, pending, timer>>
outcome == <<got, whole, passed>>
vars == <<emission, wire, attached, joined, pc, frontier, reads, buffer, outcome,
          stranded, broken, faults>>

Init ==
  /\ emitted = 0 /\ log = <<>> /\ wire = {}
  /\ early = {} /\ unsettled = {} /\ nameless = {} /\ closed = FALSE
  /\ attached = FALSE /\ joined = {}
  /\ pc = [v \in Viewers |-> "out"] /\ frontier = [v \in Viewers |-> 0]
  /\ reads = <<>>
  /\ deferred = FALSE /\ nextSeq = 0 /\ pending = {} /\ timer = FALSE
  /\ got = [v \in Viewers |-> <<>>] /\ whole = {} /\ passed = {}
  /\ stranded = FALSE /\ broken = FALSE /\ faults = 0

-----------------------------------------------------------------------------
(***************************************************************************)
(* Helpers                                                                 *)
(***************************************************************************)

Published(e) == \E i \in 1..Len(log) : log[i] = e
SequenceOf(e) == Base - 1 + CHOOSE i \in 1..Len(log) : log[i] = e
EventAt(s) == log[s - Base + 1]
NextInRedis == Base + Len(log)
\* The sequences that the receipts of the buffered events named.
NamedSequences == {SequenceOf(e) : e \in {x \in early \ nameless : Published(x)}}

\* The numbers of S in order, each at the place that those up to it count.
InOrder(S) ==
  [i \in 1..Cardinality(S) |-> CHOOSE s \in S : Cardinality({t \in S : t <= s}) = i]

\* deliverMessage, for the frames with these sequences, in order, to all handlers.
Frames(S) == [i \in DOMAIN InOrder(S) |-> EventAt(InOrder(S)[i])]
Given(events) == [v \in Viewers |-> IF v \in joined THEN got[v] \o events ELSE got[v]]

\* The first sequence from n on that does not wait: where flushPendingMessages ends.
FirstGap(n, S) == Min({m \in n..(n + Cardinality(S)) : m \notin S})

\* flushPendingMessages from sequence n, with S waiting; the frames before n have
\* just been taken out.  The timer is kept while something waits.
FlushFrom(n, S, taken, armed) ==
  LET end == FirstGap(n, S)
      left == S \ (n..end - 1)
  IN  /\ nextSeq' = end /\ pending' = left
      /\ timer' = (armed /\ left # {})
      /\ got' = Given(Frames(taken \cup (n..end - 1)))

\* resetReorderBuffer
ResetBuffer == nextSeq' = 0 /\ pending' = {} /\ timer' = FALSE

-----------------------------------------------------------------------------
(***************************************************************************)
(* The generation emits                                                    *)
(***************************************************************************)

\* The event goes to the early buffer while nobody watches and the buffer is open.
Buffered == ~attached /\ ~closed

\* emitChunkNow: an event is buffered or not, and published by one script, which
\* takes the next sequence; the publication may fail without effect.
Emit ==
  /\ emitted < MaxEvents
  /\ emitted' = emitted + 1
  /\ \/ /\ log' = Append(log, emitted + 1) /\ wire' = wire \cup {NextInRedis}
        /\ UNCHANGED faults
     \/ /\ faults < MaxFaults /\ faults' = faults + 1 /\ UNCHANGED <<log, wire>>
  /\ early' = IF Buffered THEN early \cup {emitted + 1} ELSE early
  /\ unsettled' = IF Buffered THEN unsettled \cup {emitted + 1} ELSE unsettled
  /\ UNCHANGED <<nameless, closed, attached, joined, pc, frontier, reads, buffer, outcome,
                 stranded, broken>>

\* The receipt of a buffered event arrives, or the failure of its publication, which
\* may have taken effect.
Receipt(e) ==
  /\ e \in unsettled
  /\ unsettled' = unsettled \ {e}
  /\ \/ UNCHANGED <<nameless, faults>>
     \/ /\ Published(e) /\ faults < MaxFaults /\ faults' = faults + 1
        /\ nameless' = nameless \cup {e}
  /\ UNCHANGED <<emitted, log, early, closed, wire, attached, joined, pc, frontier, reads,
                 buffer, outcome, stranded, broken>>

-----------------------------------------------------------------------------
(***************************************************************************)
(* The transport delivers                                                  *)
(***************************************************************************)

\* forceFlushBuffer for the frames S: what is missing among them is given up.
ForceFlush(S) ==
  /\ got' = Given(Frames(S))
  /\ passed' = passed \cup {s \in nextSeq..Max(S) : s \notin S}
  /\ nextSeq' = Max(S) + 1 /\ pending' = {} /\ timer' = FALSE
  /\ UNCHANGED <<joined, attached, deferred, pc, whole, broken>>

\* handleOrderedChunk; a terminal event (handleTerminalEvent) differs in that it never
\* forces the flush, and waits for its timer instead.
Arrive(s) ==
  /\ s \in wire
  /\ wire' = wire \ {s}
  /\ \/ /\ joined = {} \/ (~deferred /\ s < nextSeq)
        /\ UNCHANGED <<buffer, outcome, joined, attached, pc, broken>>
     \/ /\ joined # {} /\ deferred
        /\ pending' = pending \cup {s}
        /\ UNCHANGED <<deferred, nextSeq, timer, outcome, joined, attached, pc, broken>>
     \/ /\ joined # {} /\ ~deferred /\ s = nextSeq
        /\ FlushFrom(s + 1, pending, {s}, timer)
        /\ UNCHANGED <<deferred, whole, passed, joined, attached, pc, broken>>
     \/ /\ joined # {} /\ ~deferred /\ s > nextSeq
        /\ Cardinality(pending \cup {s}) < MaxBuffer
        /\ pending' = pending \cup {s} /\ timer' = TRUE
        /\ UNCHANGED <<deferred, nextSeq, outcome, joined, attached, pc, broken>>
     \/ /\ joined # {} /\ ~deferred /\ s > nextSeq
        /\ Cardinality(pending \cup {s}) >= MaxBuffer
        /\ ForceFlush(pending \cup {s})
  /\ UNCHANGED <<emission, frontier, reads, stranded, faults>>

Lose(s) ==
  /\ s \in wire /\ faults < MaxFaults
  /\ wire' = wire \ {s} /\ faults' = faults + 1
  /\ UNCHANGED <<emission, attached, joined, pc, frontier, reads, buffer, outcome, stranded,
                 broken>>

\* The flush timer fires.
Timeout ==
  /\ timer /\ pending # {}
  /\ ForceFlush(pending)
  /\ UNCHANGED <<emission, wire, frontier, reads, stranded, faults>>

\* The handlers' writer finds the stream stopped and detaches the last viewer in the
\* middle of a flush, which empties the buffer: the next frame of the flush is not
\* there, the timer's callback throws, and the process ends.
BreakFlush ==
  /\ timer /\ Cardinality(pending) > 1 /\ joined # {}
  /\ broken' = TRUE
  /\ \E k \in 1..Cardinality(pending) - 1 : got' = Given(SubSeq(Frames(pending), 1, k))
  /\ joined' = {} /\ attached' = FALSE /\ deferred' = FALSE /\ ResetBuffer
  /\ UNCHANGED <<emission, wire, pc, frontier, reads, whole, passed, stranded, faults>>

-----------------------------------------------------------------------------
(***************************************************************************)
(* A viewer attaches and leaves                                            *)
(***************************************************************************)

At(v, step) == pc' = [pc EXCEPT ![v] = step]

\* subscribe: the first handler starts a fresh, deferred buffer.
Join(v) ==
  /\ pc[v] = "out"
  /\ At(v, "ready")
  /\ joined' = joined \cup {v}
  /\ IF joined = {} THEN ResetBuffer /\ deferred' = ~attached ELSE UNCHANGED buffer
  /\ UNCHANGED <<emission, wire, attached, frontier, reads, outcome, stranded, broken, faults>>

\* The channel is ready and the job is still the same; who finds nobody attached has
\* to replay the early events and to end the deferral.
Ready(v) ==
  /\ pc[v] = "ready"
  /\ attached' = TRUE
  /\ At(v, IF attached THEN "live" ELSE "fence")
  /\ UNCHANGED <<emission, wire, joined, frontier, reads, buffer, outcome, stranded, broken, faults>>

\* waitForEarlyEventPublications is over.
Fenced(v) ==
  /\ pc[v] = "fence" /\ unsettled = {}
  /\ At(v, "check")
  /\ UNCHANGED <<emission, wire, attached, joined, frontier, reads, buffer, outcome, stranded,
                 broken, faults>>

\* The check of the job fails, and the attachment with it: nobody else ends the deferral.
CheckFails(v) ==
  /\ pc[v] = "check"
  /\ At(v, "done") /\ stranded' = deferred
  /\ UNCHANGED <<emission, wire, attached, joined, frontier, reads, buffer, outcome, broken, faults>>

\* A slip: whoever attaches first also cleans up, and nobody goes on for the others.
AfterFenceDropped(v) == "done"

\* A viewer that leaves at the fence lets continueEarlyEventBootstrap go on.
AfterFence(v) == IF joined \ {v} # {} THEN "continue" ELSE "done"

\* unsubscribe; with the last viewer the attachment is over, and so is what was to go on
\* for it, but not what waits for the job store or the counter.  The events of its time
\* are in the durable log only.
Leave(v) ==
  /\ v \in joined
  /\ joined' = joined \ {v}
  /\ pc' = [w \in Viewers |->
       IF w = v THEN CASE pc[v] \in {"ready", "live"} -> "done"
                       [] pc[v] = "fence" -> AfterFence(v)
                       [] OTHER -> pc[v]
       ELSE IF joined = {v} /\ pc[w] = "continue" THEN "done" ELSE pc[w]]
  /\ IF joined = {v}
     THEN /\ ResetBuffer /\ deferred' = FALSE /\ attached' = FALSE
          /\ passed' = passed \cup {s \in Base..NextInRedis - 1 : EventAt(s) \notin early}
     ELSE UNCHANGED <<buffer, attached, passed>>
  /\ UNCHANGED <<emission, wire, frontier, reads, got, whole, stranded, broken, faults>>

\* The sequence after the last that was replayed.
ReplayedNext == Max(NamedSequences) + 1

\* The buffered events are given to all who are there, and the buffer is closed for good.
\* Without a named event among them the counter in Redis has to tell the frontier.
Replay(v) ==
  /\ pc[v] \in {"check", "continue"} /\ unsettled = {}
  /\ IF joined # {} /\ NamedSequences # {}
     THEN At(v, "apply") /\ frontier' = [frontier EXCEPT ![v] = ReplayedNext]
     ELSE At(v, "read") /\ UNCHANGED frontier
  /\ reads' = Append(reads, v)
  /\ got' = Given(InOrder(early))
  /\ whole' = IF closed THEN whole ELSE joined
  /\ early' = {} /\ closed' = TRUE
  /\ UNCHANGED <<emitted, log, unsettled, nameless, wire, attached, joined, buffer, passed,
                 stranded, broken, faults>>

\* syncReorderBuffer reads the counter where it has no frontier.
ReadCounter(v) ==
  /\ pc[v] = "read"
  /\ At(v, "trust") /\ frontier' = [frontier EXCEPT ![v] = NextInRedis]
  /\ UNCHANGED <<emission, wire, attached, joined, reads, buffer, outcome, stranded, broken, faults>>

\* What waits, without the copies of what was replayed.
WithoutCopies(v) == IF pc[v] = "apply" THEN {s \in pending : s >= frontier[v]} ELSE pending

\* A slip: what waits below the frontier is left behind.
FrontierOnly(v, S) == Max({nextSeq, frontier[v]})

\* Never past a frame that waits, and never back.
GoOnFrom(v, S) ==
  Max({nextSeq, Min({frontier[v]} \cup S)})

\* What waits after the deferral is flushed in time, though nothing more arrives.
Rearmed == TRUE

\* syncReorderBuffer goes on with the answer, or, with failed, without one; it applies
\* to whoever is there now.  Answers come in the order of the questions.
Apply(v, failed) ==
  /\ pc[v] \in {"apply", "trust"} \/ (failed /\ pc[v] = "read")
  /\ v = Head(reads) /\ reads' = Tail(reads)
  /\ At(v, IF v \in joined THEN "live" ELSE "done")
  /\ \/ /\ failed /\ ~deferred
        /\ UNCHANGED <<buffer, outcome>>
     \/ /\ failed => deferred
        /\ LET left == WithoutCopies(v)
               from == IF ~failed THEN GoOnFrom(v, left)
                       ELSE IF pc[v] = "apply" THEN Max({nextSeq, frontier[v]}) ELSE nextSeq
           IN  /\ FlushFrom(from, left, {}, Rearmed)
               /\ passed' = IF pc[v] = "trust"
                            THEN passed \cup {s \in nextSeq..from - 1 : s \notin pending}
                            ELSE passed
        /\ deferred' = FALSE /\ UNCHANGED whole
  /\ UNCHANGED <<emission, wire, attached, joined, frontier, stranded, broken, faults>>

-----------------------------------------------------------------------------

\* What the attachment of a viewer waits for.
Settles(v) ==
  \/ Ready(v) \/ Fenced(v) \/ Replay(v) \/ CheckFails(v) \/ ReadCounter(v)
  \/ \E failed \in BOOLEAN : Apply(v, failed)

Next ==
  /\ ~broken
  /\ \/ Emit \/ \E e \in 1..MaxEvents : Receipt(e)
     \/ \E s \in Base..Base + MaxEvents - 1 : Arrive(s) \/ Lose(s)
     \/ Timeout \/ BreakFlush
     \/ \E v \in Viewers : Join(v) \/ Settles(v) \/ Leave(v)

Spec == Init /\ [][Next]_vars

\* Promises settle, the stores answer or fail, and timers fire; that a frame arrives is
\* not assumed.
Fairness ==
  /\ WF_vars(~broken /\ \E e \in 1..MaxEvents : Receipt(e))
  /\ WF_vars(~broken /\ Timeout)
  /\ \A v \in Viewers : WF_vars(~broken /\ Settles(v))
FairSpec == Spec /\ Fairness

-----------------------------------------------------------------------------
(***************************************************************************)
(* Properties                                                              *)
(***************************************************************************)

\* No viewer gets an event twice or after a later one, whether it comes from the early
\* buffer, from the channel or from both; only an event whose publication failed, or seemed
\* to, may come out of turn (the replay frontier of attachSubscription and syncReorderBuffer).
OnceInOrder ==
  \A v \in Viewers : \A i, j \in DOMAIN got[v] :
    i < j => \/ got[v][i] < got[v][j]
             \/ \E e \in {got[v][i], got[v][j]} : e \in nameless \/ ~Published(e)

\* A viewer that the early events were replayed to has every event before nextSeq,
\* whoever led the attachment and however it ended, but for the gaps that a forced
\* flush gave up, the frames that the counter in Redis went past and what an earlier
\* attachment had to itself.
NothingSkipped ==
  \A v \in whole \cap joined : ~deferred =>
    \A s \in Base..nextSeq - 1 : s \in passed \/ \E i \in DOMAIN got[v] : got[v][i] = EventAt(s)

\* Nothing is held back for ever: delivery that is deferred for an attachment is released,
\* also when the viewer that leads it leaves (continueEarlyEventBootstrap), as long as the
\* job store answers it; and what waits for a frame that never comes is delivered in the
\* end (scheduleFlushTimeout).
NothingHeldBack == []<>(stranded \/ broken \/ (~deferred /\ pending = {}))

\* What a flush took up is there until it is delivered: forceFlushBuffer asserts it with
\* pending.get(seq)!.
FlushedIsPending == ~broken
=============================================================================
