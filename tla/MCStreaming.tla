---------------------------- MODULE MCStreaming ----------------------------
(***************************************************************************)
(* What the servers share through Redis, side by side as in                *)
(* KnowledgeServices: a behaviour exercises the transport of a stream or   *)
(* the election of a leader, which is the extended module.                 *)
(***************************************************************************)
EXTENDS LeaderElection

CONSTANTS
  Parts,                                          \* the parts that may be exercised
  Viewers, Base, MaxEvents, MaxFaults, MaxBuffer  \* of the transport

VARIABLES
  part,
  emitted, log, wire, early, unsettled, nameless, closed, attached, joined, attachPc,
    frontier, reads, deferred, nextSeq, pending, flushTimer, got, whole, passed, stranded,
    broken, faults

transportVars == <<emitted, log, wire, early, unsettled, nameless, closed, attached, joined,
  attachPc, frontier, reads, deferred, nextSeq, pending, flushTimer, got, whole, passed,
  stranded, broken, faults>>

Transport == INSTANCE StreamTransport WITH pc <- attachPc, timer <- flushTimer

ASSUME PartsAssumption ==
  Parts \subseteq {"election", "transport"} /\ Transport!TransportAssumption

PartsInit == part \in Parts /\ Init /\ Transport!Init

\* The step is the named part's, and the others rest.
Only(name) ==
  /\ part = name /\ UNCHANGED part
  /\ name # "election" => UNCHANGED vars
  /\ name # "transport" => UNCHANGED transportVars

PartsNext ==
  \/ Only("election") /\ Next
  \/ Only("transport") /\ Transport!Next

partVars == <<part, vars, transportVars>>

\* The fairness that each module states, while its part is exercised; nothing is said of
\* an election that was late.
InTime == part = "election" /\ ~late
PartsFairness ==
  /\ SF_vars(InTime /\ Tick)
  /\ \A s \in Servers :
       /\ WF_vars(InTime /\ Fire(s))
       /\ \A r \in Renewals : WF_vars(InTime /\ HearRenewal(s, r))
       /\ \A c \in Calls :
            /\ WF_vars(InTime /\ Ask(s, c))
            /\ WF_vars(InTime /\ HearLeader(s, c))
            /\ WF_vars(InTime /\ Elect(s, c))
            /\ WF_vars(InTime /\ HearElected(s, c))
            /\ WF_vars(InTime /\ HearOwner(s, c))
  /\ WF_transportVars(part = "transport" /\ ~broken /\ \E e \in 1..MaxEvents : Transport!Receipt(e))
  /\ WF_transportVars(part = "transport" /\ ~broken /\ Transport!Timeout)
  /\ \A v \in Viewers :
       WF_transportVars(part = "transport" /\ ~broken /\ Transport!Settles(v))

PartsSpec == PartsInit /\ [][PartsNext]_partVars /\ PartsFairness

-----------------------------------------------------------------------------
(***************************************************************************)
(* Properties of the parts, by the names of this run                       *)
(***************************************************************************)

\* LeaderElection.ts: again and again there is a leader, and who lost the key knows.
LeadershipHeals == []<>(part = "election" => late \/ Led)

\* RedisEventTransport.ts, GenerationJobManager.ts: no viewer gets an event twice or out of
\* turn, and none is skipped but for gaps that were given up.
DeliveredInOrder == Transport!OnceInOrder /\ Transport!NothingSkipped

\* The same: neither a deferral nor a gap holds events back for ever.
NothingHeldBack == Transport!NothingHeldBack
=============================================================================
