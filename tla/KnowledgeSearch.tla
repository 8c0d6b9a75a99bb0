-------------------------- MODULE KnowledgeSearch --------------------------
(***************************************************************************)
(* Searches and checks of cited hits (knowledge/search.ts) that share the  *)
(* loads of the manifest, the snapshot of all that may be searched.        *)
(*                                                                         *)
(* A load is a round: queued by setImmediate, then started, then read in   *)
(* one snapshot transaction, and answered later.  A call joins the round   *)
(* it finds, works through the blocks of that snapshot and loads again,    *)
(* freshly, to learn whether what it worked on is still so.  One tenant.   *)
(***************************************************************************)
EXTENDS Integers

CONSTANTS
  Calls,        \* concurrent calls of search and validateHits
  Snapshots,    \* the contents a manifest can have (its digest is the snapshotId)
  None,         \* no snapshot
  MaxChanges,   \* bound on the changes of what may be searched
  MaxErrors     \* bound on the loads and scans that fail

ASSUME SearchAssumption ==
  /\ None \notin Snapshots
  /\ MaxChanges \in Nat /\ MaxErrors \in Nat

VARIABLES
  current,   \* the manifest that a load would read now, None if it would throw
  round,     \* the entry of pendingManifests
  step,      \* where each call is
  state,     \* the manifest each call works on
  wanted,    \* the snapshot named by its cursor or by validateHits, or None
  since,     \* the manifests current since the call asked for its last load
  changes,
  errors

callVars == <<step, state, wanted, since>>
vars == <<current, round, callVars, changes, errors>>

Answers == Snapshots \cup {None}
\* first and last: in a round; scan: at work; wait: for a round that had started.
Steps == {"idle", "first", "scan", "wait", "last", "done", "changed", "failed"}
NoRound == [phase |-> "none", answer |-> None]
Queued == [phase |-> "queued", answer |-> None]
Rounds == [phase : {"none", "queued", "started", "read"}, answer : Answers]

TypeOK ==
  /\ current \in Answers /\ round \in Rounds
  /\ step \in [Calls -> Steps]
  /\ state \in [Calls -> Answers] /\ wanted \in [Calls -> Answers]
  /\ since \in [Calls -> SUBSET Answers]
  /\ changes \in 0..MaxChanges /\ errors \in 0..MaxErrors
  \* Whoever waits for a load waits for one that will end.
  /\ \A c \in Calls : step[c] \in {"first", "wait", "last"} => round.phase # "none"
  /\ \A c \in Calls : step[c] = "wait" => round.phase # "queued"

Init ==
  /\ current \in Answers
  /\ round = NoRound
  /\ step = [c \in Calls |-> "idle"]
  /\ state = [c \in Calls |-> None] /\ wanted = [c \in Calls |-> None]
  /\ since = [c \in Calls |-> {}]
  /\ changes = 0 /\ errors = 0

-----------------------------------------------------------------------------

Fails == errors < MaxErrors /\ errors' = errors + 1
Succeeds == UNCHANGED errors

To(c, s) == step' = [step EXCEPT ![c] = s]

\* The round that manifest() finds, or the one it makes.
Joined(r) == IF r.phase = "none" THEN Queued ELSE r

\* A call begins: the first manifest takes any round there is.
Begin(c, w) ==
  /\ step[c] \in {"idle", "done", "changed", "failed"}
  /\ round' = Joined(round)
  /\ To(c, "first")
  /\ wanted' = [wanted EXCEPT ![c] = w]
  /\ state' = [state EXCEPT ![c] = None]
  /\ since' = [since EXCEPT ![c] = {}]
  /\ UNCHANGED <<current, changes, errors>>

\* The queued load starts.
Start ==
  /\ round.phase = "queued"
  /\ round' = [round EXCEPT !.phase = "started"]
  /\ UNCHANGED <<current, callVars, changes, errors>>

\* Its transaction reads the manifest, or fails.
Read ==
  /\ round.phase = "started"
  /\ \/ Succeeds /\ round' = [phase |-> "read", answer |-> current]
     \/ Fails /\ round' = [phase |-> "read", answer |-> None]
  /\ UNCHANGED <<current, callVars, changes>>

\* A slip: only a load that succeeds is forgotten.
ForgottenIfGood(waiting) ==
  IF round.answer = None THEN round ELSE IF waiting THEN Queued ELSE NoRound

\* The load is forgotten when it ends, before anybody hears of it; the calls that go on
\* waiting find no round, and make the next one.
Forgotten(waiting) == IF waiting THEN Queued ELSE NoRound

\* A slip: a call whose load failed asks for another at once.
AskAgain(s) == IF s = "first" THEN "first" ELSE "last"

\* A load that fails is not tried again.
OnFailure(s) == "failed"

\* What a call makes of the answer a.
Hears(c, a) ==
  IF step[c] \notin {"first", "wait", "last"} THEN step[c]
  ELSE IF a = None THEN OnFailure(step[c])
  ELSE CASE step[c] = "wait" -> "last"
         [] step[c] = "first" -> IF wanted[c] \notin {None, a} THEN "changed" ELSE "scan"
         [] step[c] = "last" -> IF a # state[c] THEN "changed" ELSE "done"

\* The answer reaches all who wait for it.
Settle ==
  /\ round.phase = "read"
  /\ step' = [c \in Calls |-> Hears(c, round.answer)]
  /\ round' = Forgotten(\E c \in Calls : step'[c] \in {"first", "last"})
  /\ state' = [c \in Calls |-> IF step[c] = "first" THEN round.answer ELSE state[c]]
  /\ UNCHANGED <<current, wanted, since, changes, errors>>

\* A slip: a fresh load is any load.
TooOldIfRead(r) == FALSE

\* A load that has started may have read what no longer holds.
TooOld(r) == r.phase \in {"started", "read"}

\* The call has scored, or failed to: a block, the index or the time.
Scan(c) ==
  /\ step[c] = "scan"
  /\ \/ /\ Succeeds
        /\ IF TooOld(round) THEN To(c, "wait") /\ UNCHANGED round
           ELSE To(c, "last") /\ round' = Joined(round)
        /\ since' = [since EXCEPT ![c] = {current}]
     \/ Fails /\ To(c, "failed") /\ UNCHANGED <<round, since>>
     \* a hit or directory that the snapshot does not have
     \/ Succeeds /\ To(c, "changed") /\ UNCHANGED <<round, since>>
  /\ UNCHANGED <<current, state, wanted, changes>>

\* A publication, a failure of the source, a move: the synchronisation at work.
Change ==
  /\ changes < MaxChanges /\ changes' = changes + 1
  /\ \E a \in Answers \ {current} :
       /\ current' = a
       /\ since' = [c \in Calls |-> since[c] \cup {a}]
  /\ UNCHANGED <<round, step, state, wanted, errors>>

Next ==
  \/ \E c \in Calls : (\E w \in Answers : Begin(c, w)) \/ Scan(c)
  \/ Start \/ Read \/ Settle \/ Change

Spec == Init /\ [][Next]_vars

\* The event loop turns and queries end (their time is bounded); nobody has to search.
Fairness ==
  /\ WF_vars(Start) /\ WF_vars(Read) /\ WF_vars(Settle)
  /\ \A c \in Calls : WF_vars(Scan(c))
FairSpec == Spec /\ Fairness

-----------------------------------------------------------------------------
(***************************************************************************)
(* Properties                                                              *)
(***************************************************************************)

\* A call that returns hits worked on a snapshot that was the current one at some moment
\* after all its work, whichever loads it shared and with whom.
ConfirmedAfterWork ==
  [][\A c \in Calls : step[c] # "done" /\ step'[c] = "done" => state[c] \in since[c]]_vars

\* A load that fails takes down those who shared it and nobody after: once what may be
\* searched stays readable and calls stop failing by themselves, no search fails.
FailuresPass ==
  <>[](current # None) =>
    <>[][\A c \in Calls : step'[c] = "failed" => step[c] = "failed"]_vars

\* No call goes on for ever, however rounds follow one another.
CallsEnd == \A c \in Calls : []<>(step[c] \in {"idle", "done", "changed", "failed"})
=============================================================================
