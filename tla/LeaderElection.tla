-------------------------- MODULE LeaderElection --------------------------
(***************************************************************************)
(* The election of one server of a cluster (cluster/LeaderElection.ts): a  *)
(* key in Redis that expires, taken by SET NX, renewed and released by     *)
(* scripts that compare its value with the server's own UUID.              *)
(*                                                                         *)
(* A command takes effect in Redis at one moment and its reply, or an      *)
(* error in its place, is handled at a later one; a command that meets an  *)
(* error may have taken effect all the same.  Replies of one server may    *)
(* overtake each other.  A server that starts again has another UUID and   *)
(* is another member of Servers.                                           *)
(***************************************************************************)
EXTENDS Integers, FiniteSets

CONSTANTS
  Servers,
  Calls,         \* concurrent calls of isLeader in one server
  Renewals,      \* concurrent calls of renewLeadership in one server
  None,          \* the key is absent
  Lease,         \* ticks that the key lives (LEADER_LEASE_DURATION)
  Interval,      \* ticks between renewals (LEADER_RENEW_INTERVAL)
  Attempts,      \* LEADER_RENEW_ATTEMPTS
  MaxErrors,     \* bound on the commands that fail
  MaxResigns,    \* bound on the calls of resign
  MayCrash       \* the servers that may die

ASSUME LeaderAssumption ==
  /\ Servers \cap {None, "OK", "nil", "error"} = {} /\ None \notin {"OK", "nil", "error"}
  /\ MayCrash \subseteq Servers
  /\ Lease \in Nat \ {0} /\ Interval \in Nat \ {0}
  /\ Attempts \in Nat /\ MaxErrors \in Nat /\ MaxResigns \in Nat

VARIABLES
  key,       \* the value of LEADER_KEY
  ttl,       \* the ticks it has left
  timer,     \* refreshTimer is set, for each server
  due,       \* the ticks until it fires
  pc,        \* where each call of isLeader is
  reply,     \* the reply on its way to it
  renewal,   \* for each renewal its attempt, and the reply on its way
  alive,
  errors,    \* how many commands have failed
  resigns,   \* how often a server has resigned
  held,      \* whether the server had the key at some moment of the call
  late       \* a tick has passed while some server had a reply or a timer to handle

redisVars == <<key, ttl>>
timerVars == <<timer, due>>
callVars == <<pc, reply, held>>
vars == <<redisVars, timerVars, callVars, renewal, alive, errors, resigns, late>>

Steps == {"idle", "get", "sleep", "set", "check", "yes", "no"}
Replies == Servers \cup {None} \cup {"OK", "nil", "error"}
Free == [attempt |-> 0, reply |-> "none"]
RenewalState == [attempt : 0..Attempts + 1, reply : {"none", "renewed", "lost", "error"}]

TypeOK ==
  /\ key \in Servers \cup {None} /\ ttl \in 0..Lease
  /\ timer \in [Servers -> BOOLEAN] /\ due \in [Servers -> 0..Interval]
  /\ pc \in [Servers -> [Calls -> Steps]]
  /\ reply \in [Servers -> [Calls -> Replies]]
  /\ renewal \in [Servers -> [Renewals -> RenewalState]]
  /\ alive \in [Servers -> BOOLEAN]
  /\ errors \in 0..MaxErrors /\ resigns \in 0..MaxResigns
  /\ held \in [Servers -> [Calls -> BOOLEAN]] /\ late \in BOOLEAN

Init ==
  /\ key = None /\ ttl = 0
  /\ timer = [s \in Servers |-> FALSE] /\ due = [s \in Servers |-> 0]
  /\ pc = [s \in Servers |-> [c \in Calls |-> "idle"]]
  /\ reply = [s \in Servers |-> [c \in Calls |-> None]]
  /\ renewal = [s \in Servers |-> [r \in Renewals |-> Free]]
  /\ alive = [s \in Servers |-> TRUE] /\ errors = 0 /\ resigns = 0
  /\ held = [s \in Servers |-> [c \in Calls |-> FALSE]] /\ late = FALSE

-----------------------------------------------------------------------------

\* A command of s meets an error.
Fails == errors < MaxErrors /\ errors' = errors + 1
Succeeds == UNCHANGED errors

To(s, c, step) == pc' = [pc EXCEPT ![s][c] = step]
Await(s, c, step, r) == To(s, c, step) /\ reply' = [reply EXCEPT ![s][c] = r]
Arrived(s, c, step) == alive[s] /\ pc[s][c] = step
\* The call goes on; the reply has been consumed.
GoOn(s, c, step) == Await(s, c, step, None)

\* isLeader asks for the current leader.
Ask(s, c) ==
  /\ alive[s] /\ pc[s][c] \in {"idle", "yes", "no"}
  /\ \/ Succeeds /\ Await(s, c, "get", key)
     \/ Fails /\ Await(s, c, "get", "error")
  /\ held' = [held EXCEPT ![s][c] = (key = s)]
  /\ UNCHANGED <<redisVars, timerVars, renewal, alive, resigns, late>>

\* A slip: the interval alone makes the leader.
LeadsByTimer(s, seen) == timer[s]

\* The key is the server's own, and it is still being renewed.
Leads(s, seen) == seen = s /\ timer[s]

\* The answer to the GET: the key's owner decides; if there is none, wait a while.
HearLeader(s, c) ==
  /\ Arrived(s, c, "get")
  /\ GoOn(s, c, IF Leads(s, reply[s][c]) THEN "yes"
                ELSE IF reply[s][c] = None THEN "sleep" ELSE "no")
  /\ UNCHANGED <<redisVars, timerVars, renewal, alive, errors, resigns, held, late>>

\* SET ... NX takes the key only if it is absent.
Absent(s) == key = None

\* A slip: SET without EX.
NoExpiry == -1

\* EX gives the key its time.
LeaseTime == Lease

\* electSelf tries to take the key.
Elect(s, c) ==
  /\ Arrived(s, c, "sleep")
  /\ \/ /\ Absent(s)
        /\ key' = s /\ ttl' = LeaseTime
        /\ held' = [held EXCEPT ![s] = [d \in Calls |-> TRUE]]
        /\ \/ Succeeds /\ Await(s, c, "set", "OK")
           \/ Fails /\ Await(s, c, "set", "error")
     \/ /\ ~Absent(s) /\ Succeeds
        /\ Await(s, c, "set", "nil")
        /\ UNCHANGED <<redisVars, held>>
     \/ /\ Fails
        /\ Await(s, c, "set", "error")
        /\ UNCHANGED <<redisVars, held>>
  /\ UNCHANGED <<timerVars, renewal, alive, resigns, late>>

\* A slip: the renewal comes when the lease ends.
RenewAtEnd == Lease

RenewEvery == Interval

StopTimer(s) == timer' = [timer EXCEPT ![s] = FALSE] /\ UNCHANGED due
StartTimer(s) ==
  timer' = [timer EXCEPT ![s] = TRUE] /\ due' = [due EXCEPT ![s] = RenewEvery]

\* The answer to the SET: elected, or ask again whose the key is.
HearElected(s, c) ==
  /\ Arrived(s, c, "set")
  /\ \/ /\ reply[s][c] = "OK"
        /\ GoOn(s, c, "yes") /\ StartTimer(s) /\ Succeeds
     \/ /\ reply[s][c] = "nil"
        /\ \/ Succeeds /\ Await(s, c, "check", key)
           \/ Fails /\ Await(s, c, "check", "error")
        /\ UNCHANGED timerVars
     \/ /\ reply[s][c] = "error"
        /\ GoOn(s, c, "no") /\ UNCHANGED timerVars /\ Succeeds
  /\ UNCHANGED <<redisVars, renewal, alive, resigns, held, late>>

HearOwner(s, c) ==
  /\ Arrived(s, c, "check")
  /\ GoOn(s, c, IF Leads(s, reply[s][c]) THEN "yes" ELSE "no")
  /\ UNCHANGED <<redisVars, timerVars, renewal, alive, errors, resigns, held, late>>

-----------------------------------------------------------------------------

\* The script renews the key only while it is the server's own.
RenewsOwn(s) == key = s

\* Attempt n of a renewal: the script runs, or the command fails.
Attempt(s, r, n) ==
  LET Result(v) == renewal' = [renewal EXCEPT ![s][r] = [attempt |-> n, reply |-> v]]
  IN  \/ RenewsOwn(s) /\ ttl' = Lease /\ Succeeds /\ Result("renewed")
      \/ RenewsOwn(s) /\ ttl' = Lease /\ Fails /\ Result("error")
      \/ ~RenewsOwn(s) /\ UNCHANGED ttl /\ Succeeds /\ Result("lost")
      \/ UNCHANGED ttl /\ Fails /\ Result("error")

\* The interval fires, whether the last renewal is over or not.
Fire(s) ==
  /\ alive[s] /\ timer[s] /\ due[s] = 0
  /\ due' = [due EXCEPT ![s] = RenewEvery]
  /\ \E r \in Renewals : renewal[s][r] = Free /\ Attempt(s, r, 1)
  /\ UNCHANGED <<key, timer, callVars, alive, resigns, late>>

\* The key is lost: clear the interval.
OnLoss(s) == StopTimer(s)

MayTryAgain(n) == n <= Attempts

\* The reply to a renewal: done, lost, try again, or give up. The interval that is
\* cleared is the one set now, which may be that of a later election.
HearRenewal(s, r) ==
  LET n == renewal[s][r].attempt
      End == renewal' = [renewal EXCEPT ![s][r] = Free] /\ UNCHANGED <<ttl, errors>>
  IN  /\ alive[s]
      /\ \/ renewal[s][r].reply = "renewed" /\ End /\ UNCHANGED timerVars
         \/ renewal[s][r].reply = "lost" /\ End /\ OnLoss(s)
         \/ /\ renewal[s][r].reply = "error" /\ MayTryAgain(n)
            /\ Attempt(s, r, n + 1) /\ UNCHANGED timerVars
         \/ renewal[s][r].reply = "error" /\ ~MayTryAgain(n) /\ End /\ StopTimer(s)
      /\ UNCHANGED <<key, callVars, alive, resigns, late>>

\* A slip: the key is deleted without a look at its value.
ReleasesAny(s) == TRUE

\* The script of resign deletes the key only if it is the server's own.
ReleasesOwn(s) == key = s

Resign(s) ==
  /\ alive[s] /\ resigns < MaxResigns
  /\ StopTimer(s) /\ resigns' = resigns + 1
  /\ \/ ReleasesOwn(s) /\ key' = None /\ ttl' = 0 /\ (Succeeds \/ Fails)
     \/ ~ReleasesOwn(s) /\ UNCHANGED redisVars /\ Succeeds
     \/ UNCHANGED redisVars /\ Fails
  /\ UNCHANGED <<callVars, renewal, alive, late>>

Crash(s) ==
  /\ alive[s] /\ s \in MayCrash
  /\ alive' = [alive EXCEPT ![s] = FALSE]
  /\ timer' = [timer EXCEPT ![s] = FALSE]
  /\ pc' = [pc EXCEPT ![s] = [c \in Calls |-> "idle"]]
  /\ reply' = [reply EXCEPT ![s] = [c \in Calls |-> None]]
  /\ renewal' = [renewal EXCEPT ![s] = [r \in Renewals |-> Free]]
  /\ UNCHANGED <<redisVars, due, errors, resigns, held, late>>

\* What a server that is in time does before the next tick.
Pending(s) ==
  \/ timer[s] /\ due[s] = 0
  \/ \E c \in Calls : pc[s][c] = "set"
  \/ \E r \in Renewals : renewal[s][r] # Free

Tick ==
  /\ late' = (late \/ \E s \in Servers : Pending(s))
  /\ ttl' = IF ttl > 0 THEN ttl - 1 ELSE ttl
  /\ key' = IF ttl = 1 THEN None ELSE key
  /\ due' = [s \in Servers |-> IF timer[s] /\ due[s] > 0 THEN due[s] - 1 ELSE due[s]]
  /\ UNCHANGED <<timer, callVars, renewal, alive, errors, resigns>>

Next ==
  \/ \E s \in Servers :
       \/ \E c \in Calls : Ask(s, c) \/ HearLeader(s, c) \/ Elect(s, c)
                           \/ HearElected(s, c) \/ HearOwner(s, c)
       \/ \E r \in Renewals : HearRenewal(s, r)
       \/ Fire(s) \/ Resign(s) \/ Crash(s)
  \/ Tick

Spec == Init /\ [][Next]_vars

\* Time passes, replies arrive and every server goes on asking, as the initialisers and
\* the caches that are for the leader only do.
Fairness ==
  /\ SF_vars(Tick)
  /\ \A s \in Servers :
       /\ WF_vars(Fire(s))
       /\ \A r \in Renewals : WF_vars(HearRenewal(s, r))
       /\ \A c \in Calls : WF_vars(Ask(s, c)) /\ WF_vars(HearLeader(s, c))
            /\ WF_vars(Elect(s, c)) /\ WF_vars(HearElected(s, c)) /\ WF_vars(HearOwner(s, c))
FairSpec == Spec /\ Fairness

-----------------------------------------------------------------------------
(***************************************************************************)
(* Properties                                                              *)
(***************************************************************************)

\* isLeader says yes only to a server that had the key at some moment of the call,
\* whatever expired, was taken or was lost while its replies were on their way.
YesWasTrue ==
  \A s \in Servers, c \in Calls : pc[s][c] = "yes" => held[s][c]

\* Nobody ends another's leadership: the key changes hands only when it has run out or
\* its owner resigns, and its time grows only by its owner's doing.
ByOwner(A(_)) == \E s \in Servers : s = key /\ A(s)
Prolongs(s) == Fire(s) \/ \E r \in Renewals : HearRenewal(s, r)
OwnerOnly ==
  [][/\ key # None /\ key' # key => key' = None /\ (Tick \/ ByOwner(Resign))
     /\ key # None /\ ttl' > ttl => ByOwner(Prolongs)]_vars

\* As long as nobody is late, a server keeps the key from its election until it resigns,
\* dies or gives a renewal up: failed attempts do not lose it while it renews.
LeaseKept ==
  [][~late' /\ key # None /\ key' = None => Resign(key) \/ ~timer[key]]_vars

\* Whoever dies, resigns, loses replies, leaves a key behind that nobody renews or goes on
\* renewing one that it has lost: again and again a living server has the key and is the
\* only one to renew it.
Led == \E s \in Servers : alive[s] /\ key = s /\ \A t \in Servers : timer[t] <=> t = s
AlwaysLedAgain == []<>(late \/ Led)
=============================================================================
