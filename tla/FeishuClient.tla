---------------------------- MODULE FeishuClient ----------------------------
(***************************************************************************)
(* The calls of Feishu (knowledge/feishu.ts): a token that all calls share *)
(* and one request for it at a time, attempts that are repeated after a    *)
(* transient failure, and the kind of error a call ends with.              *)
(*                                                                         *)
(* A call takes the token once, before its first attempt.  Tokens are      *)
(* numbered as Feishu issues them and live Life ticks from then; the       *)
(* client counts on Margin ticks less, from when it hears of the token.    *)
(* An attempt is answered within Timeout ticks; Feishu looks at the token  *)
(* when it answers.                                                        *)
(***************************************************************************)
EXTENDS Integers

CONSTANTS
  Callers,
  Life, Margin,
  Retries,      \* maxRetries
  MaxTokens,    \* bound on the tokens issued
  MaxRefusals,  \* bound on the withdrawals of the app's credentials
  Timeout,      \* the ticks that an attempt may take (timeoutMs)
  Delay         \* the ticks that may lie between two attempts

ClientAssumption ==
  /\ Life \in Nat /\ Margin \in 1..Life - 1 /\ Retries \in Nat
  /\ MaxTokens \in Nat \ {0} /\ MaxRefusals \in Nat
  /\ Timeout \in Nat /\ Delay \in Nat

VARIABLES
  left,      \* the ticks that each issued token has left at Feishu
  lag,       \* the ticks after which the client heard of it
  issued,    \* how many were issued
  void,      \* the tokens that were withdrawn
  granted,   \* whether Feishu accepts the app
  access,    \* accessToken: its number, 0 if undefined
  usable,    \* the ticks until its expiresAt
  flight,    \* the attempt of the request for a token that is under way, or -1
  pc,        \* where each call is
  holds,     \* the token it took
  attempt,
  age,       \* the ticks since its last attempt was sent, or answered
  refused,   \* whether the app was refused during the call, or since its token was issued
  heard,     \* the tokens that Feishu is known to have refused
  refusals

tokenVars == <<left, lag, issued, void, granted, access, usable, flight, heard, refusals>>
callVars == <<pc, holds, attempt, age, refused>>
vars == <<tokenVars, callVars>>

Tokens == 1..MaxTokens
Ends == {"ok", "auth", "transient"}

TypeOK ==
  /\ left \in [Tokens -> 0..Life] /\ lag \in [Tokens -> 0..Timeout]
  /\ issued \in 0..MaxTokens /\ void \subseteq 1..issued
  /\ granted \in BOOLEAN /\ access \in 0..issued /\ usable \in 0..Life - Margin
  /\ flight \in -1..Retries
  /\ pc \in [Callers -> {"idle", "token", "sent", "wait"} \cup Ends]
  /\ holds \in [Callers -> 0..issued] /\ attempt \in [Callers -> 0..Retries]
  /\ age \in [Callers -> Nat] /\ refused \in [Callers -> BOOLEAN]
  /\ heard \subseteq 1..issued /\ refusals \in 0..MaxRefusals
  \* Whoever waits for a token waits for a request that is under way.
  /\ \A c \in Callers : pc[c] = "token" => flight # -1

Init ==
  /\ left = [t \in Tokens |-> 0] /\ lag = [t \in Tokens |-> 0]
  /\ issued = 0 /\ void = {} /\ granted = TRUE
  /\ access = 0 /\ usable = 0 /\ flight = -1 /\ heard = {} /\ refusals = 0
  /\ pc = [c \in Callers |-> "idle"] /\ holds = [c \in Callers |-> 0]
  /\ attempt = [c \in Callers |-> 0] /\ age = [c \in Callers |-> 0]
  /\ refused = [c \in Callers |-> FALSE]

-----------------------------------------------------------------------------

\* A slip: the token is used for as long as it was issued for.
CountedToTheEnd == Life

\* expiresAt, in ticks from the answer.
Counted == Life - Margin

Usable == access # 0 /\ usable > 0

\* A call begins: it has the token at once, or waits for the request for one.
Call(c) ==
  /\ pc[c] \in {"idle"} \cup Ends
  /\ attempt' = [attempt EXCEPT ![c] = 0] /\ age' = [age EXCEPT ![c] = 0]
  /\ refused' = [refused EXCEPT ![c] = ~granted \/ (Usable /\ access \in void)]
  /\ IF Usable
     THEN /\ pc' = [pc EXCEPT ![c] = "sent"] /\ holds' = [holds EXCEPT ![c] = access]
          /\ UNCHANGED flight
     ELSE /\ pc' = [pc EXCEPT ![c] = "token"] /\ UNCHANGED holds
          /\ flight' = IF flight = -1 THEN 0 ELSE flight
  /\ UNCHANGED <<left, lag, issued, void, granted, access, usable, heard, refusals>>

\* All who wait for the token go on with it, or fail with its request.
Landed(step, t) ==
  /\ flight' = -1
  /\ pc' = [c \in Callers |-> IF pc[c] = "token" THEN step ELSE pc[c]]
  /\ holds' = [c \in Callers |-> IF pc[c] = "token" THEN t ELSE holds[c]]
  /\ UNCHANGED <<attempt, age, refused>>

\* The request for a token is answered, some ticks after Feishu issued it.
Issue ==
  /\ flight # -1 /\ granted /\ issued < MaxTokens
  /\ issued' = issued + 1
  /\ \E d \in 0..Timeout :
       /\ lag' = [lag EXCEPT ![issued + 1] = d]
       /\ left' = [left EXCEPT ![issued + 1] = IF d < Life THEN Life - d ELSE 0]
  /\ access' = issued + 1 /\ usable' = Counted
  /\ Landed("sent", issued + 1)
  /\ UNCHANGED <<void, granted, heard, refusals>>

TokenRefused == Landed("auth", 0)

RefuseToken ==
  /\ flight # -1 /\ ~granted
  /\ access' = 0
  /\ TokenRefused
  /\ UNCHANGED <<left, lag, issued, void, granted, usable, heard, refusals>>

\* A slip: attempts are not counted.
AlwaysAgain(n) == TRUE

MayRetry(n) == n < Retries

NextAttempt(n) == IF n < Retries THEN n + 1 ELSE n

\* It meets a transient failure, and is tried again after a while or given up: at the last
\* attempt, or if Feishu asks for a longer delay than a minute.
LoseToken ==
  /\ flight # -1
  /\ \/ MayRetry(flight) /\ flight' = NextAttempt(flight) /\ UNCHANGED callVars
     \/ Landed("transient", 0)
  /\ UNCHANGED <<left, lag, issued, void, granted, access, usable, heard, refusals>>

\* Feishu takes the token.
Valid(t) == left[t] > 0 /\ t \notin void

\* What a call knew ends with it.
Over(c) ==
  /\ holds' = [holds EXCEPT ![c] = 0] /\ attempt' = [attempt EXCEPT ![c] = 0]
  /\ age' = [age EXCEPT ![c] = 0] /\ refused' = [refused EXCEPT ![c] = FALSE]

\* A call's attempt is answered.
Answer(c) ==
  /\ pc[c] = "sent" /\ Valid(holds[c])
  /\ pc' = [pc EXCEPT ![c] = "ok"]
  /\ Over(c)
  /\ UNCHANGED tokenVars

\* The token is forgotten, be it the one that was refused or another.
ForgetToken == access' = 0

\* The token is refused.
Refuse(c) ==
  /\ pc[c] = "sent" /\ ~Valid(holds[c])
  /\ pc' = [pc EXCEPT ![c] = "auth"]
  /\ heard' = heard \cup {holds[c]}
  /\ ForgetToken
  /\ UNCHANGED <<left, lag, issued, void, granted, usable, flight, refusals, holds, attempt,
                 age, refused>>

\* A timeout, a 429, a 5xx, a broken answer: the attempt is repeated with the same token,
\* or given up as above.
Lose(c) ==
  /\ pc[c] = "sent"
  /\ \/ MayRetry(attempt[c]) /\ pc' = [pc EXCEPT ![c] = "wait"]
        /\ age' = [age EXCEPT ![c] = 0]
        /\ UNCHANGED <<holds, attempt, refused>>
     \/ pc' = [pc EXCEPT ![c] = "transient"] /\ Over(c)
  /\ UNCHANGED tokenVars

Resend(c) ==
  /\ pc[c] = "wait"
  /\ pc' = [pc EXCEPT ![c] = "sent"]
  /\ attempt' = [attempt EXCEPT ![c] = NextAttempt(@)]
  /\ age' = [age EXCEPT ![c] = 0]
  /\ UNCHANGED <<tokenVars, holds, refused>>

\* Feishu withdraws the app's credentials, and all tokens with them, or restores them.  The
\* client learns of it from the next answer.
Withdraw ==
  /\ granted /\ refusals < MaxRefusals
  /\ granted' = FALSE /\ refusals' = refusals + 1
  /\ void' = 1..issued
  /\ refused' = [c \in Callers |-> TRUE]
  /\ UNCHANGED <<left, lag, issued, access, usable, flight, heard, pc, holds, attempt, age>>

Restore ==
  /\ ~granted /\ granted' = TRUE
  /\ UNCHANGED <<left, lag, issued, void, access, usable, flight, heard, refusals, callVars>>

Tick ==
  /\ \A c \in Callers : /\ pc[c] = "sent" => age[c] < Timeout
                        /\ pc[c] = "wait" => age[c] < Delay
  /\ left' = [t \in Tokens |-> IF left[t] > 0 THEN left[t] - 1 ELSE 0]
  /\ usable' = IF usable > 0 THEN usable - 1 ELSE 0
  /\ age' = [c \in Callers |-> IF pc[c] \in {"sent", "wait"} THEN age[c] + 1 ELSE age[c]]
  /\ UNCHANGED <<lag, issued, void, granted, access, flight, heard, refusals, pc, holds,
                 attempt, refused>>

Next ==
  \/ \E c \in Callers : Call(c) \/ Answer(c) \/ Refuse(c) \/ Lose(c) \/ Resend(c)
  \/ Issue \/ RefuseToken \/ LoseToken \/ Withdraw \/ Restore \/ Tick

Spec == Init /\ [][Next]_vars
\* Every attempt ends, by the timeout if not by an answer.
FairSpec ==
  /\ Spec
  /\ WF_vars(Issue \/ RefuseToken \/ LoseToken)
  /\ \A c \in Callers : WF_vars(Answer(c) \/ Refuse(c) \/ Lose(c)) /\ WF_vars(Resend(c))

-----------------------------------------------------------------------------
(***************************************************************************)
(* Properties                                                              *)
(***************************************************************************)

\* A call that ends with auth, which pauses the whole source, was refused by Feishu, during
\* the call or since its token was issued, and not for the token's age; unless its attempt
\* was a repeated one, or its answer and that of the token took longer together than the
\* margin.  And a token that was refused to one call is not given to any other, whichever
\* calls and requests for tokens overlap.
AuthIsTrue ==
  /\ \A c \in Callers :
       pc[c] = "auth" => refused[c] \/ attempt[c] > 0 \/ age[c] + lag[holds[c]] > Margin
  /\ access \notin heard

\* No call goes on for ever, with the token's own attempts before its own.
CallsEnd == \A c \in Callers : []<>(pc[c] \in Ends \cup {"idle"})
=============================================================================
