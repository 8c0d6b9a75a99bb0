----------------------- MODULE StreamTransportProofs -----------------------
(***************************************************************************)
(* Theorems about StreamTransport, for any viewers, any number of events,  *)
(* faults and waiting frames.                                              *)
(*                                                                         *)
(* That no viewer gets an event twice or out of turn rests on where the    *)
(* boundary is between what it has and what still waits: nextSeq once the  *)
(* attachment is released, and until then the frontier that the early      *)
(* events tell (Behind).  That none is skipped rests on accounts of the    *)
(* sequences: before the early buffer is replayed each is in the buffer,   *)
(* comes after it, or was an earlier attachment's (EarlyAccounts); after   *)
(* it, whoever the buffer was replayed to has what is before the frontier  *)
(* (FrontierAccounts).                                                     *)
(***************************************************************************)
EXTENDS StreamTransport, TLAPS, FiniteSetTheorems

(***************************************************************************)
(* The invariant                                                           *)
(***************************************************************************)

\* How far the log goes, and where an event is in it.
Assigned == Base..NextInRedis - 1
Named(e) == Published(e) /\ e \notin nameless
Leads(v) == reads # <<>> /\ v = Head(reads) /\ pc[v] = "apply"
Has(v, s) == \E i \in DOMAIN got[v] : got[v][i] = EventAt(s)

Places == {"out", "ready", "live", "done", "fence", "continue", "check", "read", "trust", "apply"}

Shape ==
  /\ emitted \in Nat /\ log \in Seq(1..emitted)
  /\ \A i, j \in DOMAIN log : i < j => log[i] < log[j]
  /\ wire \subseteq Assigned /\ pending \subseteq Assigned
  /\ unsettled \subseteq early /\ early \subseteq 1..emitted /\ nameless \subseteq 1..emitted
  /\ closed \in BOOLEAN /\ attached \in BOOLEAN /\ deferred \in BOOLEAN /\ timer \in BOOLEAN
  /\ joined \subseteq Viewers /\ whole \subseteq Viewers
  /\ pc \in [Viewers -> Places]
  /\ frontier \in [Viewers -> 0..NextInRedis] /\ nextSeq \in 0..NextInRedis
  /\ reads \in Seq(Viewers) /\ got \in [Viewers -> Seq(1..emitted)]

\* Who attaches: a viewer that is ready is there, and so is somebody while it is attached;
\* nobody has got anything, and nothing is released, before the early events are.  Who knows
\* the frontier from them is the first to go on, unless all have left before.
Attachment ==
  /\ attached \/ deferred => joined # {}
  /\ \A v \in Viewers :
       /\ pc[v] = "out" => v \notin joined \cup whole /\ got[v] = <<>>
       /\ pc[v] = "ready" => v \in joined
       /\ pc[v] \in {"apply", "read", "trust"} => closed /\ \E i \in DOMAIN reads : reads[i] = v
       /\ pc[v] = "apply" => v = Head(reads) /\ (deferred \/ joined = {})
  /\ closed => early = {}
  /\ ~closed => /\ joined # {} => deferred
                /\ whole = {} /\ reads = <<>>
                /\ \A v \in joined : got[v] = <<>>

\* What waits is ahead of what is next, and what is deferred has no timer.
Buffer ==
  /\ deferred => ~timer /\ nextSeq = 0
  /\ ~deferred => \A s \in pending : s > nextSeq

\* What a viewer has is behind what is next, or behind the frontier of its attachment.
Behind ==
  \A v \in joined : \A s \in Assigned : Has(v, s) /\ EventAt(s) \notin nameless =>
    /\ ~deferred => s < nextSeq
    /\ deferred => \E w \in Viewers : Leads(w) /\ s < frontier[w]

\* What is not in the early buffer was given to an earlier attachment or comes later.
EarlyAccounts ==
  ~closed => \A s \in Assigned :
    \/ s \in passed \/ EventAt(s) \in early
    \/ attached /\ \A e \in early : e < EventAt(s)

\* What is behind the frontier of the attachment, its viewers have.
FrontierAccounts ==
  deferred => \A w \in Viewers : Leads(w) =>
    \A v \in whole \cap joined : \A s \in Base..frontier[w] - 1 : s \in passed \/ Has(v, s)

Running ==
  Attachment /\ Buffer /\ Behind /\ EarlyAccounts /\ FrontierAccounts
TransportInv ==
  Shape /\ OnceInOrder /\ NothingSkipped /\ (~broken => Running)

-----------------------------------------------------------------------------
(***************************************************************************)
(* Sets of numbers and sequences                                           *)
(***************************************************************************)

\* The numbers of a finite set in order are a sequence that has each of them once.
LEMMA InOrderIs ==
  ASSUME NEW S \in SUBSET Int, IsFiniteSet(S)
  PROVE  /\ InOrder(S) \in Seq(S) /\ Len(InOrder(S)) = Cardinality(S)
         /\ \A i, j \in 1..Len(InOrder(S)) : i < j => InOrder(S)[i] < InOrder(S)[j]
         /\ \A s \in S : \E i \in 1..Len(InOrder(S)) : InOrder(S)[i] = s
<1> DEFINE n == Cardinality(S)
           UpTo(s) == {t \in S : t <= s}
           r == [s \in S |-> Cardinality(UpTo(s))]
<1>1. n \in Nat
  BY FS_CardinalityType
<1>2. \A s \in S : IsFiniteSet(UpTo(s)) /\ Cardinality(UpTo(s)) \in 1..n
  <2> SUFFICES ASSUME NEW s \in S
               PROVE  IsFiniteSet(UpTo(s)) /\ Cardinality(UpTo(s)) \in 1..n
    OBVIOUS
  <2>1. UpTo(s) \in SUBSET S /\ s \in UpTo(s)
    OBVIOUS
  <2>2. IsFiniteSet(UpTo(s)) /\ Cardinality(UpTo(s)) <= n
    BY <2>1, FS_Subset
  <2>3. Cardinality(UpTo(s)) \in Nat /\ Cardinality(UpTo(s)) # 0
    BY <2>1, <2>2, FS_CardinalityType, FS_EmptySet
  <2> QED  BY <1>1, <2>2, <2>3
<1>3. \A s, t \in S : s < t => r[s] < r[t]
  <2> SUFFICES ASSUME NEW s \in S, NEW t \in S, s < t
               PROVE  Cardinality(UpTo(s)) < Cardinality(UpTo(t))
    OBVIOUS
  <2>1. \A x \in S : x <= s => x <= t
    OBVIOUS
  <2>2. UpTo(s) \in SUBSET UpTo(t)
    BY <2>1
  <2>3. t \in UpTo(t) /\ t \notin UpTo(s)
    OBVIOUS
  <2>4. /\ Cardinality(UpTo(s)) <= Cardinality(UpTo(t))
        /\ Cardinality(UpTo(s)) # Cardinality(UpTo(t))
    BY <1>2, <2>2, <2>3, FS_Subset
  <2> QED  BY <1>1, <1>2, <2>4
<1>4. r \in [S -> 1..n]
  BY <1>2
<1>5. \A s, t \in S : r[s] = r[t] => s = t
  <2> SUFFICES ASSUME NEW s \in S, NEW t \in S, r[s] = r[t], s # t
               PROVE  FALSE
    OBVIOUS
  <2>1. s < t \/ t < s
    OBVIOUS
  <2>2. r[s] \in Int /\ r[t] \in Int
    BY <1>1, <1>4
  <2> HIDE DEF r
  <2> QED  BY <1>3, <2>1, <2>2
<1>6. \A i \in 1..n : \E s \in S : r[s] = i
  <2>1. r \in Injection(S, 1..n)
    BY <1>4, <1>5 DEF Injection, IsInjective
  <2>2. IsFiniteSet(1..n) /\ Cardinality(1..n) = n
    BY <1>1, FS_Interval
  <2>3. r \in Surjection(S, 1..n)
    BY <2>1, <2>2, FS_Injection
  <2> QED  BY <2>3 DEF Surjection
<1> DEFINE Nth(i) == CHOOSE s \in S : Cardinality(UpTo(s)) = i
<1>7. \A i \in 1..n : Nth(i) \in S /\ Cardinality(UpTo(Nth(i))) = i
  <2> SUFFICES ASSUME NEW i \in 1..n
               PROVE  Nth(i) \in S /\ Cardinality(UpTo(Nth(i))) = i
    OBVIOUS
  <2>1. \E s \in S : Cardinality(UpTo(s)) = i
    BY <1>6
  <2> QED  BY <2>1, Zenon
<1>8. InOrder(S) = [i \in 1..n |-> Nth(i)]
  BY DEF InOrder
<1> HIDE DEF Nth
<1>9. /\ InOrder(S) \in Seq(S) /\ Len(InOrder(S)) = n
      /\ \A i \in 1..n : InOrder(S)[i] \in S /\ r[InOrder(S)[i]] = i
  <2>1. \A i \in 1..n : InOrder(S)[i] = Nth(i)
    BY <1>8
  <2>2. \A i \in 1..n : InOrder(S)[i] \in S /\ r[InOrder(S)[i]] = i
    BY <1>7, <2>1
  <2> HIDE DEF r
  <2>3. InOrder(S) \in [1..n -> S]
    BY <1>7, <1>8
  <2> QED  BY <1>1, <2>2, <2>3
<1> HIDE DEF r
<1>10. ASSUME NEW i \in 1..n, NEW j \in 1..n, i < j
       PROVE  InOrder(S)[i] < InOrder(S)[j]
  <2> DEFINE a == InOrder(S)[i]
             b == InOrder(S)[j]
  <2>1. a \in S /\ b \in S /\ r[a] = i /\ r[b] = j
    BY <1>9
  <2> HIDE DEF a, b
  <2>2. a < b \/ a = b \/ b < a
    BY <2>1
  <2>3. a # b /\ ~(b < a)
    BY <1>1, <1>3, <1>10, <2>1
  <2> QED  BY <2>2, <2>3 DEF a, b
<1>11. ASSUME NEW s \in S
       PROVE  \E i \in 1..n : InOrder(S)[i] = s
  <2>1. r[s] \in 1..n
    BY <1>4
  <2> QED  BY <1>5, <1>9, <2>1
<1> QED  BY <1>9, <1>10, <1>11

\* A finite set of numbers has a greatest and a least one.
LEMMA Extremes ==
  ASSUME NEW S \in SUBSET Int, IsFiniteSet(S), S # {}
  PROVE  /\ Max(S) \in S /\ \A s \in S : s <= Max(S)
         /\ Min(S) \in S /\ \A s \in S : Min(S) <= s
<1> DEFINE n == Cardinality(S)
<1>1. n \in Nat /\ n # 0
  BY FS_CardinalityType, FS_EmptySet
<1>2. /\ InOrder(S) \in Seq(S) /\ Len(InOrder(S)) = n
      /\ \A i, j \in 1..n : i < j => InOrder(S)[i] < InOrder(S)[j]
      /\ \A s \in S : \E i \in 1..n : InOrder(S)[i] = s
  BY InOrderIs
<1> HIDE DEF n
<1>3. InOrder(S)[1] \in S /\ InOrder(S)[n] \in S
  BY <1>1, <1>2
<1>4. ASSUME NEW s \in S
      PROVE  InOrder(S)[1] <= s /\ s <= InOrder(S)[n]
  <2>1. PICK i \in 1..n : InOrder(S)[i] = s
    BY <1>2
  <2>2. i = 1 \/ 1 < i
    OBVIOUS
  <2>3. i = n \/ i < n
    BY <1>1
  <2> DEFINE m == InOrder(S)[i]
             a == InOrder(S)[1]
             b == InOrder(S)[n]
  <2>4. 1 \in 1..n /\ n \in 1..n
    BY <1>1
  <2>5. (a < m \/ a = m) /\ (m < b \/ m = b)
    BY <1>2, <2>2, <2>3, <2>4
  <2>6. a \in Int /\ b \in Int
    BY <1>3
  <2> QED  BY <2>1, <2>5, <2>6
<1>5. \E x \in S : \A y \in S : x >= y
  BY <1>3, <1>4
<1>6. \E x \in S : \A y \in S : x <= y
  BY <1>3, <1>4
<1>7. Max(S) \in S /\ \A y \in S : Max(S) >= y
  BY <1>5 DEF Max
<1>8. Min(S) \in S /\ \A y \in S : Min(S) <= y
  BY <1>6 DEF Min
<1> QED  BY <1>7, <1>8

\* The flush ends at the first number that does not wait.
LEMMA FirstGapIs ==
  ASSUME NEW n \in Int, NEW S \in SUBSET Int, IsFiniteSet(S)
  PROVE  /\ FirstGap(n, S) \in Int /\ n <= FirstGap(n, S)
         /\ FirstGap(n, S) \notin S /\ n..FirstGap(n, S) - 1 \subseteq S
<1> DEFINE c == Cardinality(S)
           G == {m \in n..(n + c) : m \notin S}
<1>1. c \in Nat
  BY FS_CardinalityType
<1>2. G # {}
  <2> SUFFICES ASSUME G = {}
               PROVE  FALSE
    OBVIOUS
  <2>1. n..(n + c) \in SUBSET S
    OBVIOUS
  <2>2. Cardinality(n..(n + c)) <= c
    BY <2>1, FS_Subset
  <2>3. Cardinality(n..(n + c)) = c + 1
    BY <1>1, FS_Interval
  <2> QED  BY <1>1, <2>2, <2>3
<1>3. G \in SUBSET Int /\ IsFiniteSet(G)
  <2>1. IsFiniteSet(n..(n + c))
    BY <1>1, FS_Interval
  <2>2. G \in SUBSET (n..(n + c)) /\ G \in SUBSET Int
    BY <1>1
  <2> QED  BY <2>1, <2>2, FS_Subset
<1>4. Min(G) \in G /\ \A m \in G : Min(G) <= m
  BY <1>2, <1>3, Extremes
<1>5. FirstGap(n, S) = Min(G)
  BY DEF FirstGap
<1>6. ASSUME NEW m \in n..Min(G) - 1
      PROVE  m \in S
  BY <1>1, <1>4
<1> QED  BY <1>1, <1>4, <1>5, <1>6

-----------------------------------------------------------------------------
(***************************************************************************)
(* The log and what is given from it                                       *)
(***************************************************************************)

\* Every sequence that was assigned is the place of one event, and later events have
\* later places.
LEMMA LogIs ==
  ASSUME TransportAssumption, Shape
  PROVE  /\ NextInRedis \in Nat /\ Base \in Nat /\ Assigned \in SUBSET Int /\ IsFiniteSet(Assigned)
         /\ \A s \in Assigned : EventAt(s) \in 1..emitted /\ Published(EventAt(s))
         /\ \A s \in Assigned : SequenceOf(EventAt(s)) = s
         /\ \A s, t \in Assigned : s < t => EventAt(s) < EventAt(t)
         /\ \A e : Published(e) => SequenceOf(e) \in Assigned /\ EventAt(SequenceOf(e)) = e
<1> USE DEF TransportAssumption, Shape
<1>1. NextInRedis \in Nat /\ Base \in Nat /\ NextInRedis = Base + Len(log) /\ Len(log) \in Nat
  BY DEF NextInRedis
<1>2. Assigned \in SUBSET Int /\ IsFiniteSet(Assigned)
  BY <1>1, FS_Interval DEF Assigned
<1>3. \A s \in Assigned : s \in Int /\ s - Base + 1 \in 1..Len(log)
  BY <1>1 DEF Assigned
<1>4. \A s \in Assigned : EventAt(s) \in 1..emitted /\ Published(EventAt(s))
  BY <1>3 DEF EventAt, Published
<1>5. \A s, t \in Assigned : s < t => EventAt(s) < EventAt(t)
  <2>1. \A i, j \in 1..Len(log) : i < j => log[i] < log[j]
    OBVIOUS
  <2> SUFFICES ASSUME NEW s \in Assigned, NEW t \in Assigned, s < t
               PROVE  log[s - Base + 1] < log[t - Base + 1]
    BY DEF EventAt
  <2>2. s - Base + 1 < t - Base + 1
    BY <1>1, <1>3
  <2> QED  BY <1>3, <2>1, <2>2
<1>6. ASSUME NEW e, Published(e)
      PROVE  SequenceOf(e) \in Assigned /\ EventAt(SequenceOf(e)) = e
  <2> DEFINE i == CHOOSE k \in 1..Len(log) : log[k] = e
  <2>1. i \in 1..Len(log) /\ log[i] = e
    BY <1>6 DEF Published
  <2>2. SequenceOf(e) = Base - 1 + i
    BY DEF SequenceOf
  <2> HIDE DEF i
  <2>3. SequenceOf(e) \in Assigned /\ SequenceOf(e) - Base + 1 = i
    BY <1>1, <2>1, <2>2 DEF Assigned
  <2> QED  BY <2>1, <2>3 DEF EventAt
<1>7. ASSUME NEW s \in Assigned
      PROVE  SequenceOf(EventAt(s)) = s
  <2> DEFINE t == SequenceOf(EventAt(s))
  <2>1. t \in Assigned /\ EventAt(t) = EventAt(s)
    BY <1>4, <1>6
  <2> HIDE DEF t
  <2>2. t \in Int /\ s \in Int /\ EventAt(s) \in Int
    BY <1>3, <1>4, <2>1
  <2>3. t = s
    BY <1>5, <2>1, <2>2
  <2> QED  BY <2>3 DEF t
<1> QED  BY <1>1, <1>2, <1>4, <1>5, <1>6, <1>7

\* What deliverMessage hands over for a set of sequences: their events, in their order.
LEMMA FramesAre ==
  ASSUME TransportAssumption, Shape, NEW S \in SUBSET Assigned
  PROVE  /\ Frames(S) \in Seq(1..emitted) /\ IsFiniteSet(S) /\ Len(Frames(S)) = Cardinality(S)
         /\ \A i, j \in DOMAIN Frames(S) : i < j => Frames(S)[i] < Frames(S)[j]
         /\ \A i \in DOMAIN Frames(S) : \E s \in S : Frames(S)[i] = EventAt(s)
         /\ \A s \in S : \E i \in DOMAIN Frames(S) : Frames(S)[i] = EventAt(s)
<1>1. S \in SUBSET Int /\ IsFiniteSet(S)
  BY LogIs, FS_Subset
<1> DEFINE n == Len(InOrder(S))
<1>2. /\ InOrder(S) \in Seq(S) /\ n = Cardinality(S) /\ n \in Nat /\ DOMAIN InOrder(S) = 1..n
      /\ \A i, j \in 1..n : i < j => InOrder(S)[i] < InOrder(S)[j]
      /\ \A s \in S : \E i \in 1..n : InOrder(S)[i] = s
  BY <1>1, InOrderIs, FS_CardinalityType
<1> HIDE DEF n
<1>3. \A i \in 1..n : InOrder(S)[i] \in S
  BY <1>2
<1>4. Frames(S) = [i \in 1..n |-> EventAt(InOrder(S)[i])]
  BY <1>2 DEF Frames
<1>5. \A i \in 1..n : EventAt(InOrder(S)[i]) \in 1..emitted
  BY <1>3, LogIs
<1>6. Frames(S) \in [1..n -> 1..emitted]
  BY <1>4, <1>5
<1>7. Frames(S) \in Seq(1..emitted) /\ Len(Frames(S)) = n /\ DOMAIN Frames(S) = 1..n
  <2> DEFINE f == Frames(S)
             X == 1..emitted
  <2>1. f \in [1..n -> X] /\ n \in Nat
    BY <1>2, <1>6
  <2> HIDE DEF f, X
  <2>2. f \in Seq(X) /\ Len(f) = n /\ DOMAIN f = 1..n
    BY <2>1
  <2> QED  BY <2>2 DEF f, X
<1>8. \A i, j \in 1..n : i < j => Frames(S)[i] < Frames(S)[j]
  BY <1>2, <1>3, <1>4, LogIs
<1> QED  BY <1>1, <1>2, <1>3, <1>4, <1>7, <1>8

\* What is given to the viewers who are there comes after what they have; nobody loses
\* anything.
LEMMA GivenIs ==
  ASSUME TransportAssumption, Shape, NEW E \in Seq(1..emitted), got' = Given(E)
  PROVE  /\ got' \in [Viewers -> Seq(1..emitted)]
         /\ \A v \in Viewers \ joined : got'[v] = got[v]
         /\ \A v \in Viewers : \A i \in DOMAIN got[v] : i \in DOMAIN got'[v] /\ got'[v][i] = got[v][i]
         /\ \A v \in joined : \A k \in DOMAIN E : \E i \in DOMAIN got'[v] : got'[v][i] = E[k]
         /\ \A v \in joined : \A i \in DOMAIN got'[v] :
              \/ i \in DOMAIN got[v] /\ got'[v][i] = got[v][i]
              \/ i \notin DOMAIN got[v] /\ i - Len(got[v]) \in DOMAIN E
                 /\ got'[v][i] = E[i - Len(got[v])]
<1>1. got \in [Viewers -> Seq(1..emitted)] /\ joined \subseteq Viewers /\ emitted \in Nat
  BY DEF Shape
<1>2. got' = [v \in Viewers |-> IF v \in joined THEN got[v] \o E ELSE got[v]]
  BY DEF Given
<1>3. ASSUME NEW s \in Seq(1..emitted)
      PROVE  /\ s \o E \in Seq(1..emitted)
             /\ \A i \in DOMAIN s : i \in DOMAIN (s \o E) /\ (s \o E)[i] = s[i]
             /\ \A k \in DOMAIN E : \E i \in DOMAIN (s \o E) : (s \o E)[i] = E[k]
             /\ \A i \in DOMAIN (s \o E) :
                  \/ i \in DOMAIN s /\ (s \o E)[i] = s[i]
                  \/ i \notin DOMAIN s /\ i - Len(s) \in DOMAIN E /\ (s \o E)[i] = E[i - Len(s)]
  <2>1. /\ s \o E \in Seq(1..emitted) /\ DOMAIN s = 1..Len(s) /\ DOMAIN E = 1..Len(E)
        /\ DOMAIN (s \o E) = 1..Len(s) + Len(E) /\ Len(s) \in Nat /\ Len(E) \in Nat
    OBVIOUS
  <2>2. \A i \in 1..Len(s) + Len(E) :
          (s \o E)[i] = IF i <= Len(s) THEN s[i] ELSE E[i - Len(s)]
    OBVIOUS
  <2>3. ASSUME NEW k \in DOMAIN E
        PROVE  \E i \in DOMAIN (s \o E) : (s \o E)[i] = E[k]
    <3>1. Len(s) + k \in 1..Len(s) + Len(E) /\ ~(Len(s) + k <= Len(s)) /\ Len(s) + k - Len(s) = k
      BY <2>1
    <3> QED  BY <2>1, <2>2, <3>1
  <2> QED  BY <2>1, <2>2, <2>3
<1> DEFINE new(v) == IF v \in joined THEN got[v] \o E ELSE got[v]
<1>4. \A v \in Viewers : got'[v] = new(v) /\ got[v] \in Seq(1..emitted)
  BY <1>1, <1>2
<1>5. \A v \in Viewers : new(v) \in Seq(1..emitted)
  BY <1>3, <1>4
<1>6. got' \in [Viewers -> Seq(1..emitted)]
  <2>1. got' = [v \in Viewers |-> new(v)]
    BY <1>2
  <2> HIDE DEF new
  <2> QED  BY <1>5, <2>1
<1>7. \A v \in Viewers \ joined : got'[v] = got[v]
  BY <1>4
<1>8. \A v \in joined : got'[v] = got[v] \o E /\ got[v] \in Seq(1..emitted)
  BY <1>1, <1>4
<1>9. \A v \in Viewers : \A i \in DOMAIN got[v] : i \in DOMAIN got'[v] /\ got'[v][i] = got[v][i]
  BY <1>3, <1>7, <1>8
<1>10. \A v \in joined : \A k \in DOMAIN E : \E i \in DOMAIN got'[v] : got'[v][i] = E[k]
  <2> SUFFICES ASSUME NEW v \in joined
               PROVE  \A k \in DOMAIN E : \E i \in DOMAIN got'[v] : got'[v][i] = E[k]
    OBVIOUS
  <2> DEFINE s == got[v]
             t == got'[v]
  <2>1. s \in Seq(1..emitted) /\ t = s \o E
    BY <1>8
  <2> HIDE DEF s, t
  <2>2. \A k \in DOMAIN E : \E i \in DOMAIN t : t[i] = E[k]
    BY <1>3, <2>1
  <2> QED  BY <2>2 DEF s, t
<1>11. \A v \in joined : \A i \in DOMAIN got'[v] :
         \/ i \in DOMAIN got[v] /\ got'[v][i] = got[v][i]
         \/ i \notin DOMAIN got[v] /\ i - Len(got[v]) \in DOMAIN E
            /\ got'[v][i] = E[i - Len(got[v])]
  <2> SUFFICES ASSUME NEW v \in joined
               PROVE  \A i \in DOMAIN got'[v] :
                 \/ i \in DOMAIN got[v] /\ got'[v][i] = got[v][i]
                 \/ i \notin DOMAIN got[v] /\ i - Len(got[v]) \in DOMAIN E
                    /\ got'[v][i] = E[i - Len(got[v])]
    OBVIOUS
  <2> DEFINE s == got[v]
             t == got'[v]
  <2>1. s \in Seq(1..emitted) /\ t = s \o E
    BY <1>8
  <2> HIDE DEF s, t
  <2>2. \A i \in DOMAIN t :
          \/ i \in DOMAIN s /\ t[i] = s[i]
          \/ i \notin DOMAIN s /\ i - Len(s) \in DOMAIN E /\ t[i] = E[i - Len(s)]
    BY <1>3, <2>1
  <2> QED  BY <2>2 DEF s, t
<1> QED  BY <1>6, <1>7, <1>9, <1>10, <1>11

\* Events that come in their order, after what a viewer has, keep the order.
LEMMA GivenInOrder ==
  ASSUME TransportAssumption, Shape, OnceInOrder, UNCHANGED <<log, nameless>>,
         NEW E \in Seq(1..emitted), got' = Given(E),
         \A i, j \in DOMAIN E : i < j => E[i] < E[j],
         \A v \in joined : \A i \in DOMAIN got[v], k \in DOMAIN E :
           Named(got[v][i]) /\ Named(E[k]) => got[v][i] < E[k]
  PROVE  OnceInOrder'
<1> SUFFICES ASSUME NEW v \in Viewers, NEW i \in DOMAIN got'[v], NEW j \in DOMAIN got'[v], i < j,
                    Named(got'[v][i]), Named(got'[v][j])
             PROVE  got'[v][i] < got'[v][j]
  BY DEF OnceInOrder, Named, Published
<1>1. ASSUME NEW a \in DOMAIN got[v], NEW b \in DOMAIN got[v], a < b, Named(got[v][a]), Named(got[v][b])
      PROVE  got[v][a] < got[v][b]
  BY <1>1 DEF OnceInOrder, Named
<1>2. CASE v \notin joined
  BY <1>1, <1>2, GivenIs
<1>3. CASE v \in joined
  <2>1. got[v] \in Seq(1..emitted) /\ got'[v] \in Seq(1..emitted)
    BY GivenIs DEF Shape
  <2>2. /\ DOMAIN got[v] = 1..Len(got[v]) /\ Len(got[v]) \in Nat
        /\ i \in Int /\ j \in Int /\ 1 <= i /\ 1 <= j
    BY <2>1
  <2>3. CASE j \in DOMAIN got[v]
    <3>1. i \in DOMAIN got[v]
      BY <2>2, <2>3
    <3> QED  BY <1>1, <2>3, <3>1, GivenIs
  <2>4. CASE j \notin DOMAIN got[v] /\ i \in DOMAIN got[v]
    <3>1. j - Len(got[v]) \in DOMAIN E /\ got'[v][j] = E[j - Len(got[v])] /\ got'[v][i] = got[v][i]
      BY <1>3, <2>4, GivenIs
    <3> QED  BY <1>3, <2>4, <3>1
  <2>5. CASE j \notin DOMAIN got[v] /\ i \notin DOMAIN got[v]
    <3>1. j - Len(got[v]) \in DOMAIN E /\ got'[v][j] = E[j - Len(got[v])]
      BY <1>3, <2>5, GivenIs
    <3>2. i - Len(got[v]) \in DOMAIN E /\ got'[v][i] = E[i - Len(got[v])]
      BY <1>3, <2>5, GivenIs
    <3>3. i - Len(got[v]) < j - Len(got[v])
      BY <2>2
    <3> QED  BY <3>1, <3>2, <3>3
  <2> QED  BY <2>3, <2>4, <2>5
<1> QED  BY <1>2, <1>3

\* What is published keeps its place when the log grows.
LEMMA Emitted ==
  ASSUME TransportAssumption, Shape, emitted' = emitted + 1,
         log' \in {log, Append(log, emitted + 1)}
  PROVE  /\ log' \in Seq(1..emitted') /\ \A i, j \in DOMAIN log' : i < j => log'[i] < log'[j]
         /\ NextInRedis' \in Nat /\ NextInRedis <= NextInRedis'
         /\ Assigned \subseteq Assigned'
         /\ \A s \in Assigned : EventAt(s)' = EventAt(s)
         /\ \A s \in Assigned' \ Assigned : EventAt(s)' = emitted + 1
         /\ \A e \in 1..emitted : Published(e)' = Published(e)
<1> USE DEF TransportAssumption
<1>1. /\ emitted \in Nat /\ log \in Seq(1..emitted) /\ Len(log) \in Nat /\ DOMAIN log = 1..Len(log)
      /\ \A i, j \in 1..Len(log) : i < j => log[i] < log[j]
      /\ \A i \in 1..Len(log) : log[i] \in 1..emitted
  BY DEF Shape
<1>2. /\ log' \in Seq(1..emitted') /\ (Len(log') = Len(log) \/ Len(log') = Len(log) + 1)
      /\ Len(log') \in Nat
      /\ \A i \in 1..Len(log) : log'[i] = log[i]
      /\ \A i \in 1..Len(log') : i \notin 1..Len(log) => log'[i] = emitted + 1
      /\ DOMAIN log' = 1..Len(log')
  <2>1. log \in Seq(1..emitted')
    BY <1>1
  <2>2. CASE log' = log
    BY <1>1, <2>1, <2>2
  <2>3. CASE log' = Append(log, emitted + 1)
    BY <1>1, <2>1, <2>3
  <2> QED  BY <2>2, <2>3
<1> DEFINE n == Len(log)
           m == Len(log')
<1>3. /\ n \in Nat /\ m \in Nat /\ (m = n \/ m = n + 1) /\ emitted \in Nat /\ Base \in Nat
      /\ \A i, j \in 1..n : i < j => log[i] < log[j]
      /\ \A i \in 1..n : log[i] \in 1..emitted /\ log'[i] = log[i]
      /\ \A i \in 1..m : i \notin 1..n => log'[i] = emitted + 1
      /\ NextInRedis = Base + n /\ NextInRedis' = Base + m
  <2>1. m \in Nat
    BY <1>2
  <2>2. NextInRedis = Base + n /\ NextInRedis' = Base + m
    BY DEF NextInRedis
  <2>3. m = n \/ m = n + 1
    BY <1>2
  <2> QED  BY <1>1, <1>2, <2>1, <2>2, <2>3, Zenon
<1> HIDE DEF n, m
<1>4. \A i, j \in 1..m : i < j => log'[i] < log'[j]
  <2> SUFFICES ASSUME NEW i \in 1..m, NEW j \in 1..m, i < j
               PROVE  log'[i] < log'[j]
    OBVIOUS
  <2>1. i \in 1..n
    BY <1>3
  <2>2. CASE j \in 1..n
    BY <1>3, <2>1, <2>2
  <2>3. CASE j \notin 1..n
    BY <1>3, <2>1, <2>3
  <2> QED  BY <2>2, <2>3
<1>5. Assigned = Base..Base + n - 1 /\ Assigned' = Base..Base + m - 1
  BY <1>3 DEF Assigned
<1>6. Assigned \subseteq Assigned' /\ 1..n \subseteq 1..m
  BY <1>3, <1>5
<1>7. /\ \A s \in Assigned : s - Base + 1 \in 1..n
      /\ \A s \in Assigned' : s - Base + 1 \in 1..m
      /\ \A s \in Assigned' \ Assigned : s - Base + 1 \notin 1..n
  BY <1>3, <1>5
<1>8. \A s \in Assigned : EventAt(s)' = EventAt(s)
  BY <1>3, <1>7 DEF EventAt
<1>9. \A s \in Assigned' \ Assigned : EventAt(s)' = emitted + 1
  BY <1>3, <1>7 DEF EventAt
<1>10. ASSUME NEW e \in 1..emitted
       PROVE  Published(e)' = Published(e)
  <2>1. \A i \in 1..m : log'[i] = e => i \in 1..n
    BY <1>3
  <2>2. (\E i \in 1..m : log'[i] = e) <=> (\E i \in 1..n : log[i] = e)
    BY <1>3, <1>6, <2>1
  <2> QED  BY <2>2 DEF Published, n, m
<1>11. NextInRedis' \in Nat /\ NextInRedis <= NextInRedis'
  BY <1>3
<1> QED  BY <1>2, <1>4, <1>6, <1>8, <1>9, <1>10, <1>11 DEF m

\* Frames that come after what the viewers have, and leave nothing behind that is not
\* accounted for.
LEMMA Delivers ==
  ASSUME TransportAssumption, Shape, OnceInOrder, NEW D \in SUBSET Assigned, NEW n \in 0..NextInRedis,
         UNCHANGED <<emitted, log, nameless, joined, whole>>, passed \subseteq passed',
         got' = Given(Frames(D)), nextSeq' = n, deferred' = FALSE,
         \A d \in D : d < n,
         \A v \in joined : \A s \in Assigned : Has(v, s) /\ EventAt(s) \notin nameless =>
           s < n /\ \A d \in D : s < d,
         \A v \in whole \cap joined : \A s \in Base..n - 1 : s \in passed' \/ s \in D \/ Has(v, s)
  PROVE  /\ got' \in [Viewers -> Seq(1..emitted)]
         /\ \A v \in Viewers \ joined : got'[v] = got[v]
         /\ OnceInOrder' /\ NothingSkipped' /\ Behind'
<1> DEFINE E == Frames(D)
<1>1. /\ E \in Seq(1..emitted) /\ got' = Given(E)
      /\ \A i, j \in DOMAIN E : i < j => E[i] < E[j]
      /\ \A k \in DOMAIN E : \E d \in D : E[k] = EventAt(d)
      /\ \A d \in D : \E k \in DOMAIN E : E[k] = EventAt(d)
  BY FramesAre
<1> HIDE DEF E
<1>2. joined \subseteq Viewers
  BY DEF Shape
<1>3. ASSUME NEW v \in joined, NEW i \in DOMAIN got[v], NEW k \in DOMAIN E,
             Named(got[v][i]), Named(E[k])
      PROVE  got[v][i] < E[k]
  <2>1. PICK d \in D : E[k] = EventAt(d)
    BY <1>1
  <2>2. PICK s \in Assigned : EventAt(s) = got[v][i]
    BY <1>3, LogIs DEF Named
  <2>3. s < d
    BY <1>3, <2>2 DEF Has, Named
  <2> QED  BY <2>1, <2>2, <2>3, LogIs
<1>4. OnceInOrder'
  BY <1>1, <1>3, GivenInOrder
<1>5. Behind'
  <2> SUFFICES ASSUME NEW v \in joined, NEW s \in Assigned, NEW i \in DOMAIN got'[v],
                      got'[v][i] = EventAt(s), EventAt(s) \notin nameless
               PROVE  s < n
    BY DEF Behind, Has, Assigned, NextInRedis, EventAt
  <2>1. CASE i \in DOMAIN got[v] /\ got'[v][i] = got[v][i]
    BY <2>1 DEF Has
  <2>2. CASE i - Len(got[v]) \in DOMAIN E /\ got'[v][i] = E[i - Len(got[v])]
    <3>1. PICK d \in D : EventAt(s) = EventAt(d)
      BY <1>1, <2>2
    <3>2. s = d
      BY <3>1, LogIs
    <3> QED  BY <3>2
  <2> QED  BY <1>1, <2>1, <2>2, GivenIs
<1>6. NothingSkipped'
  <2> SUFFICES ASSUME NEW v \in whole \cap joined, NEW s \in Base..n - 1, s \notin passed'
               PROVE  \E i \in DOMAIN got'[v] : got'[v][i] = EventAt(s)
    BY DEF NothingSkipped, EventAt
  <2>1. CASE s \in D
    <3>1. PICK k \in DOMAIN E : E[k] = EventAt(s)
      BY <1>1, <2>1
    <3> QED  BY <1>1, <3>1, GivenIs
  <2>2. CASE Has(v, s)
    BY <1>1, <1>2, <2>2, GivenIs DEF Has
  <2> QED  BY <2>1, <2>2
<1> QED  BY <1>1, <1>4, <1>5, <1>6, GivenIs

-----------------------------------------------------------------------------
(***************************************************************************)
(* Steps that give nobody anything                                         *)
(***************************************************************************)

\* A step that gives nobody anything and leaves the buffer alone, by a viewer that goes on
\* or by the wire.
LEMMA Quiet ==
  ASSUME TransportInv, ~broken,
         UNCHANGED <<emitted, log, early, nameless, closed, joined, reads, buffer, outcome, broken>>,
         wire' \subseteq wire, unsettled' \subseteq unsettled,
         attached' \in BOOLEAN, attached => attached', attached' => joined # {},
         pc' \in [Viewers -> Places],
         \A v \in Viewers :
           /\ pc'[v] = "out" => pc[v] = "out"
           /\ pc'[v] = "ready" => pc[v] = "ready"
           /\ pc'[v] \in {"apply", "read", "trust"} => pc[v] \in {"apply", "read", "trust"}
           /\ pc'[v] = "apply" <=> pc[v] = "apply",
         frontier' \in [Viewers -> 0..NextInRedis],
         \A v \in Viewers : pc[v] = "apply" => frontier'[v] = frontier[v]
  PROVE  TransportInv'
<1> USE DEF TransportInv, Running, buffer, outcome
<1>1. Shape'
  BY DEF Shape, Assigned, NextInRedis
<1>2. OnceInOrder'
  BY DEF OnceInOrder, Published
<1>3. NothingSkipped'
  BY DEF NothingSkipped, EventAt
<1>4. Attachment'
  BY DEF Attachment
<1>5. Buffer'
  BY DEF Buffer
<1>6. \A v \in Viewers : Leads(v)' = Leads(v)
  BY DEF Leads
<1>7. Behind'
  <2> SUFFICES ASSUME NEW v \in joined, NEW s \in Assigned, Has(v, s), EventAt(s) \notin nameless
               PROVE  /\ ~deferred => s < nextSeq
                      /\ deferred => \E w \in Viewers : Leads(w)' /\ s < frontier'[w]
    BY DEF Behind, Has, Assigned, NextInRedis, EventAt
  <2>1. CASE deferred
    <3>1. PICK w \in Viewers : Leads(w) /\ s < frontier[w]
      BY <2>1 DEF Behind
    <3>2. frontier'[w] = frontier[w] /\ Leads(w)'
      BY <1>6, <3>1 DEF Leads
    <3> QED  BY <2>1, <3>1, <3>2
  <2>2. CASE ~deferred
    BY <2>2 DEF Behind
  <2> QED  BY <2>1, <2>2
<1>8. EarlyAccounts'
  BY DEF EarlyAccounts, Assigned, NextInRedis, EventAt
<1>9. FrontierAccounts'
  <2> SUFFICES ASSUME deferred, NEW w \in Viewers, Leads(w)', NEW v \in whole \cap joined,
                      NEW s \in Base..frontier'[w] - 1, s \notin passed
               PROVE  Has(v, s)
    BY DEF FrontierAccounts, Has, EventAt
  <2>1. Leads(w) /\ frontier'[w] = frontier[w]
    BY <1>6 DEF Leads
  <2> QED  BY <2>1 DEF FrontierAccounts
<1> QED  BY <1>1, <1>2, <1>3, <1>4, <1>5, <1>7, <1>8, <1>9

\* A viewer that gets ready, waits or asks, and a frame that is lost, change nothing of it.
LEMMA QuietSteps ==
  ASSUME TransportAssumption, TransportInv, ~broken,
         \/ \E v \in Viewers : Ready(v) \/ Fenced(v) \/ CheckFails(v) \/ ReadCounter(v)
         \/ \E s \in Assigned : Lose(s)
  PROVE  TransportInv'
<1> USE DEF TransportInv
<1>1. pc \in [Viewers -> Places] /\ frontier \in [Viewers -> 0..NextInRedis] /\ attached \in BOOLEAN
  BY DEF Shape
<1>2. ASSUME NEW v \in Viewers, Ready(v)
      PROVE  TransportInv'
  <2>1. joined # {}
    BY <1>2 DEF Ready, Running, Attachment
  <2>2. pc' = [pc EXCEPT ![v] = IF attached THEN "live" ELSE "fence"]
    BY <1>2 DEF Ready, At
  <2>3. /\ UNCHANGED <<emitted, log, early, nameless, closed, joined, reads, buffer, outcome, broken>>
        /\ wire' \subseteq wire /\ unsettled' \subseteq unsettled /\ attached' = TRUE
        /\ frontier' = frontier
    BY <1>2 DEF Ready, emission
  <2> QED  BY <1>1, <1>2, <2>1, <2>2, <2>3, Quiet DEF Ready, Places
<1>3. ASSUME NEW v \in Viewers, NEW step \in Places, NEW f \in 0..NextInRedis,
             pc[v] \notin {"out", "ready", "apply"}, step \notin {"out", "ready", "apply"},
             step \in {"read", "trust"} => pc[v] \in {"read", "trust"},
             At(v, step), frontier' \in {frontier, [frontier EXCEPT ![v] = f]},
             UNCHANGED <<emitted, log, early, nameless, closed, joined, attached, reads, buffer, outcome,
                         broken, wire, unsettled>>
      PROVE  TransportInv'
  <2>1. pc' = [pc EXCEPT ![v] = step]
    BY <1>3 DEF At
  <2>2. frontier' \in [Viewers -> 0..NextInRedis] /\ \A w \in Viewers \ {v} : frontier'[w] = frontier[w]
    BY <1>1, <1>3
  <2>3. attached' => joined # {}
    BY <1>3 DEF Running, Attachment
  <2> QED  BY <1>1, <1>3, <2>1, <2>2, <2>3, Quiet
<1>4. ASSUME NEW v \in Viewers, Fenced(v) \/ CheckFails(v) \/ ReadCounter(v)
      PROVE  TransportInv'
  <2>1. NextInRedis \in 0..NextInRedis
    BY LogIs
  <2>2. {"check", "done", "trust"} \subseteq Places
    BY DEF Places
  <2>3. UNCHANGED <<emitted, log, early, nameless, closed, joined, attached, reads, buffer, outcome,
                    broken, wire, unsettled>>
    BY <1>4 DEF Fenced, CheckFails, ReadCounter, emission
  <2>4. CASE Fenced(v)
    BY <1>3, <2>1, <2>2, <2>3, <2>4 DEF Fenced
  <2>5. CASE CheckFails(v)
    BY <1>3, <2>1, <2>2, <2>3, <2>5 DEF CheckFails
  <2>6. CASE ReadCounter(v)
    BY <1>3, <2>1, <2>2, <2>3, <2>6 DEF ReadCounter
  <2> QED  BY <1>4, <2>4, <2>5, <2>6
<1>5. ASSUME NEW s \in Assigned, Lose(s)
      PROVE  TransportInv'
  <2>1. /\ UNCHANGED <<emitted, log, early, nameless, closed, joined, reads, buffer, outcome, broken>>
        /\ wire' \subseteq wire /\ unsettled' = unsettled /\ attached' = attached
        /\ frontier' = frontier /\ pc' = pc
    BY <1>5 DEF Lose, emission
  <2>2. attached' => joined # {}
    BY <2>1 DEF Running, Attachment
  <2> QED  BY <1>1, <2>1, <2>2, Quiet
<1> QED  BY <1>2, <1>4, <1>5

\* An event that is emitted is new to everybody: it is in the early buffer, or comes after
\* what is in it.
LEMMA EmitStep ==
  ASSUME TransportAssumption, TransportInv, ~broken, Emit
  PROVE  TransportInv'
<1> USE DEF TransportInv, Running
<1>1. /\ emitted' = emitted + 1 /\ log' \in {log, Append(log, emitted + 1)}
      /\ wire' = wire \/ (wire' = wire \cup {NextInRedis} /\ log' = Append(log, emitted + 1))
      /\ UNCHANGED <<nameless, closed, attached, joined, pc, frontier, reads, deferred, nextSeq,
                     pending, timer, got, whole, passed, broken>>
  BY DEF Emit, buffer, outcome
<1>2. /\ emitted \in Nat /\ unsettled \subseteq early /\ early \subseteq 1..emitted
      /\ got \in [Viewers -> Seq(1..emitted)]
  BY DEF Shape
<1>3. /\ log' \in Seq(1..emitted') /\ \A i, j \in DOMAIN log' : i < j => log'[i] < log'[j]
      /\ NextInRedis' \in Nat /\ NextInRedis <= NextInRedis'
      /\ Assigned \subseteq Assigned'
      /\ \A s \in Assigned : EventAt(s)' = EventAt(s)
      /\ \A s \in Assigned' \ Assigned : EventAt(s)' = emitted + 1
      /\ \A e \in 1..emitted : Published(e)' = Published(e)
  BY <1>1, Emitted
<1>4. /\ early' = IF Buffered THEN early \cup {emitted + 1} ELSE early
      /\ unsettled' = IF Buffered THEN unsettled \cup {emitted + 1} ELSE unsettled
  BY DEF Emit
<1>5. \A v \in Viewers : \A i \in DOMAIN got[v] : got[v][i] \in 1..emitted
  BY <1>2
<1>6. NextInRedis \in Nat
  BY LogIs
<1>7. Shape'
  <2>1. wire' \subseteq Assigned'
    <3>1. CASE wire' = wire
      BY <1>3, <3>1 DEF Shape
    <3>2. CASE wire' = wire \cup {NextInRedis} /\ log' = Append(log, emitted + 1)
      <4>1. NextInRedis \in Assigned'
        BY <1>2, <3>2 DEF Shape, Assigned, NextInRedis, TransportAssumption
      <4> QED  BY <1>3, <3>2, <4>1 DEF Shape
    <3> QED  BY <1>1, <3>1, <3>2
  <2>2. 1..emitted \subseteq 1..emitted' /\ emitted + 1 \in 1..emitted' /\ emitted' \in Nat
    BY <1>1, <1>2
  <2>3. unsettled' \subseteq early' /\ early' \subseteq 1..emitted'
    BY <1>2, <1>4, <2>2
  <2>4. got' \in [Viewers -> Seq(1..emitted')]
    <3> SUFFICES ASSUME NEW v \in Viewers
                 PROVE  got[v] \in Seq(1..emitted')
      BY <1>1, <1>2
    <3> DEFINE A == 1..emitted
               B == 1..emitted'
               s == got[v]
    <3>1. s \in Seq(A) /\ A \subseteq B
      BY <1>2, <2>2
    <3> HIDE DEF A, B, s
    <3>2. s \in Seq(B)
      BY <3>1
    <3> QED  BY <3>2 DEF B, s
  <2>5. /\ nameless' \subseteq 1..emitted' /\ pending' \subseteq Assigned'
        /\ closed' \in BOOLEAN /\ attached' \in BOOLEAN /\ deferred' \in BOOLEAN /\ timer' \in BOOLEAN
        /\ joined' \subseteq Viewers /\ whole' \subseteq Viewers /\ pc' \in [Viewers -> Places]
        /\ reads' \in Seq(Viewers)
    BY <1>1, <1>3, <2>2 DEF Shape
  <2>6. frontier' \in [Viewers -> 0..NextInRedis'] /\ nextSeq' \in 0..NextInRedis'
    <3>1. 0..NextInRedis \subseteq 0..NextInRedis'
      BY <1>3, <1>6
    <3> QED  BY <1>1, <3>1 DEF Shape
  <2> QED  BY <1>3, <2>1, <2>2, <2>3, <2>4, <2>5, <2>6 DEF Shape
<1>8. OnceInOrder'
  BY <1>1, <1>3, <1>5 DEF OnceInOrder
<1>9. \A v \in Viewers, s \in Assigned : Has(v, s)' = Has(v, s)
  BY <1>1, <1>3 DEF Has
<1>10. NothingSkipped'
  <2>1. Base..nextSeq - 1 \subseteq Assigned
    BY <1>6 DEF Shape, Assigned, TransportAssumption
  <2> QED  BY <1>1, <1>3, <2>1 DEF NothingSkipped
<1>11. Attachment'
  BY <1>1, <1>4 DEF Attachment, Buffered
<1>12. Buffer'
  BY <1>1 DEF Buffer
<1>13. \A v \in Viewers : Leads(v)' = Leads(v)
  BY <1>1 DEF Leads
<1>14. Behind'
  <2> SUFFICES ASSUME NEW v \in joined, NEW s \in Assigned', Has(v, s)', EventAt(s)' \notin nameless
               PROVE  /\ ~deferred => s < nextSeq
                      /\ deferred => \E w \in Viewers : Leads(w)' /\ s < frontier[w]
    BY <1>1 DEF Behind
  <2>1. v \in Viewers
    BY DEF Shape
  <2>2. s \in Assigned
    BY <1>1, <1>2, <1>3, <1>5, <2>1 DEF Has
  <2> QED  BY <1>3, <1>9, <1>13, <2>1, <2>2 DEF Behind
<1>15. EarlyAccounts'
  <2> SUFFICES ASSUME ~closed, NEW s \in Assigned', s \notin passed, EventAt(s)' \notin early'
               PROVE  attached /\ \A e \in early' : e < EventAt(s)'
    BY <1>1 DEF EarlyAccounts
  <2>1. CASE s \in Assigned
    <3>1. attached /\ \A e \in early : e < EventAt(s)
      BY <1>3, <1>4, <2>1 DEF EarlyAccounts
    <3> QED  BY <1>3, <1>4, <2>1, <3>1 DEF Buffered
  <2>2. CASE s \notin Assigned
    <3>1. EventAt(s)' = emitted + 1
      BY <1>3, <2>2
    <3>2. attached /\ early' = early
      BY <1>4, <3>1 DEF Buffered
    <3> QED  BY <1>2, <3>1, <3>2
  <2> QED  BY <2>1, <2>2
<1>16. FrontierAccounts'
  <2> SUFFICES ASSUME deferred, NEW w \in Viewers, Leads(w), NEW v \in whole \cap joined,
                      NEW s \in Base..frontier[w] - 1, s \notin passed
               PROVE  Has(v, s)'
    BY <1>1, <1>13 DEF FrontierAccounts
  <2>1. s \in Assigned
    BY <1>6 DEF Shape, Assigned, TransportAssumption
  <2>2. v \in Viewers
    BY DEF Shape
  <2> QED  BY <1>9, <2>1, <2>2 DEF FrontierAccounts
<1> QED  BY <1>1, <1>7, <1>8, <1>10, <1>11, <1>12, <1>14, <1>15, <1>16

\* A receipt that is lost can only make an event nameless.
LEMMA ReceiptStep ==
  ASSUME TransportInv, ~broken, NEW e, Receipt(e)
  PROVE  TransportInv'
<1> USE DEF TransportInv, Running
<1>1. /\ unsettled' \subseteq unsettled /\ nameless \subseteq nameless'
      /\ nameless' \subseteq nameless \cup {e} /\ e \in unsettled
      /\ UNCHANGED <<emitted, log, early, closed, wire, attached, joined, pc, frontier, reads,
                     buffer, outcome, broken>>
  BY DEF Receipt
<1> USE DEF buffer, outcome
<1>2. Shape'
  BY <1>1 DEF Shape, Assigned, NextInRedis
<1>3. OnceInOrder'
  BY <1>1 DEF OnceInOrder, Published
<1>4. NothingSkipped' /\ Attachment' /\ Buffer' /\ EarlyAccounts'
  BY <1>1 DEF NothingSkipped, Attachment, Buffer, EarlyAccounts, Assigned, NextInRedis, EventAt
<1>5. Behind'
  BY <1>1 DEF Behind, Has, Leads, Assigned, NextInRedis, EventAt
<1>6. FrontierAccounts'
  BY <1>1 DEF FrontierAccounts, Has, Leads, EventAt
<1> QED  BY <1>1, <1>2, <1>3, <1>4, <1>5, <1>6

-----------------------------------------------------------------------------
(***************************************************************************)
(* Deliveries                                                              *)
(***************************************************************************)

\* flushPendingMessages gives what waits without a gap, and nothing that the viewers have.
LEMMA Flushes ==
  ASSUME TransportAssumption, Shape, OnceInOrder, NEW from \in 0..NextInRedis,
         NEW S \in SUBSET Assigned, NEW T \in SUBSET Assigned, NEW armed \in BOOLEAN,
         FlushFrom(from, S, T, armed), deferred' = FALSE,
         UNCHANGED <<emitted, log, nameless, joined, whole>>, passed \subseteq passed',
         \A t \in T : t < from, \A s \in S : from <= s,
         \A v \in joined : \A s \in Assigned : Has(v, s) /\ EventAt(s) \notin nameless =>
           s < from /\ \A t \in T : s < t,
         \A v \in whole \cap joined : \A s \in Base..from - 1 : s \in passed' \/ s \in T \/ Has(v, s)
  PROVE  /\ got' \in [Viewers -> Seq(1..emitted)]
         /\ \A v \in Viewers \ joined : got'[v] = got[v]
         /\ OnceInOrder' /\ NothingSkipped' /\ Behind' /\ Buffer'
         /\ nextSeq' \in 0..NextInRedis /\ pending' \subseteq S /\ timer' \in BOOLEAN
<1> DEFINE end == FirstGap(from, S)
           D == T \cup (from..end - 1)
<1>1. /\ NextInRedis \in Nat /\ Base \in Nat /\ Assigned \in SUBSET Int
      /\ S \in SUBSET Int /\ IsFiniteSet(S) /\ T \in SUBSET Int
  BY LogIs, FS_Subset
<1>2. end \in Int /\ from <= end /\ end \notin S /\ from..end - 1 \subseteq S
  BY <1>1, FirstGapIs
<1>3. /\ nextSeq' = end /\ pending' = S \ (from..end - 1)
      /\ timer' = (armed /\ S \ (from..end - 1) # {})
      /\ got' = Given(Frames(D))
  BY DEF FlushFrom
<1> HIDE DEF end
<1>4. end \in 0..NextInRedis
  <2>1. CASE end = from
    BY <2>1
  <2>2. CASE end # from
    <3>1. end - 1 \in S
      BY <1>1, <1>2, <2>2
    <3>2. end - 1 \in Base..NextInRedis - 1
      BY <3>1 DEF Assigned
    <3> QED  BY <1>1, <1>2, <3>2
  <2> QED  BY <2>1, <2>2
<1>5. D \in SUBSET Assigned /\ \A d \in D : d < end
  BY <1>1, <1>2
<1>6. ASSUME NEW v \in joined, NEW s \in Assigned, Has(v, s), EventAt(s) \notin nameless
      PROVE  s < end /\ \A d \in D : s < d
  BY <1>1, <1>2, <1>6
<1>7. ASSUME NEW v \in whole \cap joined, NEW s \in Base..end - 1
      PROVE  s \in passed' \/ s \in D \/ Has(v, s)
  <2>1. CASE s \in Base..from - 1
    BY <2>1
  <2>2. CASE s \notin Base..from - 1
    BY <1>1, <1>2, <2>2
  <2> QED  BY <2>1, <2>2
<1> HIDE DEF D
<1>8. /\ got' \in [Viewers -> Seq(1..emitted)]
      /\ \A v \in Viewers \ joined : got'[v] = got[v]
      /\ OnceInOrder' /\ NothingSkipped' /\ Behind'
  BY <1>3, <1>4, <1>5, <1>6, <1>7, Delivers
<1>9. \A s \in pending' : s > end
  BY <1>1, <1>2, <1>3
<1>10. Buffer'
  BY <1>3, <1>9 DEF Buffer
<1> QED  BY <1>3, <1>4, <1>8, <1>10

\* A delivery in an attachment that has been released leaves the rest as it was.
LEMMA AfterDelivery ==
  ASSUME TransportInv, ~broken, ~deferred, deferred' = FALSE,
         UNCHANGED <<emission, attached, joined, pc, frontier, reads, whole, broken>>,
         wire' \subseteq wire, passed \subseteq passed', pending' \subseteq Assigned,
         got' \in [Viewers -> Seq(1..emitted)], \A v \in Viewers \ joined : got'[v] = got[v],
         nextSeq' \in 0..NextInRedis, timer' \in BOOLEAN,
         OnceInOrder', NothingSkipped', Behind', Buffer'
  PROVE  TransportInv'
<1> USE DEF TransportInv, Running, emission
<1>1. Shape'
  BY DEF Shape, Assigned, NextInRedis
<1>2. Attachment'
  BY DEF Attachment, Shape
<1>3. EarlyAccounts'
  BY DEF EarlyAccounts, Assigned, NextInRedis, EventAt
<1>4. FrontierAccounts'
  BY DEF FrontierAccounts
<1> QED  BY <1>1, <1>2, <1>3, <1>4

\* What a forced flush gives up is counted, and the rest is delivered.
LEMMA ForceFlushStep ==
  ASSUME TransportAssumption, TransportInv, ~broken, ~deferred,
         NEW S \in SUBSET Assigned, S # {}, \A s \in S : s > nextSeq, ForceFlush(S),
         wire' \subseteq wire, UNCHANGED <<emission, frontier, reads>>
  PROVE  TransportInv'
<1> USE DEF TransportInv, Running
<1> DEFINE n == Max(S) + 1
<1>1. NextInRedis \in Nat /\ Base \in Nat /\ Assigned \in SUBSET Int /\ S \in SUBSET Int /\ IsFiniteSet(S)
  BY LogIs, FS_Subset
<1>2. Max(S) \in S /\ \A s \in S : s <= Max(S)
  BY <1>1, Extremes
<1>3. Max(S) \in Base..NextInRedis - 1
  BY <1>2 DEF Assigned
<1>4. n \in 0..NextInRedis /\ \A s \in S : s < n
  BY <1>1, <1>2, <1>3
<1>5. /\ got' = Given(Frames(S)) /\ nextSeq' = n /\ pending' = {} /\ timer' = FALSE
      /\ deferred' = FALSE /\ passed' = passed \cup {s \in nextSeq..Max(S) : s \notin S}
      /\ UNCHANGED <<joined, attached, deferred, pc, whole, broken>>
  BY DEF ForceFlush
<1>6. UNCHANGED <<emitted, log, nameless, joined, whole>> /\ passed \subseteq passed'
  BY <1>5 DEF emission
<1>7. nextSeq \in Nat
  BY DEF Shape
<1>8. ASSUME NEW v \in joined, NEW s \in Assigned, Has(v, s), EventAt(s) \notin nameless
      PROVE  s < n /\ \A d \in S : s < d
  <2>1. s < nextSeq
    BY <1>8 DEF Behind
  <2>2. \A d \in S : s < d
    BY <1>1, <1>7, <2>1
  <2>3. s < Max(S) /\ s \in Int
    BY <1>1, <1>2, <2>2
  <2> QED  BY <1>1, <1>3, <2>2, <2>3
<1>9. ASSUME NEW v \in whole \cap joined, NEW s \in Base..n - 1
      PROVE  s \in passed' \/ s \in S \/ Has(v, s)
  <2>1. CASE s \in Base..nextSeq - 1
    BY <1>5, <2>1 DEF NothingSkipped, Has
  <2>2. CASE s \notin Base..nextSeq - 1
    <3>1. s \in nextSeq..Max(S)
      BY <1>1, <1>3, <1>7, <2>2
    <3> QED  BY <1>5, <3>1
  <2> QED  BY <2>1, <2>2
<1> HIDE DEF n
<1>10. /\ got' \in [Viewers -> Seq(1..emitted)]
       /\ \A v \in Viewers \ joined : got'[v] = got[v]
       /\ OnceInOrder' /\ NothingSkipped' /\ Behind'
  BY <1>4, <1>5, <1>6, <1>8, <1>9, Delivers
<1>11. Buffer'
  BY <1>5 DEF Buffer
<1> QED  BY <1>4, <1>5, <1>6, <1>10, <1>11, AfterDelivery

\* A frame that arrives is dropped, waits, is delivered with what waited for it, or forces
\* the flush.
LEMMA ArriveStep ==
  ASSUME TransportAssumption, TransportInv, ~broken, NEW s, Arrive(s)
  PROVE  TransportInv'
<1> USE DEF TransportInv, Running
<1>1. /\ s \in Assigned /\ wire' \subseteq wire
      /\ UNCHANGED <<emission, frontier, reads>>
  BY DEF Arrive, Shape
<1>2. NextInRedis \in Nat /\ Base \in Nat /\ Assigned \in SUBSET Int
  BY LogIs
<1>3. CASE UNCHANGED <<buffer, outcome, joined, attached, pc, broken>>
  <2>1. pc' \in [Viewers -> Places] /\ frontier' \in [Viewers -> 0..NextInRedis] /\ attached \in BOOLEAN
    BY <1>1, <1>3 DEF Shape
  <2>2. attached' => joined # {}
    BY <1>3 DEF Attachment
  <2> QED  BY <1>1, <1>3, <2>1, <2>2, Quiet DEF emission
<1>4. CASE /\ deferred \/ s > nextSeq
           /\ pending' = pending \cup {s}
           /\ timer' \in BOOLEAN /\ (deferred => timer' = timer)
           /\ UNCHANGED <<deferred, nextSeq, outcome, joined, attached, pc, broken>>
  <2> USE <1>1, <1>4 DEF emission, outcome
  <2>1. Shape'
    BY DEF Shape, Assigned, NextInRedis
  <2>2. OnceInOrder' /\ NothingSkipped' /\ Attachment' /\ EarlyAccounts'
    BY DEF OnceInOrder, Published, NothingSkipped, EventAt, Attachment, EarlyAccounts, Assigned,
           NextInRedis
  <2>3. Buffer'
    BY DEF Buffer
  <2>4. Behind' /\ FrontierAccounts'
    BY DEF Behind, FrontierAccounts, Has, Leads, EventAt, Assigned, NextInRedis
  <2> QED  BY <2>1, <2>2, <2>3, <2>4
<1>5. CASE /\ ~deferred /\ s = nextSeq /\ FlushFrom(s + 1, pending, {s}, timer)
           /\ UNCHANGED <<deferred, whole, passed, joined, attached, pc, broken>>
  <2>1. s + 1 \in 0..NextInRedis
    BY <1>1, <1>2 DEF Assigned
  <2>2. pending \in SUBSET Assigned /\ {s} \in SUBSET Assigned /\ timer \in BOOLEAN
    BY <1>1 DEF Shape
  <2>3. \A t \in pending : s + 1 <= t
    <3>1. \A t \in pending : t > s
      BY <1>5 DEF Buffer
    <3>2. s \in Int /\ pending \in SUBSET Int
      BY <1>1, <1>2, <2>2
    <3> HIDE DEF TransportInv, Running
    <3> QED  BY <3>1, <3>2
  <2>4. ASSUME NEW v \in joined, NEW t \in Assigned, Has(v, t), EventAt(t) \notin nameless
        PROVE  t < s
    BY <1>5, <2>4 DEF Behind
  <2>5. \A v \in joined : \A t \in Assigned : Has(v, t) /\ EventAt(t) \notin nameless =>
          t < s + 1 /\ \A d \in {s} : t < d
    BY <1>1, <1>2, <2>4
  <2>6. \A v \in whole \cap joined : \A t \in Base..s : t \in passed' \/ t \in {s} \/ Has(v, t)
    <3> SUFFICES ASSUME NEW v \in whole \cap joined, NEW t \in Base..s, t # s
                 PROVE  t \in passed' \/ Has(v, t)
      OBVIOUS
    <3>1. t \in Base..nextSeq - 1
      BY <1>1, <1>2, <1>5
    <3> QED  BY <1>5, <3>1 DEF NothingSkipped, Has
  <2>7. (s + 1) - 1 = s /\ s < s + 1
    BY <1>1, <1>2
  <2>8. UNCHANGED <<emitted, log, nameless, joined, whole>> /\ passed \subseteq passed' /\ deferred' = FALSE
    BY <1>1, <1>5 DEF emission
  <2>9. /\ got' \in [Viewers -> Seq(1..emitted)]
        /\ \A v \in Viewers \ joined : got'[v] = got[v]
        /\ OnceInOrder' /\ NothingSkipped' /\ Behind' /\ Buffer'
        /\ nextSeq' \in 0..NextInRedis /\ pending' \subseteq pending /\ timer' \in BOOLEAN
    BY <1>5, <2>1, <2>2, <2>3, <2>5, <2>6, <2>7, <2>8, Flushes
  <2> QED  BY <1>1, <1>5, <2>2, <2>8, <2>9, AfterDelivery
<1>6. CASE ~deferred /\ s > nextSeq /\ ForceFlush(pending \cup {s})
  <2>1. pending \cup {s} \in SUBSET Assigned /\ pending \cup {s} # {}
    BY <1>1 DEF Shape
  <2>2. \A t \in pending \cup {s} : t > nextSeq
    BY <1>6 DEF Buffer
  <2> QED  BY <1>1, <1>6, <2>1, <2>2, ForceFlushStep
<1> QED
  BY <1>3, <1>4, <1>5, <1>6 DEF Arrive, Shape

\* The flush timer runs only once the attachment has been released.
LEMMA TimeoutStep ==
  ASSUME TransportAssumption, TransportInv, ~broken, Timeout
  PROVE  TransportInv'
<1>1. ~deferred /\ pending \in SUBSET Assigned /\ \A s \in pending : s > nextSeq
  BY DEF TransportInv, Running, Buffer, Timeout, Shape
<1>2. pending # {} /\ ForceFlush(pending) /\ wire' \subseteq wire /\ UNCHANGED <<emission, frontier, reads>>
  BY DEF Timeout
<1> QED  BY <1>1, <1>2, ForceFlushStep

\* A flush that breaks off has given a part of what waits, in order.
LEMMA BreakFlushStep ==
  ASSUME TransportAssumption, TransportInv, ~broken, BreakFlush
  PROVE  TransportInv'
<1> USE DEF TransportInv, Running
<1>1. /\ ~deferred /\ pending \in SUBSET Assigned /\ \A s \in pending : s > nextSeq
      /\ nextSeq \in Nat /\ Assigned \in SUBSET Int
  BY LogIs DEF Buffer, BreakFlush, Shape
<1>2. PICK k \in 1..Cardinality(pending) - 1 : got' = Given(SubSeq(Frames(pending), 1, k))
  BY DEF BreakFlush
<1> DEFINE F == Frames(pending)
           E == SubSeq(F, 1, k)
<1>3. /\ F \in Seq(1..emitted) /\ IsFiniteSet(pending) /\ Len(F) = Cardinality(pending)
      /\ \A i, j \in DOMAIN F : i < j => F[i] < F[j]
      /\ \A i \in DOMAIN F : \E s \in pending : F[i] = EventAt(s)
  BY <1>1, FramesAre
<1>4. Len(F) \in Nat /\ k \in 1..Len(F)
  BY <1>3, FS_CardinalityType
<1> HIDE DEF F
<1>5. E \in Seq(1..emitted) /\ DOMAIN E = 1..k /\ \A i \in 1..k : i \in DOMAIN F /\ E[i] = F[i]
  <2> DEFINE X == 1..emitted
  <2>1. F \in Seq(X) /\ Len(F) \in Nat /\ k \in 1..Len(F)
    BY <1>3, <1>4
  <2> HIDE DEF X, TransportInv, Running
  <2>2. \A i \in 1..k : i \in DOMAIN F /\ F[i] \in X
    BY <2>1
  <2>3. k \in Nat /\ E = [i \in 1..k |-> F[i]]
    BY <2>1
  <2>4. E \in [1..k -> X]
    BY <2>2, <2>3
  <2> HIDE DEF E
  <2>5. E \in Seq(X)
    BY <2>3, <2>4
  <2> QED  BY <2>2, <2>3, <2>5 DEF X
<1> HIDE DEF E
<1>6. \A i, j \in DOMAIN E : i < j => E[i] < E[j]
  BY <1>3, <1>5
<1>7. ASSUME NEW v \in joined, NEW i \in DOMAIN got[v], NEW j \in DOMAIN E,
             Named(got[v][i]), Named(E[j])
      PROVE  got[v][i] < E[j]
  <2>1. PICK d \in pending : E[j] = EventAt(d)
    BY <1>3, <1>5
  <2>2. PICK s \in Assigned : EventAt(s) = got[v][i]
    BY <1>7, LogIs DEF Named
  <2>3. s < nextSeq
    BY <1>1, <1>7, <2>2 DEF Behind, Has, Named
  <2>4. s < d
    BY <1>1, <2>3
  <2> QED  BY <1>1, <2>1, <2>2, <2>4, LogIs
<1>8. /\ UNCHANGED <<emission, wire, pc, frontier, reads, whole, passed>>
      /\ broken' = TRUE /\ joined' = {} /\ attached' = FALSE /\ deferred' = FALSE
      /\ nextSeq' = 0 /\ pending' = {} /\ timer' = FALSE
  BY DEF BreakFlush, ResetBuffer
<1>9. got' = Given(E)
  BY <1>2 DEF E, F
<1>10. OnceInOrder'
  BY <1>5, <1>6, <1>7, <1>8, <1>9, GivenInOrder DEF emission
<1>11. got' \in [Viewers -> Seq(1..emitted)]
  BY <1>5, <1>9, GivenIs
<1>12. Shape'
  <2>1. NextInRedis' = NextInRedis /\ Assigned' = Assigned /\ 0 \in 0..NextInRedis
    BY <1>8, LogIs DEF emission, Assigned, NextInRedis
  <2> QED  BY <1>8, <1>11, <2>1 DEF Shape, emission
<1>13. NothingSkipped'
  BY <1>8 DEF NothingSkipped
<1> QED  BY <1>8, <1>10, <1>12, <1>13

-----------------------------------------------------------------------------
(***************************************************************************)
(* Attachments                                                             *)
(***************************************************************************)

\* The first handler finds nobody attached, and starts a deferred buffer.
LEMMA JoinStep ==
  ASSUME TransportAssumption, TransportInv, ~broken, NEW v \in Viewers, Join(v)
  PROVE  TransportInv'
<1> USE DEF TransportInv, Running
<1>1. /\ pc[v] = "out" /\ pc' = [pc EXCEPT ![v] = "ready"] /\ joined' = joined \cup {v}
      /\ UNCHANGED <<emitted, log, early, unsettled, nameless, closed, wire, attached, frontier,
                     reads, got, whole, passed, broken>>
  BY DEF Join, At, emission, outcome
<1>2. \/ joined = {} /\ nextSeq' = 0 /\ pending' = {} /\ timer' = FALSE /\ deferred' = TRUE
      \/ joined # {} /\ UNCHANGED <<deferred, nextSeq, pending, timer>>
  BY DEF Join, ResetBuffer, Attachment, buffer, Shape
<1>3. v \notin joined \cup whole /\ got[v] = <<>>
  BY <1>1 DEF Attachment
<1>4. NextInRedis \in Nat /\ 0 \in 0..NextInRedis
  BY LogIs
<1>5. /\ pc' \in [Viewers -> Places] /\ pc'[v] = "ready"
      /\ \A w \in Viewers \ {v} : pc'[w] = pc[w]
  BY <1>1 DEF Shape, Places
<1>6. Shape'
  <2>1. NextInRedis' = NextInRedis /\ Assigned' = Assigned
    BY <1>1 DEF Assigned, NextInRedis
  <2> QED  BY <1>1, <1>2, <1>4, <1>5, <2>1 DEF Shape
<1>7. OnceInOrder'
  BY <1>1 DEF OnceInOrder, Published
<1>8. whole \cap joined' = whole \cap joined /\ (joined = {} => whole \cap joined' = {})
  BY <1>1, <1>3
<1>9. NothingSkipped'
  BY <1>1, <1>2, <1>8 DEF NothingSkipped, EventAt
<1>10. Attachment'
  BY <1>1, <1>2, <1>3, <1>5 DEF Attachment
<1>11. Buffer'
  BY <1>1, <1>2 DEF Buffer
<1>12. \A w \in Viewers : Leads(w)' = Leads(w)
  BY <1>1, <1>5 DEF Leads
<1>13. Behind'
  <2> SUFFICES ASSUME NEW u \in joined', NEW s \in Assigned, Has(u, s), EventAt(s) \notin nameless
               PROVE  /\ ~deferred' => s < nextSeq'
                      /\ deferred' => \E w \in Viewers : Leads(w)' /\ s < frontier[w]
    BY <1>1 DEF Behind, Has, Assigned, NextInRedis, EventAt
  <2>1. u \in joined
    BY <1>1, <1>3 DEF Has
  <2> QED  BY <1>2, <1>12, <2>1 DEF Behind
<1>14. EarlyAccounts'
  BY <1>1 DEF EarlyAccounts, Assigned, NextInRedis, EventAt
<1>15. FrontierAccounts'
  <2> SUFFICES ASSUME deferred', NEW w \in Viewers, Leads(w), NEW u \in whole \cap joined',
                      NEW s \in Base..frontier[w] - 1, s \notin passed
               PROVE  Has(u, s)
    BY <1>1, <1>12 DEF FrontierAccounts, Has, EventAt
  <2> QED  BY <1>2, <1>8 DEF FrontierAccounts
<1> QED  BY <1>6, <1>7, <1>9, <1>10, <1>11, <1>13, <1>14, <1>15

\* With the last viewer, what was not in the early buffer is its attachment's own.
LEMMA LeaveStep ==
  ASSUME TransportAssumption, TransportInv, ~broken, NEW v \in Viewers, Leave(v)
  PROVE  TransportInv'
<1> USE DEF TransportInv, Running
<1>1. /\ v \in joined /\ joined' = joined \ {v}
      /\ UNCHANGED <<emitted, log, early, unsettled, nameless, closed, wire, frontier,
                     reads, got, whole, broken>>
  BY DEF Leave, emission
<1>2. \/ /\ joined = {v} /\ nextSeq' = 0 /\ pending' = {} /\ timer' = FALSE
         /\ deferred' = FALSE /\ attached' = FALSE
         /\ passed' = passed \cup {s \in Assigned : EventAt(s) \notin early}
      \/ joined # {v} /\ UNCHANGED <<deferred, nextSeq, pending, timer, attached, passed>>
  BY DEF Leave, ResetBuffer, buffer, Assigned
<1>3. ASSUME NEW w \in Viewers
      PROVE  /\ pc'[w] \in Places
             /\ pc'[w] # pc[w] => pc[w] \in {"ready", "live", "fence", "continue"}
                                   /\ pc'[w] \in {"done", "continue"}
             /\ w = v => pc'[w] # "ready"
  <2>1. pc[w] \in Places
    BY DEF Shape
  <2>2. pc'[w] = IF w = v THEN CASE pc[v] \in {"ready", "live"} -> "done"
                                 [] pc[v] = "fence" -> AfterFence(v)
                                 [] OTHER -> pc[v]
                 ELSE IF joined = {v} /\ pc[w] = "continue" THEN "done" ELSE pc[w]
    BY DEF Leave
  <2>3. AfterFence(v) \in {"done", "continue"}
    BY DEF AfterFence
  <2>4. CASE w # v
    BY <2>1, <2>2, <2>4 DEF Places
  <2>5. CASE w = v /\ pc[v] \in {"ready", "live"}
    BY <2>1, <2>2, <2>5 DEF Places
  <2>6. CASE w = v /\ pc[v] = "fence"
    BY <2>1, <2>2, <2>3, <2>6 DEF Places
  <2>7. CASE w = v /\ pc[v] \notin {"ready", "live", "fence"}
    BY <2>1, <2>2, <2>7
  <2> QED  BY <2>4, <2>5, <2>6, <2>7
<1>4. pc' \in [Viewers -> Places]
  <2>1. pc' = [w \in Viewers |-> pc'[w]]
    BY DEF Leave
  <2> QED  BY <1>3, <2>1
<1>5. \A w \in Viewers : Leads(w)' = Leads(w)
  BY <1>1, <1>3 DEF Leads
<1>6. Shape'
  <2>1. NextInRedis' = NextInRedis /\ Assigned' = Assigned /\ 0 \in 0..NextInRedis
    BY <1>1, LogIs DEF Assigned, NextInRedis
  <2> QED  BY <1>1, <1>2, <1>4, <2>1 DEF Shape
<1>7. OnceInOrder'
  BY <1>1 DEF OnceInOrder, Published
<1>8. NothingSkipped' /\ Buffer'
  BY <1>1, <1>2 DEF NothingSkipped, EventAt, Buffer
<1>9. Attachment'
  <2>1. attached' \/ deferred' => joined' # {}
    BY <1>1, <1>2 DEF Attachment
  <2>2. closed => early = {}
    BY DEF Attachment
  <2>3. ~closed => /\ joined' # {} => deferred'
                   /\ whole = {} /\ reads = <<>> /\ \A w \in joined' : got[w] = <<>>
    BY <1>1, <1>2 DEF Attachment
  <2>4. ASSUME NEW w \in Viewers
        PROVE  /\ pc'[w] = "out" => w \notin joined' \cup whole /\ got[w] = <<>>
               /\ pc'[w] = "ready" => w \in joined'
               /\ pc'[w] \in {"apply", "read", "trust"} => closed /\ \E i \in DOMAIN reads : reads[i] = w
               /\ pc'[w] = "apply" => w = Head(reads) /\ (deferred' \/ joined' = {})
    BY <1>1, <1>2, <1>3 DEF Attachment
  <2> QED  BY <1>1, <2>1, <2>2, <2>3, <2>4 DEF Attachment
<1>10. Behind'
  <2> SUFFICES ASSUME NEW u \in joined', NEW s \in Assigned, Has(u, s), EventAt(s) \notin nameless
               PROVE  /\ ~deferred' => s < nextSeq'
                      /\ deferred' => \E w \in Viewers : Leads(w)' /\ s < frontier[w]
    BY <1>1 DEF Behind, Has, Assigned, NextInRedis, EventAt
  <2>1. u \in joined /\ UNCHANGED <<deferred, nextSeq>>
    BY <1>1, <1>2
  <2> QED  BY <1>5, <2>1 DEF Behind
<1>11. EarlyAccounts'
  BY <1>1, <1>2 DEF EarlyAccounts, Assigned, NextInRedis, EventAt
<1>12. FrontierAccounts'
  <2> SUFFICES ASSUME deferred', NEW w \in Viewers, Leads(w), NEW u \in whole \cap joined',
                      NEW s \in Base..frontier[w] - 1, s \notin passed'
               PROVE  Has(u, s)
    BY <1>1, <1>5 DEF FrontierAccounts, Has, EventAt
  <2>1. u \in whole \cap joined /\ deferred /\ passed' = passed
    BY <1>1, <1>2
  <2> QED  BY <2>1 DEF FrontierAccounts
<1> QED  BY <1>6, <1>7, <1>8, <1>9, <1>10, <1>11, <1>12

\* The early buffer is given to all who are there, once, and tells how far it went.
LEMMA ReplayStep ==
  ASSUME TransportAssumption, TransportInv, ~broken, NEW v \in Viewers, Replay(v)
  PROVE  TransportInv'
<1> USE DEF TransportInv, Running
<1> DEFINE E == InOrder(early)
           Told == NamedSequences
<1>1. /\ pc[v] \in {"check", "continue"}
      /\ reads' = Append(reads, v) /\ got' = Given(E) /\ early' = {} /\ closed' = TRUE
      /\ unsettled = {} /\ whole' = IF closed THEN whole ELSE joined
      /\ \/ /\ joined # {} /\ Told # {} /\ pc' = [pc EXCEPT ![v] = "apply"]
            /\ frontier' = [frontier EXCEPT ![v] = Max(Told) + 1]
         \/ /\ joined = {} \/ Told = {}
            /\ pc' = [pc EXCEPT ![v] = "read"] /\ frontier' = frontier
      /\ UNCHANGED <<emitted, log, unsettled, nameless, wire, attached, joined, deferred, nextSeq,
                     pending, timer, passed, broken>>
  BY DEF Replay, At, ReplayedNext, buffer
<1>2. /\ NextInRedis \in Nat /\ Base \in Nat /\ Assigned \in SUBSET Int /\ IsFiniteSet(Assigned)
      /\ NextInRedis' = NextInRedis /\ Assigned' = Assigned
  BY <1>1, LogIs DEF Assigned, NextInRedis
<1>3. early \in SUBSET (1..emitted) /\ emitted \in Nat /\ early \in SUBSET Int /\ IsFiniteSet(early)
  <2>1. emitted \in Nat /\ early \in SUBSET (1..emitted)
    BY DEF Shape
  <2> HIDE DEF TransportInv, Running
  <2>2. IsFiniteSet(1..emitted) /\ early \in SUBSET Int
    BY <2>1, FS_Interval
  <2> QED  BY <2>1, <2>2, FS_Subset
<1>4. /\ E \in Seq(early) /\ Len(E) = Cardinality(early)
      /\ \A i, j \in 1..Len(E) : i < j => E[i] < E[j]
      /\ \A s \in early : \E i \in 1..Len(E) : E[i] = s
  BY <1>3, InOrderIs
<1> HIDE DEF E
<1>5. /\ E \in Seq(1..emitted) /\ DOMAIN E = 1..Len(E) /\ \A i \in DOMAIN E : E[i] \in early
  <2> DEFINE X == 1..emitted
  <2>1. early \subseteq X /\ E \in Seq(early)
    BY <1>3, <1>4
  <2> HIDE DEF X, TransportInv, Running
  <2>2. E \in Seq(X) /\ DOMAIN E = 1..Len(E) /\ \A i \in DOMAIN E : E[i] \in early
    BY <2>1
  <2> QED  BY <2>2 DEF X
<1>6. /\ Told \in SUBSET Assigned /\ IsFiniteSet(Told) /\ Told \in SUBSET Int
      /\ \A s \in Assigned : EventAt(s) \in early \ nameless => s \in Told
      /\ \A s \in Told : EventAt(s) \in early
  <2>1. /\ Told \in SUBSET Assigned
        /\ \A s \in Assigned : EventAt(s) \in early \ nameless => s \in Told
        /\ \A s \in Told : EventAt(s) \in early
    BY LogIs DEF NamedSequences
  <2> HIDE DEF Told
  <2> QED  BY <1>2, <2>1, FS_Subset
<1> HIDE DEF Told
<1>7. Told # {} => Max(Told) \in Told /\ \A s \in Told : s <= Max(Told)
  BY <1>6, Extremes
<1>8. Told # {} => Max(Told) + 1 \in 0..NextInRedis /\ Max(Told) \in Base..NextInRedis - 1
  <2> SUFFICES ASSUME Told # {}
               PROVE  Max(Told) + 1 \in 0..NextInRedis /\ Max(Told) \in Base..NextInRedis - 1
    OBVIOUS
  <2>1. Max(Told) \in Base..NextInRedis - 1
    BY <1>6, <1>7 DEF Assigned
  <2> QED  BY <1>2, <2>1
<1>9. /\ pc' \in [Viewers -> Places] /\ frontier' \in [Viewers -> 0..NextInRedis]
      /\ pc'[v] \in {"apply", "read"} /\ \A w \in Viewers \ {v} : pc'[w] = pc[w] /\ frontier'[w] = frontier[w]
      /\ joined # {} /\ Told # {} => pc'[v] = "apply" /\ frontier'[v] = Max(Told) + 1
      /\ pc'[v] = "apply" => joined # {} /\ Told # {}
  <2>1. pc \in [Viewers -> Places] /\ frontier \in [Viewers -> 0..NextInRedis]
    BY DEF Shape
  <2>2. CASE /\ joined # {} /\ Told # {} /\ pc' = [pc EXCEPT ![v] = "apply"]
             /\ frontier' = [frontier EXCEPT ![v] = Max(Told) + 1]
    BY <1>8, <2>1, <2>2 DEF Places
  <2>3. CASE /\ joined = {} \/ Told = {}
             /\ pc' = [pc EXCEPT ![v] = "read"] /\ frontier' = frontier
    BY <2>1, <2>3 DEF Places
  <2> QED  BY <1>1, <2>2, <2>3
<1>10. /\ reads \in Seq(Viewers) /\ reads' \in Seq(Viewers)
       /\ \A i \in DOMAIN reads : i \in DOMAIN reads' /\ reads'[i] = reads[i]
       /\ \E i \in DOMAIN reads' : reads'[i] = v
       /\ reads # <<>> => Head(reads') = Head(reads)
       /\ reads = <<>> => Head(reads') = v
       /\ reads' # <<>>
  <2>1. reads \in Seq(Viewers) /\ reads' = Append(reads, v)
    BY <1>1 DEF Shape
  <2> HIDE DEF TransportInv, Running
  <2>2. /\ reads' \in Seq(Viewers) /\ Len(reads) \in Nat /\ Len(reads') = Len(reads) + 1
        /\ DOMAIN reads = 1..Len(reads) /\ DOMAIN reads' = 1..Len(reads')
        /\ reads'[Len(reads) + 1] = v /\ \A i \in 1..Len(reads) : reads'[i] = reads[i]
    BY <2>1
  <2>3. Len(reads) + 1 \in DOMAIN reads' /\ \A i \in DOMAIN reads : i \in DOMAIN reads'
    BY <2>2
  <2>4. Head(reads') = reads'[1] /\ (reads # <<>> => Head(reads) = reads[1] /\ 1 \in DOMAIN reads)
    BY <2>1, <2>2
  <2>5. reads = <<>> => Len(reads) = 0
    OBVIOUS
  <2> QED  BY <2>1, <2>2, <2>3, <2>4, <2>5
<1>11. Attachment'
  <2>1. ASSUME NEW w \in Viewers \ {v}
        PROVE  /\ pc'[w] = "out" => w \notin joined' \cup whole' /\ got'[w] = <<>>
               /\ pc'[w] = "ready" => w \in joined'
               /\ pc'[w] \in {"apply", "read", "trust"} => closed' /\ \E i \in DOMAIN reads' : reads'[i] = w
               /\ pc'[w] = "apply" => w = Head(reads') /\ (deferred' \/ joined' = {})
    <3>1. pc'[w] = "out" => w \notin joined' \cup whole' /\ got'[w] = <<>>
      BY <1>1, <1>5, <1>9, GivenIs DEF Attachment
    <3>2. pc'[w] = "ready" => w \in joined'
      BY <1>1, <1>9 DEF Attachment
    <3>3. pc'[w] \in {"apply", "read", "trust"} => closed' /\ \E i \in DOMAIN reads' : reads'[i] = w
      BY <1>1, <1>9, <1>10 DEF Attachment
    <3>4. pc'[w] = "apply" => w = Head(reads') /\ (deferred' \/ joined' = {})
      <4>1. pc[w] = "apply" => reads # <<>>
        BY DEF Attachment
      <4> QED  BY <1>1, <1>9, <1>10, <4>1 DEF Attachment
    <3> QED  BY <3>1, <3>2, <3>3, <3>4
  <2>2. pc'[v] = "apply" => v = Head(reads') /\ deferred'
    <3> SUFFICES ASSUME pc'[v] = "apply"
                 PROVE  v = Head(reads') /\ deferred'
      OBVIOUS
    <3>1. joined # {} /\ early # {}
      BY <1>6, <1>7, <1>9
    <3>2. ~closed
      BY <3>1 DEF Attachment
    <3> QED  BY <1>1, <1>10, <3>1, <3>2 DEF Attachment
  <2>3. /\ attached' \/ deferred' => joined' # {}
        /\ closed' /\ early' = {}
    BY <1>1 DEF Attachment
  <2>4. pc'[v] # "out" /\ pc'[v] # "ready"
    BY <1>9
  <2> QED  BY <1>10, <2>1, <2>2, <2>3, <2>4 DEF Attachment
<1>12. got' \in [Viewers -> Seq(1..emitted)]
  BY <1>1, <1>5, GivenIs
<1>13. Shape'
  <2>1. whole' \subseteq Viewers
    BY <1>1 DEF Shape
  <2> QED  BY <1>1, <1>2, <1>3, <1>9, <1>10, <1>12, <2>1 DEF Shape
<1>14. Buffer' /\ EarlyAccounts'
  BY <1>1 DEF Buffer, EarlyAccounts
<1>15. CASE closed
  <2>1. early = {} /\ Told = {} /\ E = <<>>
    <3>1. early = {}
      BY <1>15 DEF Attachment
    <3>2. Len(E) = 0
      BY <1>4, <3>1, FS_EmptySet
    <3> QED  BY <1>5, <1>6, <3>1, <3>2
  <2>2. got' = got
    <3>1. got \in [Viewers -> Seq(1..emitted)] /\ got' = [w \in Viewers |-> IF w \in joined THEN got[w] \o E ELSE got[w]]
      BY <1>1 DEF Shape, Given
    <3>2. ASSUME NEW w \in Viewers
          PROVE  got[w] \o E = got[w]
      <4>1. got[w] \in Seq(1..emitted)
        BY <3>1
      <4> QED  BY <2>1, <4>1
    <3> QED  BY <1>12, <3>1, <3>2
  <2>3. pc'[v] = "read" /\ frontier' = frontier /\ whole' = whole
    BY <1>1, <1>9, <1>15, <2>1
  <2>4. \A w \in Viewers : Leads(w)' = Leads(w)
    BY <1>1, <1>9, <1>10, <2>3 DEF Leads
  <2>5. OnceInOrder' /\ NothingSkipped'
    BY <1>1, <2>2, <2>3 DEF OnceInOrder, Published, NothingSkipped, EventAt
  <2>6. Behind'
    <3> SUFFICES ASSUME NEW u \in joined, NEW s \in Assigned, Has(u, s), EventAt(s) \notin nameless
                 PROVE  /\ ~deferred => s < nextSeq
                        /\ deferred => \E w \in Viewers : Leads(w)' /\ s < frontier[w]
      BY <1>1, <2>2, <2>3 DEF Behind, Has, Assigned, NextInRedis, EventAt
    <3> QED  BY <2>4 DEF Behind
  <2>7. FrontierAccounts'
    <3> SUFFICES ASSUME deferred, NEW w \in Viewers, Leads(w), NEW u \in whole \cap joined,
                        NEW s \in Base..frontier[w] - 1, s \notin passed
                 PROVE  Has(u, s)
      BY <1>1, <2>2, <2>3, <2>4 DEF FrontierAccounts, Has, EventAt
    <3> QED  BY DEF FrontierAccounts
  <2> QED  BY <1>11, <1>13, <1>14, <2>5, <2>6, <2>7
<1>16. CASE ~closed
  <2>1. /\ reads = <<>> /\ whole' = joined /\ joined \subseteq Viewers
        /\ joined # {} => deferred
        /\ \A u \in joined : got[u] = <<>> /\ DOMAIN got[u] = {}
    BY <1>1, <1>16 DEF Attachment, Shape
  <2>2. OnceInOrder'
    <3>1. \A i, j \in DOMAIN E : i < j => E[i] < E[j]
      BY <1>4, <1>5
    <3>2. \A u \in joined : \A i \in DOMAIN got[u], k \in DOMAIN E :
            Named(got[u][i]) /\ Named(E[k]) => got[u][i] < E[k]
      BY <2>1
    <3> QED  BY <1>1, <1>5, <3>1, <3>2, GivenInOrder
  <2>3. NothingSkipped'
    BY <1>1, <2>1 DEF NothingSkipped
  <2>4. Leads(v)' <=> pc'[v] = "apply"
    BY <1>10, <2>1 DEF Leads
  <2>5. Behind'
    <3> SUFFICES ASSUME NEW u \in joined, NEW s \in Assigned, Has(u, s)', EventAt(s) \notin nameless
                 PROVE  deferred /\ Leads(v)' /\ s < frontier'[v]
      BY <1>1, <1>2 DEF Behind, EventAt
    <3>1. PICK i \in DOMAIN got'[u] : got'[u][i] = EventAt(s)
      BY <1>1 DEF Has, EventAt
    <3>2. EventAt(s) \in early
      <4>1. i \notin DOMAIN got[u]
        BY <2>1
      <4>2. \/ i \in DOMAIN got[u] /\ got'[u][i] = got[u][i]
            \/ i \notin DOMAIN got[u] /\ i - Len(got[u]) \in DOMAIN E
               /\ got'[u][i] = E[i - Len(got[u])]
        BY <1>1, <1>5, GivenIs
      <4> QED  BY <1>5, <3>1, <4>1, <4>2
    <3>3. s \in Told
      BY <1>6, <3>2
    <3>4. frontier'[v] = Max(Told) + 1 /\ Leads(v)' /\ deferred
      BY <1>9, <2>1, <2>4, <3>3
    <3>5. s <= Max(Told) /\ s \in Int /\ Max(Told) \in Int
      BY <1>6, <1>7, <3>3
    <3>6. s < Max(Told) + 1
      <4> HIDE DEF TransportInv, Running
      <4> QED  BY <3>5
    <3> QED  BY <3>4, <3>6
  <2>6. FrontierAccounts'
    <3> SUFFICES ASSUME NEW w \in Viewers, Leads(w)', NEW u \in joined,
                        NEW s \in Base..frontier'[w] - 1, s \notin passed
                 PROVE  Has(u, s)'
      BY <1>1, <2>1 DEF FrontierAccounts
    <3>1. w = v /\ joined # {} /\ Told # {} /\ frontier'[v] = Max(Told) + 1
      BY <1>9, <1>10, <2>1 DEF Leads
    <3>2. s \in Base..Max(Told) /\ s \in Assigned /\ Max(Told) \in Assigned /\ Max(Told) \in Told
      BY <1>2, <1>7, <1>8, <3>1 DEF Assigned
    <3>3. CASE EventAt(s) \in early
      <4>1. PICK k \in DOMAIN E : E[k] = EventAt(s)
        BY <1>4, <1>5, <3>3
      <4>2. \E i \in DOMAIN got'[u] : got'[u][i] = EventAt(s)
        BY <1>1, <1>5, <4>1, GivenIs
      <4> QED  BY <1>1, <4>2 DEF Has, EventAt
    <3>4. CASE \A e \in early : e < EventAt(s)
      <4>1. EventAt(Max(Told)) < EventAt(s)
        BY <1>6, <3>2, <3>4
      <4> DEFINE m == Max(Told)
      <4>2. m \in Assigned /\ s \in Assigned /\ s \in Base..m
        BY <3>2
      <4>3. EventAt(s) \in 1..emitted /\ EventAt(m) \in 1..emitted
        BY <4>2, LogIs
      <4>4. s < m => EventAt(s) < EventAt(m)
        BY <4>2, LogIs
      <4>5. EventAt(m) < EventAt(s)
        BY <4>1
      <4> HIDE DEF m, TransportInv, Running
      <4>6. s \in Int /\ m \in Int /\ (s = m \/ s < m)
        BY <1>2, <4>2
      <4>7. EventAt(s) \in Int /\ EventAt(m) \in Int
        BY <4>3
      <4> QED  BY <4>4, <4>5, <4>6, <4>7
    <3> QED  BY <1>16, <3>2, <3>3, <3>4 DEF EarlyAccounts
  <2> QED  BY <1>11, <1>13, <1>14, <1>1, <2>2, <2>3, <2>5, <2>6
<1> QED  BY <1>15, <1>16

\* The answer of the counter or of the early buffer goes on from a sequence that is not past
\* a frame that waits, and not back.
LEMMA GoesOn ==
  ASSUME TransportAssumption, Shape, NEW v \in Viewers, NEW S \in SUBSET Assigned,
         \A s \in S : nextSeq <= s
  PROVE  /\ GoOnFrom(v, S) \in nextSeq..NextInRedis /\ \A s \in S : GoOnFrom(v, S) <= s
         /\ nextSeq = 0 /\ (\A s \in S : frontier[v] <= s) => GoOnFrom(v, S) = frontier[v]
         /\ Max({nextSeq, frontier[v]}) \in nextSeq..NextInRedis
         /\ nextSeq = 0 => Max({nextSeq, frontier[v]}) = frontier[v]
<1> DEFINE f == frontier[v]
           N == {f} \cup S
           m == Min(N)
<1>1. /\ NextInRedis \in Nat /\ Assigned \in SUBSET Int
      /\ S \in SUBSET Int /\ IsFiniteSet(S) /\ f \in 0..NextInRedis /\ nextSeq \in 0..NextInRedis
  BY LogIs, FS_Subset DEF Shape
<1> HIDE DEF f
<1>2. \A a, b \in Int : Max({a, b}) \in {a, b} /\ a <= Max({a, b}) /\ b <= Max({a, b})
  <2> SUFFICES ASSUME NEW a \in Int, NEW b \in Int
               PROVE  Max({a, b}) \in {a, b} /\ a <= Max({a, b}) /\ b <= Max({a, b})
    OBVIOUS
  <2>1. IsFiniteSet({b} \cup {a}) /\ {b} \cup {a} = {a, b}
    BY FS_Singleton, FS_AddElement
  <2> QED  BY <2>1, Extremes
<1>3. m \in N /\ \A s \in N : m <= s
  <2>1. N \in SUBSET Int /\ IsFiniteSet(N) /\ N # {}
    BY <1>1, FS_AddElement
  <2> HIDE DEF N
  <2> QED  BY <2>1, Extremes
<1>4. GoOnFrom(v, S) = Max({nextSeq, m})
  BY DEF GoOnFrom, f
<1> HIDE DEF m
<1>5. m \in Int /\ m <= f /\ (\A s \in S : m <= s) /\ (m = f \/ m \in S)
  BY <1>1, <1>3
<1> DEFINE g == Max({nextSeq, m})
           h == Max({nextSeq, f})
<1>6. /\ g = nextSeq \/ g = m
      /\ nextSeq <= g /\ m <= g
      /\ h = nextSeq \/ h = f
      /\ nextSeq <= h /\ f <= h
  BY <1>1, <1>2, <1>5
<1> HIDE DEF g, h
<1>7. g \in nextSeq..NextInRedis /\ h \in nextSeq..NextInRedis
  BY <1>1, <1>5, <1>6
<1>8. \A s \in S : g <= s
  BY <1>5, <1>6
<1>9. nextSeq = 0 => h = f
  BY <1>1, <1>6
<1>10. nextSeq = 0 /\ (\A s \in S : f <= s) => g = f
  <2> SUFFICES ASSUME nextSeq = 0, \A s \in S : f <= s
               PROVE  g = f
    OBVIOUS
  <2>1. m = f
    BY <1>1, <1>5
  <2> QED  BY <1>1, <1>6, <2>1
<1> QED  BY <1>4, <1>7, <1>8, <1>9, <1>10 DEF f, g, h

\* The attachment goes on with the answer it got, or without one: what the viewers have stays
\* behind, and what they miss is counted.
LEMMA ApplyStep ==
  ASSUME TransportAssumption, TransportInv, ~broken, NEW v \in Viewers, NEW failed \in BOOLEAN,
         Apply(v, failed)
  PROVE  TransportInv'
<1> USE DEF TransportInv, Running
<1>1. /\ pc[v] \in {"apply", "trust"} \/ (failed /\ pc[v] = "read")
      /\ v = Head(reads) /\ reads' = Tail(reads)
      /\ pc' = [pc EXCEPT ![v] = IF v \in joined THEN "live" ELSE "done"]
      /\ UNCHANGED <<emitted, log, early, unsettled, nameless, closed, wire, attached, joined,
                     frontier, broken>>
  BY DEF Apply, At, emission
<1>2. closed /\ early = {} /\ \E i \in DOMAIN reads : reads[i] = v
  BY <1>1 DEF Attachment
<1>3. NextInRedis' = NextInRedis /\ Assigned' = Assigned /\ NextInRedis \in Nat /\ Assigned \in SUBSET Int
  BY <1>1, LogIs DEF Assigned, NextInRedis
<1>4. /\ reads' \in Seq(Viewers)
      /\ \A w \in Viewers \ {v} : (\E i \in DOMAIN reads : reads[i] = w) =>
           \E i \in DOMAIN reads' : reads'[i] = w
  <2>1. reads \in Seq(Viewers) /\ reads # <<>>
    BY <1>2 DEF Shape
  <2> HIDE DEF TransportInv, Running
  <2>2. /\ reads' \in Seq(Viewers) /\ Len(reads) \in Nat /\ Len(reads') = Len(reads) - 1
        /\ DOMAIN reads = 1..Len(reads) /\ DOMAIN reads' = 1..Len(reads')
        /\ \A i \in 1..Len(reads') : reads'[i] = reads[i + 1]
        /\ reads[1] = v
    BY <1>1, <2>1
  <2>3. ASSUME NEW w \in Viewers \ {v}, NEW i \in DOMAIN reads, reads[i] = w
        PROVE  \E j \in DOMAIN reads' : reads'[j] = w
    <3>1. i # 1
      BY <2>2, <2>3
    <3>2. i - 1 \in 1..Len(reads') /\ (i - 1) + 1 = i
      BY <2>2, <3>1
    <3> QED  BY <2>2, <2>3, <3>2
  <2> QED  BY <2>2, <2>3
<1>5. /\ pc' \in [Viewers -> Places] /\ pc'[v] \in {"live", "done"}
      /\ \A w \in Viewers \ {v} : pc'[w] = pc[w]
  BY <1>1 DEF Shape, Places
<1>6. \A w \in Viewers : pc'[w] # "apply"
  BY <1>1, <1>5 DEF Attachment
<1>7. ASSUME got' \in [Viewers -> Seq(1..emitted)], \A w \in Viewers \ joined : got'[w] = got[w],
             nextSeq' \in 0..NextInRedis, pending' \subseteq Assigned, timer' \in BOOLEAN,
             deferred' = FALSE, whole' = whole,
             OnceInOrder', NothingSkipped', Behind', Buffer'
      PROVE  TransportInv'
  <2>1. Shape'
    BY <1>1, <1>3, <1>4, <1>5, <1>7 DEF Shape
  <2>2. ASSUME NEW w \in Viewers
        PROVE  /\ pc'[w] = "out" => w \notin joined' \cup whole' /\ got'[w] = <<>>
               /\ pc'[w] = "ready" => w \in joined'
               /\ pc'[w] \in {"apply", "read", "trust"} => closed' /\ \E i \in DOMAIN reads' : reads'[i] = w
               /\ pc'[w] # "apply"
    <3>1. CASE w = v
      BY <1>5, <3>1
    <3>2. CASE w # v
      <4>1. pc'[w] = pc[w] /\ pc'[w] # "apply"
        BY <1>5, <1>6, <3>2
      <4>2. pc[w] = "out" => w \notin joined \cup whole /\ got'[w] = <<>>
        BY <1>7 DEF Attachment
      <4>3. pc[w] = "ready" => w \in joined
        BY DEF Attachment
      <4>4. pc[w] \in {"apply", "read", "trust"} => closed /\ \E i \in DOMAIN reads' : reads'[i] = w
        BY <1>4, <3>2 DEF Attachment
      <4> QED  BY <1>1, <1>7, <4>1, <4>2, <4>3, <4>4
    <3> QED  BY <3>1, <3>2
  <2>3. attached' => joined' # {}
    BY <1>1 DEF Attachment
  <2>4. Attachment'
    BY <1>1, <1>2, <1>7, <2>2, <2>3 DEF Attachment
  <2>5. EarlyAccounts' /\ FrontierAccounts'
    BY <1>1, <1>2, <1>7 DEF EarlyAccounts, FrontierAccounts
  <2> QED  BY <1>7, <2>1, <2>4, <2>5
<1>8. CASE failed /\ ~deferred /\ UNCHANGED <<buffer, outcome>>
  <2>1. UNCHANGED <<deferred, nextSeq, pending, timer, got, whole, passed>> /\ deferred' = FALSE
    BY <1>8 DEF buffer, outcome, Shape
  <2>2. OnceInOrder' /\ NothingSkipped' /\ Buffer'
    BY <1>1, <2>1 DEF OnceInOrder, Published, NothingSkipped, EventAt, Buffer
  <2>3. Behind'
    BY <1>1, <1>3, <2>1 DEF Behind, Has, EventAt
  <2> QED  BY <1>7, <2>1, <2>2, <2>3 DEF Shape
<1>9. CASE failed => deferred
  <2> DEFINE S == WithoutCopies(v)
             from == IF ~failed THEN GoOnFrom(v, S)
                     ELSE IF pc[v] = "apply" THEN Max({nextSeq, frontier[v]}) ELSE nextSeq
  <2>1. /\ FlushFrom(from, S, {}, Rearmed) /\ deferred' = FALSE /\ whole' = whole
        /\ passed' = IF pc[v] = "trust"
                     THEN passed \cup {s \in nextSeq..from - 1 : s \notin pending}
                     ELSE passed
    BY <1>9 DEF Apply
  <2>2. /\ pending \subseteq Assigned /\ nextSeq \in 0..NextInRedis /\ frontier[v] \in 0..NextInRedis
        /\ Base \in Nat /\ deferred \in BOOLEAN
    BY DEF Shape, TransportAssumption
  <2>3. /\ S \in SUBSET Assigned /\ S \subseteq pending
        /\ pc[v] = "apply" => \A s \in S : frontier[v] <= s
        /\ pc[v] # "apply" => S = pending
    BY <1>3, <2>2 DEF WithoutCopies
  <2> HIDE DEF S
  <2>4. \A s \in pending : nextSeq <= s
    <3>1. deferred => nextSeq = 0
      BY DEF Buffer
    <3>2. ~deferred => \A s \in pending : s > nextSeq
      BY DEF Buffer
    <3>3. \A s \in Assigned : s \in Base..NextInRedis - 1
      BY DEF Assigned
    <3> HIDE DEF TransportInv, Running
    <3>4. CASE deferred
      BY <2>2, <3>1, <3>3, <3>4
    <3>5. CASE ~deferred
      BY <1>3, <2>2, <3>2, <3>3, <3>5
    <3> QED  BY <3>4, <3>5
  <2>5. /\ from \in nextSeq..NextInRedis /\ \A s \in S : from <= s
        /\ deferred /\ pc[v] = "apply" => from = frontier[v]
        /\ failed /\ pc[v] # "apply" => from = nextSeq
    <3>1. deferred => nextSeq = 0
      BY DEF Buffer
    <3>2. \A s \in S : nextSeq <= s
      BY <2>3, <2>4
    <3>3. /\ GoOnFrom(v, S) \in nextSeq..NextInRedis /\ \A s \in S : GoOnFrom(v, S) <= s
          /\ nextSeq = 0 /\ (\A s \in S : frontier[v] <= s) => GoOnFrom(v, S) = frontier[v]
          /\ Max({nextSeq, frontier[v]}) \in nextSeq..NextInRedis
          /\ nextSeq = 0 => Max({nextSeq, frontier[v]}) = frontier[v]
      BY <2>3, <3>2, GoesOn
    <3>4. CASE ~failed
      BY <2>3, <3>1, <3>3, <3>4
    <3>5. CASE failed /\ pc[v] = "apply"
      BY <1>9, <2>3, <3>1, <3>3, <3>5
    <3>6. CASE failed /\ pc[v] # "apply"
      <4>1. nextSeq \in nextSeq..NextInRedis
        <5> HIDE DEF TransportInv, Running
        <5> QED  BY <2>2
      <4> QED  BY <3>2, <3>6, <4>1
    <3> QED  BY <3>4, <3>5, <3>6
  <2> HIDE DEF from
  <2>6. from \in 0..NextInRedis /\ nextSeq <= from /\ from \in Int
    <3> HIDE DEF TransportInv, Running
    <3> QED  BY <2>2, <2>5
  <2>7. ASSUME NEW u \in joined, NEW s \in Assigned, Has(u, s), EventAt(s) \notin nameless
        PROVE  s < from
    <3>1. CASE deferred
      <4>1. PICK w \in Viewers : Leads(w) /\ s < frontier[w]
        BY <2>7, <3>1 DEF Behind
      <4> QED  BY <1>1, <2>5, <3>1, <4>1 DEF Leads
    <3>2. CASE ~deferred
      <4>1. s < nextSeq
        BY <2>7, <3>2 DEF Behind
      <4> HIDE DEF TransportInv, Running
      <4> QED  BY <1>3, <2>2, <2>6, <2>7, <4>1
    <3> QED  BY <3>1, <3>2
  <2>8. ASSUME NEW u \in whole \cap joined, NEW s \in Base..from - 1
        PROVE  s \in passed' \/ Has(u, s)
    <3>1. passed \subseteq passed'
      BY <2>1
    <3>2. CASE ~deferred /\ s \in Base..nextSeq - 1
      BY <3>1, <3>2 DEF NothingSkipped, Has
    <3>3. CASE pc[v] = "trust" /\ s \in nextSeq..from - 1
      <4>1. s \notin S
        <5> HIDE DEF TransportInv, Running
        <5> QED  BY <2>2, <2>5, <2>6, <3>3
      <4> QED  BY <2>1, <2>3, <3>3, <4>1
    <3>4. CASE pc[v] = "apply"
      <4>1. deferred /\ from = frontier[v]
        BY <2>5, <3>4 DEF Attachment
      <4>2. Leads(v)
        BY <1>1, <1>2, <3>4 DEF Leads
      <4> QED  BY <3>1, <4>1, <4>2 DEF FrontierAccounts
    <3>5. CASE pc[v] # "apply" /\ ~(~deferred /\ s \in Base..nextSeq - 1)
      <4>1. s \in nextSeq..from - 1
        <5>1. deferred => nextSeq = 0
          BY DEF Buffer
        <5> HIDE DEF TransportInv, Running
        <5> QED  BY <2>2, <2>6, <3>5, <5>1
      <4>2. from # nextSeq
        <5> HIDE DEF TransportInv, Running
        <5> QED  BY <2>2, <2>6, <4>1
      <4>3. pc[v] = "trust"
        BY <1>1, <2>5, <3>5, <4>2
      <4> QED  BY <3>3, <4>1, <4>3
    <3> QED  BY <3>2, <3>4, <3>5
  <2>9. {} \in SUBSET Assigned /\ Rearmed \in BOOLEAN /\ passed \subseteq passed'
    BY <2>1 DEF Rearmed
  <2>10. /\ got' \in [Viewers -> Seq(1..emitted)]
         /\ \A w \in Viewers \ joined : got'[w] = got[w]
         /\ OnceInOrder' /\ NothingSkipped' /\ Behind' /\ Buffer'
         /\ nextSeq' \in 0..NextInRedis /\ pending' \subseteq S /\ timer' \in BOOLEAN
    BY <1>1, <2>1, <2>3, <2>5, <2>6, <2>7, <2>8, <2>9, Flushes
  <2> QED  BY <1>7, <2>1, <2>3, <2>10
<1> QED  BY <1>8, <1>9 DEF Apply

\* Nothing has been emitted, and nobody is there.
LEMMA Begins ==
  ASSUME TransportAssumption, Init
  PROVE  TransportInv
<1> USE DEF Init
<1>1. NextInRedis = Base /\ Base \in Nat /\ DOMAIN log = {} /\ Assigned = {}
  BY DEF NextInRedis, TransportAssumption, Assigned
<1>2. Shape
  <2>1. 0 \in 0..NextInRedis /\ "out" \in Places
    BY <1>1 DEF Places
  <2>2. /\ emitted \in Nat /\ log \in Seq(1..emitted)
        /\ \A i, j \in DOMAIN log : i < j => log[i] < log[j]
    BY <1>1
  <2>3. /\ wire \subseteq Assigned /\ pending \subseteq Assigned
        /\ unsettled \subseteq early /\ early \subseteq 1..emitted /\ nameless \subseteq 1..emitted
        /\ joined \subseteq Viewers /\ whole \subseteq Viewers
    OBVIOUS
  <2>4. closed \in BOOLEAN /\ attached \in BOOLEAN /\ deferred \in BOOLEAN /\ timer \in BOOLEAN
    OBVIOUS
  <2>5. pc \in [Viewers -> Places] /\ frontier \in [Viewers -> 0..NextInRedis] /\ nextSeq \in 0..NextInRedis
    BY <2>1
  <2>6. reads \in Seq(Viewers) /\ got \in [Viewers -> Seq(1..emitted)]
    OBVIOUS
  <2> QED  BY <2>2, <2>3, <2>4, <2>5, <2>6 DEF Shape
<1>3. OnceInOrder /\ NothingSkipped
  BY DEF OnceInOrder, NothingSkipped
<1>4. Attachment /\ Buffer /\ Behind /\ EarlyAccounts /\ FrontierAccounts
  <2>1. Attachment
    BY DEF Attachment
  <2>2. Buffer /\ Behind /\ FrontierAccounts
    BY DEF Buffer, Behind, FrontierAccounts
  <2>3. EarlyAccounts
    BY <1>1 DEF EarlyAccounts
  <2> QED  BY <2>1, <2>2, <2>3
<1> QED  BY <1>2, <1>3, <1>4 DEF TransportInv, Running

\* Every step of the generation, of the transport and of a viewer.
LEMMA TransportStep ==
  ASSUME TransportAssumption, TransportInv, [Next]_vars
  PROVE  TransportInv'
<1>1. CASE Next
  <2>1. ~broken
    BY <1>1 DEF Next
  <2>2. ASSUME NEW s, Lose(s)
        PROVE  TransportInv'
    BY <2>1, <2>2, QuietSteps DEF Lose, TransportInv, Shape
  <2>3. ASSUME NEW v \in Viewers, Settles(v)
        PROVE  TransportInv'
    BY <2>1, <2>3, QuietSteps, ReplayStep, ApplyStep DEF Settles
  <2> QED
    BY <1>1, <2>1, <2>2, <2>3, EmitStep, ReceiptStep, ArriveStep, TimeoutStep, BreakFlushStep,
       JoinStep, LeaveStep DEF Next
<1>2. CASE UNCHANGED vars
  <2> USE <1>2 DEF vars, emission, buffer, outcome
  <2>1. Shape'
    BY DEF TransportInv, Shape, Assigned, NextInRedis
  <2>2. OnceInOrder' /\ NothingSkipped'
    BY DEF TransportInv, OnceInOrder, NothingSkipped, Published, EventAt
  <2>3. ~broken => Attachment' /\ Buffer' /\ EarlyAccounts'
    BY DEF TransportInv, Running, Attachment, Buffer, EarlyAccounts, Assigned, NextInRedis, EventAt
  <2>4. ~broken => Behind' /\ FrontierAccounts'
    BY DEF TransportInv, Running, Behind, FrontierAccounts, Has, Leads, Assigned, NextInRedis, EventAt
  <2> QED  BY <2>1, <2>2, <2>3, <2>4 DEF TransportInv, Running
<1> QED  BY <1>1, <1>2

\* No viewer gets an event twice or out of turn, and whoever the early events were replayed
\* to has every event before nextSeq that no flush, counter or earlier attachment accounts
\* for (attachSubscription, syncReorderBuffer, handleOrderedChunk, forceFlushBuffer), whatever
\* is lost and whoever leaves; for any viewers and bounds.
THEOREM TransportOrder ==
  ASSUME TransportAssumption
  PROVE  Spec => [](OnceInOrder /\ NothingSkipped)
<1>1. TransportInv => OnceInOrder /\ NothingSkipped
  BY DEF TransportInv
<1> QED  BY <1>1, Begins, TransportStep, PTL DEF Spec
=============================================================================
