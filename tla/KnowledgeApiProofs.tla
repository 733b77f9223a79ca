-------------------------- MODULE KnowledgeApiProofs --------------------------
(***************************************************************************)
(* Proofs about KnowledgeApi, for any number of identities and requests,   *)
(* any documents and any limits: the sliding window, the cutting of texts, *)
(* and what requests that overlap may do to each other's documents.        *)
(***************************************************************************)
EXTENDS KnowledgeApi, TLAPS, FiniteSetTheorems, SequenceTheorems, WellFoundedInduction

\* The bucket of a client is the end of its admitted requests, and what was
\* popped is a window old; what a refused client was told is right to the
\* second for as long as nothing of it is admitted.
ClientInv(c) ==
    /\ Len(bucket[c]) <= MaxRequests
    /\ Len(bucket[c]) <= Len(recent[c]) /\ Len(recent[c]) <= MaxRequests + 1
    /\ \A i \in 1 .. Len(bucket[c]) :
          bucket[c][i] = recent[c][Len(recent[c]) - Len(bucket[c]) + i]
    /\ \A i \in 1 .. Len(recent[c]) - Len(bucket[c]) : recent[c][i] = Window
    /\ \A i, k \in 1 .. Len(bucket[c]) : i <= k => bucket[c][i] >= bucket[c][k]
    /\ told[c] # Free => /\ Len(bucket[c]) = MaxRequests
                         /\ bucket[c][1] + told[c] >= Window
                         /\ bucket[c][1] + told[c] < Window + TicksPerSecond

\* What a request has asked, read and been told, by where it is; the requests
\* before it have ended.
RequestInv(o) ==
    /\ pc[o] # "out" => asked[o] \in Asks
    /\ pc[o] = "out" => before[o] = {} /\ asked[o] = Nothing
    /\ pc[o] \in {"out", "get"} => versions[o] = <<>>
    /\ pc[o] = "versions" => asked[o].kind = "ingest"
    /\ pc[o] \in {"get", "delete", "add"} => asked[o].kind # "ingest"
    /\ pc[o] = "add" => asked[o].kind = "upsert"
    /\ pc[o] \in {"delete", "add"} => Len(versions[o]) = 1
    /\ pc[o] = "delete" => \A d \in existing[o] : d.source = Source(o)
    /\ Len(versions[o]) <= Len(asked[o].documents)
    /\ reply[o] = "ok" => pc[o] = "done"
    /\ \A p \in before[o] : pc[p] = "done"

\* A record is what its request added, which has ended.
RecordInv(d) ==
    /\ pc[d.op] = "done"
    /\ d.index \in 1 .. Len(versions[d.op])
    /\ d.source = asked[d.op].documents[d.index].source
    /\ d.version = versions[d.op][d.index]
    /\ d.chunks = Chunks(d.length, asked[d.op].size)

\* Of the requests before it, a request deletes everything it should, and is
\* to write higher versions than theirs.
OrderInv(o) ==
    /\ pc[o] = "delete" => \A d \in Of(Source(o)) : d.op \in before[o] => d \in existing[o]
    /\ \/ pc[o] = "add"
       \/ reply[o] = "ok" /\ asked[o].kind # "ingest"
       => \A d \in Of(Source(o)) : d.op \notin before[o]
    /\ \A i \in 1 .. Len(versions[o]) : \A d \in stored :
          d.source = asked[o].documents[i].source /\ d.op \in before[o]
              => d.version < versions[o][i]

\* The request was told that a text of the source is stored.
Told(o, source) ==
    /\ reply[o] = "ok" /\ asked[o].kind # "delete"
    /\ \E i \in DOMAIN asked[o].documents :
          asked[o].documents[i].source = source /\ asked[o].documents[i].length > 0

\* LossHasCause, source by source.
LossInv(o) ==
    \A source \in Sources :
        Told(o, source) /\ (\A d \in stored : d.source # source)
            => \E p \in Ops : p \notin before[o] /\ MayEmpty(p, source)

\* The handlers' variables have their types.
HandlerTypes ==
    /\ pc \in [Ops -> {"out", "versions", "get", "delete", "add", "done"}]
    /\ asked \in [Ops -> Asks \cup {Nothing}]
    /\ versions \in [Ops -> Seq(Nat \ {0})]
    /\ existing \in [Ops -> SUBSET Record]
    /\ stored \in SUBSET Record /\ IsFiniteSet(stored)
    /\ reply \in [Ops -> {"none", "ok", "error"}]
    /\ before \in [Ops -> SUBSET Ops]

HandlerInv ==
    /\ HandlerTypes
    /\ \A o \in Ops : RequestInv(o) /\ OrderInv(o) /\ LossInv(o)
    /\ \A d \in stored : RecordInv(d)

\* The limiter's variables have their types.
LimiterTypes ==
    /\ bucket \in [Clients -> Seq(0 .. Window)]
    /\ recent \in [Clients -> Seq(0 .. Window)]
    /\ told \in [Clients -> Nat \cup {Free}]

InductiveInv ==
    /\ LimiterTypes /\ \A c \in Clients : ClientInv(c)
    /\ HandlerInv
-----------------------------------------------------------------------------
\* A set of naturals that is not empty has a least element.
LEMMA LeastNat ==
    ASSUME NEW T \in SUBSET Nat, T # {}
    PROVE  \E n \in T : \A m \in T : n <= m
<1> DEFINE R == {ss \in Nat \X Nat : ss[1] < ss[2]}
<1>1. IsWellFoundedOn(R, Nat)
  BY NatLessThanWellFounded DEF OpToRel
<1>2. PICK n \in T : \A m \in T : ~(<<m, n>> \in R)
  <2> HIDE DEF R
  <2> QED BY <1>1, WFMin
<1>3. \A m \in T : ~(m < n)
  BY <1>2
<1> QED BY <1>3

\* A set of naturals with 0 that has the successors of its members is all of
\* them.
LEMMA AllNat ==
    ASSUME NEW T \in SUBSET Nat, 0 \in T, \A n \in T : n + 1 \in T
    PROVE  \A n \in Nat : n \in T
<1> SUFFICES ASSUME Nat \ T # {} PROVE FALSE
  OBVIOUS
<1>1. PICK n \in Nat \ T : \A m \in Nat \ T : n <= m
  <2>1. Nat \ T \in SUBSET Nat
    OBVIOUS
  <2> QED BY <2>1, LeastNat
<1>2. n # 0 /\ n - 1 \in Nat /\ n - 1 \notin Nat \ T
  BY <1>1
<1>3. (n - 1) + 1 \in T
  BY <1>2
<1> QED BY <1>1, <1>2, <1>3

\* A finite set of naturals that is not empty has a greatest element.
LEMMA GreatestNat ==
    ASSUME NEW S \in SUBSET Nat, IsFiniteSet(S), S # {}
    PROVE  \E n \in S : \A m \in S : n >= m
<1> DEFINE Bad(n) == \E U \in SUBSET Nat :
                        /\ IsFiniteSet(U) /\ U # {} /\ Cardinality(U) = n
                        /\ ~ \E k \in U : \A m \in U : k >= m
           T == {n \in Nat : Bad(n)}
<1> SUFFICES ASSUME ~ \E n \in S : \A m \in S : n >= m PROVE FALSE
  OBVIOUS
<1>1. T # {}
  BY FS_CardinalityType
<1>2. PICK n \in T : \A m \in T : n <= m
  <2> HIDE DEF T
  <2>1. T \in SUBSET Nat
    BY DEF T
  <2> QED BY <1>1, <2>1, LeastNat
<1>3. PICK U \in SUBSET Nat :
        /\ IsFiniteSet(U) /\ U # {} /\ Cardinality(U) = n
        /\ ~ \E k \in U : \A m \in U : k >= m
  BY <1>2
<1>4. PICK u \in U : TRUE
  BY <1>3
<1> DEFINE V == U \ {u}
<1>5. V \in SUBSET Nat /\ IsFiniteSet(V) /\ Cardinality(V) = n - 1
  BY <1>3, <1>4, FS_RemoveElement
<1>6. V # {}
  BY <1>3, <1>4
<1>7. PICK k \in V : \A m \in V : k >= m
  <2>1. n - 1 \in Nat
    BY <1>5, FS_CardinalityType
  <2>2. n - 1 \notin T
    BY <1>2, <2>1
  <2> HIDE DEF V
  <2> QED BY <1>5, <1>6, <2>1, <2>2
<1>8. (IF u >= k THEN u ELSE k) \in U
      /\ \A m \in U : (IF u >= k THEN u ELSE k) >= m
  BY <1>3, <1>4, <1>7
<1> QED BY <1>3, <1>8
-----------------------------------------------------------------------------
\* What the loop of InMemoryRateLimiter.check pops, and what it leaves.
LEMMA PopLoop ==
    ASSUME NEW ages \in Seq(0 .. Window)
    PROVE  /\ Popped(ages) \in 0 .. Len(ages)
           /\ \A i \in 1 .. Popped(ages) : ages[i] = Window
           /\ Popped(ages) < Len(ages) => ages[Popped(ages) + 1] < Window
           /\ Pruned(ages) \in Seq(0 .. Window)
           /\ Len(Pruned(ages)) = Len(ages) - Popped(ages)
           /\ \A i \in 1 .. Len(Pruned(ages)) : Pruned(ages)[i] = ages[Popped(ages) + i]
<1> DEFINE Stops(n) == /\ \A i \in 1 .. n : ages[i] >= Window
                       /\ n < Len(ages) => ages[n + 1] < Window
           T == {n \in 0 .. Len(ages) : n < Len(ages) => ages[n + 1] < Window}
<1>1. Len(ages) \in Nat /\ Window \in Nat
      /\ \A i \in 1 .. Len(ages) : ages[i] \in 0 .. Window
  BY KnowledgeAssumption
<1>2. PICK n \in T : \A m \in T : n <= m
  <2>1. Len(ages) \in T /\ T \in SUBSET Nat
    BY <1>1
  <2> HIDE DEF T
  <2> QED BY <2>1, LeastNat
<1>3. Stops(n)
  <2>1. ASSUME NEW i \in 1 .. n PROVE ages[i] >= Window
    <3>1. n \in 0 .. Len(ages) /\ i \in 1 .. Len(ages)
      BY <1>1, <1>2
    <3>2. i - 1 \in 0 .. Len(ages) /\ i - 1 < n
      BY <1>1, <3>1
    <3>3. i - 1 \notin T
      <4> HIDE DEF T
      <4>1. ASSUME i - 1 \in T PROVE FALSE
        <5>1. n <= i - 1
          BY <1>2, <4>1
        <5> QED BY <3>1, <3>2, <5>1
      <4> QED BY <4>1
    <3>4. ~(ages[(i - 1) + 1] < Window)
      BY <3>2, <3>3
    <3>5. (i - 1) + 1 = i
      BY <3>1
    <3> QED BY <1>1, <3>1, <3>4, <3>5
  <2> QED BY <1>2, <2>1
<1>4. Popped(ages) = CHOOSE k \in 0 .. Len(ages) : Stops(k)
  BY DEF Popped
<1>5. Popped(ages) \in 0 .. Len(ages) /\ Stops(Popped(ages))
  <2>1. n \in 0 .. Len(ages)
    BY <1>2
  <2> HIDE DEF Stops
  <2> QED BY <1>3, <1>4, <2>1
<1>6. \A i \in 1 .. Popped(ages) : ages[i] = Window
  BY <1>1, <1>5
<1>7. /\ Pruned(ages) \in Seq(0 .. Window)
      /\ Len(Pruned(ages)) = Len(ages) - Popped(ages)
      /\ \A i \in 1 .. Len(Pruned(ages)) : Pruned(ages)[i] = ages[Popped(ages) + i]
  <2> HIDE DEF Stops
  <2> DEFINE p == Popped(ages)
  <2>1. p \in Nat /\ p <= Len(ages)
    BY <1>1, <1>5
  <2>2. Pruned(ages) = SubSeq(ages, p + 1, Len(ages))
    BY DEF Pruned
  <2> HIDE DEF p
  <2>3. \A i \in p + 1 .. Len(ages) : ages[i] \in 0 .. Window
    BY <1>1, <2>1
  <2>4. /\ SubSeq(ages, p + 1, Len(ages)) \in Seq(0 .. Window)
        /\ Len(SubSeq(ages, p + 1, Len(ages)))
              = IF p + 1 <= Len(ages) THEN Len(ages) - (p + 1) + 1 ELSE 0
        /\ \A i \in 1 .. Len(ages) - (p + 1) + 1 :
              SubSeq(ages, p + 1, Len(ages))[i] = ages[p + 1 + i - 1]
    BY <1>1, <2>1, <2>3, SubSeqProperties
  <2>5. /\ Pruned(ages) \in Seq(0 .. Window)
        /\ Len(Pruned(ages)) = Len(ages) - p
        /\ \A i \in 1 .. Len(Pruned(ages)) : Pruned(ages)[i] = ages[p + i]
    <3>1. Len(Pruned(ages)) = Len(ages) - p
      BY <1>1, <2>1, <2>2, <2>4
    <3>2. ASSUME NEW i \in 1 .. Len(Pruned(ages)) PROVE Pruned(ages)[i] = ages[p + i]
      <4>1. i \in 1 .. Len(ages) - (p + 1) + 1 /\ p + 1 + i - 1 = p + i
        BY <1>1, <2>1, <3>1
      <4> QED BY <2>2, <2>4, <4>1
    <3> QED BY <2>2, <2>4, <3>1, <3>2
  <2> QED BY <2>5 DEF p
<1> QED BY <1>5, <1>6, <1>7

\* Retry-After in ticks: at least what is left, and less than a second more.
LEMMA RetryInTicks ==
    ASSUME NEW ages \in Seq(0 .. Window), ages # <<>>, ages[1] < Window
    PROVE  /\ RetryAfter(ages) * TicksPerSecond \in Nat
           /\ ages[1] + RetryAfter(ages) * TicksPerSecond >= Window
           /\ ages[1] + RetryAfter(ages) * TicksPerSecond < Window + TicksPerSecond
<1> DEFINE left == Window - ages[1]
           n == left + TicksPerSecond - 1
           q == n \div TicksPerSecond
<1>1. ages[1] \in Nat /\ left \in Nat \ {0} /\ TicksPerSecond \in Nat \ {0} /\ Window \in Nat
  BY KnowledgeAssumption
<1>2. n \in Nat /\ n >= TicksPerSecond
  BY <1>1
<1>3. q \in Int /\ q * TicksPerSecond <= n /\ n < q * TicksPerSecond + TicksPerSecond
  <2> HIDE DEF n
  <2> QED BY <1>1, <1>2
<1>4. q >= 1
  <2> HIDE DEF n, q
  <2>1. ASSUME q <= 0 PROVE FALSE
    <3>1. q * TicksPerSecond <= 0
      BY <1>1, <1>3, <2>1
    <3> QED BY <1>1, <1>2, <1>3, <3>1
  <2> QED BY <1>3, <2>1
<1>5. RetryAfter(ages) = q
  <2>1. RetryAfter(ages) = Greatest(q, 1)
    BY DEF RetryAfter
  <2> HIDE DEF q
  <2> QED BY <1>3, <1>4, <2>1 DEF Greatest
<1>6. q * TicksPerSecond \in Nat
  <2> HIDE DEF q
  <2> QED BY <1>1, <1>3, <1>4
<1> HIDE DEF q
<1> QED BY <1>1, <1>3, <1>5, <1>6
-----------------------------------------------------------------------------
\* The time of a request, put at the end of a bucket.
LEMMA Appended ==
    ASSUME NEW ages \in Seq(0 .. Window)
    PROVE  /\ Append(ages, 0) \in Seq(0 .. Window)
           /\ Len(Append(ages, 0)) = Len(ages) + 1
           /\ \A i \in 1 .. Len(ages) : Append(ages, 0)[i] = ages[i]
           /\ Append(ages, 0)[Len(ages) + 1] = 0
BY KnowledgeAssumption

\* What one admitted request adds to the history.
LEMMA Remembered ==
    ASSUME NEW r \in Seq(0 .. Window), Len(r) <= MaxRequests + 1,
           NEW after, after = IF Len(r) > MaxRequests THEN Append(Tail(r), 0) ELSE Append(r, 0)
    PROVE  \E shift \in {0, 1} :
              /\ shift = 1 <=> Len(r) = MaxRequests + 1
              /\ after \in Seq(0 .. Window)
              /\ Len(after) = Len(r) + 1 - shift
              /\ \A i \in 1 .. Len(after) - 1 : after[i] = r[i + shift]
              /\ after[Len(after)] = 0
<1>1. /\ MaxRequests \in Nat \ {0} /\ Window \in Nat /\ 0 \in 0 .. Window
      /\ Len(r) \in Nat
  BY KnowledgeAssumption
<1>2. CASE Len(r) > MaxRequests
  <2>1. r # <<>>
    BY <1>1, <1>2
  <2>2. /\ Tail(r) \in Seq(0 .. Window) /\ Len(Tail(r)) = Len(r) - 1
        /\ \A i \in 1 .. Len(Tail(r)) : Tail(r)[i] = r[i + 1]
    BY <2>1, HeadTailProperties
  <2>3. after = Append(Tail(r), 0)
    BY <1>2
  <2>4. /\ after \in Seq(0 .. Window) /\ Len(after) = Len(Tail(r)) + 1
        /\ \A i \in 1 .. Len(Tail(r)) : after[i] = Tail(r)[i]
        /\ after[Len(Tail(r)) + 1] = 0
    <3>1. /\ Append(Tail(r), 0) \in Seq(0 .. Window)
          /\ Len(Append(Tail(r), 0)) = Len(Tail(r)) + 1
          /\ \A i \in 1 .. Len(Tail(r)) : Append(Tail(r), 0)[i] = Tail(r)[i]
          /\ Append(Tail(r), 0)[Len(Tail(r)) + 1] = 0
      BY <2>2, Appended
    <3> QED BY <2>3, <3>1
  <2>5. /\ Len(after) = Len(r) /\ \A i \in 1 .. Len(after) - 1 : after[i] = r[i + 1]
        /\ after[Len(after)] = 0
    <3>1. Len(Tail(r)) = Len(r) - 1 /\ Len(after) = Len(r)
      <4>1. Len(Tail(r)) = Len(r) - 1
        BY <2>2
      <4>2. Len(after) = Len(Tail(r)) + 1
        BY <2>4
      <4> QED BY <1>1, <4>1, <4>2
    <3>2. 1 .. Len(after) - 1 = 1 .. Len(Tail(r)) /\ Len(Tail(r)) + 1 = Len(after)
      BY <1>1, <3>1
    <3>3. ASSUME NEW i \in 1 .. Len(after) - 1 PROVE after[i] = r[i + 1]
      BY <2>2, <2>4, <3>2
    <3> QED BY <2>4, <3>1, <3>2, <3>3
  <2>6. Len(r) = MaxRequests + 1 /\ Len(after) = Len(r) + 1 - 1
    BY <1>1, <1>2, <2>5
  <2> QED BY <2>4, <2>5, <2>6
<1>3. CASE ~(Len(r) > MaxRequests)
  <2>1. after = Append(r, 0)
    BY <1>3
  <2>2. /\ after \in Seq(0 .. Window) /\ Len(after) = Len(r) + 1
        /\ \A i \in 1 .. Len(r) : after[i] = r[i]
        /\ after[Len(r) + 1] = 0
    <3>1. /\ Append(r, 0) \in Seq(0 .. Window) /\ Len(Append(r, 0)) = Len(r) + 1
          /\ \A i \in 1 .. Len(r) : Append(r, 0)[i] = r[i]
          /\ Append(r, 0)[Len(r) + 1] = 0
      BY Appended
    <3> QED BY <2>1, <3>1
  <2>3. /\ \A i \in 1 .. Len(after) - 1 : after[i] = r[i + 0]
        /\ after[Len(after)] = 0
    BY <1>1, <2>2
  <2>4. Len(r) # MaxRequests + 1 /\ Len(after) = Len(r) + 1 - 0
    BY <1>1, <1>3, <2>2
  <2> QED BY <2>2, <2>3, <2>4
<1> QED BY <1>2, <1>3

\* An admitted request keeps the account of its client, and of the others.
LEMMA AdmitKeeps ==
    ASSUME LimiterTypes, \A d \in Clients : ClientInv(d), NEW c \in Clients, Admit(c)
    PROVE  LimiterTypes' /\ \A d \in Clients : ClientInv(d)'
<1> DEFINE b == bucket[c]
           r == recent[c]
           p == Popped(b)
           nb == bucket'[c]
           nr == recent'[c]
<1>1. b \in Seq(0 .. Window) /\ r \in Seq(0 .. Window) /\ ClientInv(c)
  BY DEF LimiterTypes
<1>2. /\ MaxRequests \in Nat \ {0} /\ Window \in Nat /\ 0 \in 0 .. Window
      /\ Len(b) \in Nat /\ Len(r) \in Nat
  BY <1>1, KnowledgeAssumption
<1>3. /\ p \in 0 .. Len(b) /\ \A i \in 1 .. p : b[i] = Window
      /\ Pruned(b) \in Seq(0 .. Window) /\ Len(Pruned(b)) = Len(b) - p
      /\ \A i \in 1 .. Len(Pruned(b)) : Pruned(b)[i] = b[p + i]
  BY <1>1, PopLoop
<1>4. Len(Pruned(b)) < MaxRequests
  BY DEF Admit, Admitted
<1>5. nb = Append(Pruned(b), 0)
  BY DEF Admit, LimiterTypes
<1>6. /\ nb \in Seq(0 .. Window) /\ Len(nb) = Len(b) - p + 1
      /\ \A i \in 1 .. Len(nb) - 1 : nb[i] = b[p + i]
      /\ nb[Len(nb)] = 0
  <2> HIDE DEF b, nb, p
  <2>1. /\ Append(Pruned(b), 0) \in Seq(0 .. Window)
        /\ Len(Append(Pruned(b), 0)) = Len(Pruned(b)) + 1
        /\ \A i \in 1 .. Len(Pruned(b)) : Append(Pruned(b), 0)[i] = Pruned(b)[i]
        /\ Append(Pruned(b), 0)[Len(Pruned(b)) + 1] = 0
    BY <1>3, Appended
  <2>2. Len(nb) = Len(Pruned(b)) + 1 /\ Len(Pruned(b)) \in Nat
    BY <1>2, <1>3, <1>5, <2>1
  <2>3. nb \in Seq(0 .. Window) /\ Len(nb) = Len(b) - p + 1 /\ nb[Len(nb)] = 0
    BY <1>3, <1>5, <2>1, <2>2
  <2>4. ASSUME NEW i \in 1 .. Len(nb) - 1 PROVE nb[i] = b[p + i]
    <3>1. i \in 1 .. Len(Pruned(b))
      BY <2>2
    <3> QED BY <1>3, <1>5, <2>1, <3>1
  <2> QED BY <2>3, <2>4
<1>7. nr = IF Len(r) > MaxRequests THEN Append(Tail(r), 0) ELSE Append(r, 0)
  BY DEF Admit, LimiterTypes
<1>8. PICK shift \in {0, 1} :
        /\ shift = 1 <=> Len(r) = MaxRequests + 1
        /\ nr \in Seq(0 .. Window) /\ Len(nr) = Len(r) + 1 - shift
        /\ \A i \in 1 .. Len(nr) - 1 : nr[i] = r[i + shift]
        /\ nr[Len(nr)] = 0
  <2>1. Len(r) <= MaxRequests + 1
    BY <1>1 DEF ClientInv
  <2> HIDE DEF r, nr
  <2> QED BY <1>1, <1>7, <2>1, Remembered
<1>9. /\ Len(b) <= MaxRequests /\ Len(b) <= Len(r) /\ Len(r) <= MaxRequests + 1
      /\ \A i \in 1 .. Len(b) : b[i] = r[Len(r) - Len(b) + i]
      /\ \A i \in 1 .. Len(r) - Len(b) : r[i] = Window
      /\ \A i, k \in 1 .. Len(b) : i <= k => b[i] >= b[k]
  BY <1>1 DEF ClientInv
<1>10. told'[c] = Free
  BY DEF Admit, LimiterTypes
<1>11. /\ LimiterTypes'
       /\ \A d \in Clients \ {c} : /\ bucket'[d] = bucket[d] /\ recent'[d] = recent[d]
                                   /\ told'[d] = told[d]
  <2>1. /\ bucket' = [bucket EXCEPT ![c] = nb] /\ recent' = [recent EXCEPT ![c] = nr]
        /\ told' = [told EXCEPT ![c] = Free]
    BY DEF Admit, LimiterTypes
  <2> HIDE DEF nb, nr
  <2> QED BY <1>6, <1>8, <2>1 DEF LimiterTypes
<1>12. ClientInv(c)'
  <2> HIDE DEF b, r, p, nb, nr
  <2>0. /\ p \in Nat /\ p <= Len(b) /\ Len(b) - p < MaxRequests
        /\ Len(nb) = Len(b) - p + 1 /\ Len(nr) = Len(r) + 1 - shift
        /\ shift \in {0, 1} /\ shift = 1 <=> Len(r) = MaxRequests + 1
        /\ Len(b) <= MaxRequests /\ Len(b) <= Len(r) /\ Len(r) <= MaxRequests + 1
        /\ MaxRequests \in Nat /\ Len(b) \in Nat /\ Len(r) \in Nat
    <3>1. p \in Nat /\ p <= Len(b)
      BY <1>2, <1>3
    <3> QED BY <1>2, <1>3, <1>4, <1>6, <1>8, <1>9, <3>1
  <2>1. /\ Len(nb) <= MaxRequests /\ Len(nb) <= Len(nr) /\ Len(nr) <= MaxRequests + 1
        /\ Len(nb) \in Nat /\ Len(nr) \in Nat
    BY <2>0
  <2>2. ASSUME NEW i \in 1 .. Len(nb) PROVE nb[i] = nr[Len(nr) - Len(nb) + i]
    <3>1. CASE i = Len(nb)
      <4>1. Len(nr) - Len(nb) + i = Len(nr)
        BY <2>1, <3>1
      <4> QED BY <1>6, <1>8, <3>1, <4>1
    <3>2. CASE i # Len(nb)
      <4> DEFINE x == Len(nr) - Len(nb) + i
      <4>1. /\ i \in 1 .. Len(nb) - 1 /\ x \in 1 .. Len(nr) - 1
            /\ p + i \in 1 .. Len(b) /\ x + shift = Len(r) - Len(b) + (p + i)
        <5>1. i \in Nat /\ 1 <= i /\ i <= Len(nb) - 1
          BY <2>1, <3>2
        <5>2. i \in 1 .. Len(nb) - 1 /\ p + i \in 1 .. Len(b)
          BY <2>0, <5>1
        <5>3. x \in 1 .. Len(nr) - 1
          BY <2>0, <2>1, <5>1
        <5>4. x + shift = Len(r) - Len(b) + (p + i)
          BY <2>0, <2>1, <5>1
        <5> QED BY <5>2, <5>3, <5>4
      <4> HIDE DEF x
      <4>2. nb[i] = b[p + i] /\ nr[x] = r[x + shift]
        BY <1>6, <1>8, <4>1
      <4>3. b[p + i] = r[Len(r) - Len(b) + (p + i)]
        BY <1>9, <4>1
      <4> QED BY <4>1, <4>2, <4>3 DEF x
    <3> QED BY <3>1, <3>2
  <2>3. ASSUME NEW i \in 1 .. Len(nr) - Len(nb) PROVE nr[i] = Window
    <3> DEFINE x == i + shift
               y == x - (Len(r) - Len(b))
    <3>1. i \in 1 .. Len(nr) - 1 /\ x \in Nat \ {0} /\ x <= Len(r) - Len(b) + p
      BY <2>0, <2>1
    <3>2. nr[i] = r[x]
      BY <1>8, <3>1
    <3>3. CASE x <= Len(r) - Len(b)
      <4>1. x \in 1 .. Len(r) - Len(b)
        BY <2>0, <3>1, <3>3
      <4> HIDE DEF x
      <4> QED BY <1>9, <3>2, <4>1
    <3>4. CASE x > Len(r) - Len(b)
      <4>1. y \in 1 .. p /\ y \in 1 .. Len(b) /\ Len(r) - Len(b) + y = x
        BY <2>0, <3>1, <3>4
      <4> HIDE DEF x, y
      <4>2. b[y] = r[x]
        BY <1>9, <4>1
      <4> QED BY <1>3, <3>2, <4>1, <4>2
    <3> QED BY <1>2, <3>1, <3>3, <3>4
  <2>4. ASSUME NEW i \in 1 .. Len(nb), NEW k \in 1 .. Len(nb), i <= k PROVE nb[i] >= nb[k]
    <3>1. \A m \in 1 .. Len(nb) : nb[m] \in 0 .. Window
      BY <1>6, <2>1, ElementOfSeq
    <3>2. CASE k = Len(nb)
      BY <1>2, <1>6, <3>1, <3>2
    <3>3. CASE k # Len(nb)
      <4>1. /\ i \in 1 .. Len(nb) - 1 /\ k \in 1 .. Len(nb) - 1
            /\ p + i \in 1 .. Len(b) /\ p + k \in 1 .. Len(b) /\ p + i <= p + k
        <5>1. /\ i \in Nat /\ 1 <= i /\ i <= Len(nb) - 1
              /\ k \in Nat /\ 1 <= k /\ k <= Len(nb) - 1
          BY <2>1, <2>4, <3>3
        <5> QED BY <2>0, <2>4, <5>1
      <4> QED BY <1>6, <1>9, <4>1
    <3> QED BY <3>2, <3>3
  <2> QED BY <1>10, <2>1, <2>2, <2>3, <2>4 DEF ClientInv, nb, nr
<1>13. ASSUME NEW d \in Clients \ {c} PROVE ClientInv(d)'
  <2>1. bucket'[d] = bucket[d] /\ recent'[d] = recent[d] /\ told'[d] = told[d]
    BY <1>11
  <2>2. ClientInv(d)
    OBVIOUS
  <2> HIDE DEF b, r, p, nb, nr
  <2> QED BY <2>1, <2>2 DEF ClientInv
<1> QED BY <1>11, <1>12, <1>13

\* A client is refused with a full bucket that the loop leaves as it is, and is
\* told when the first of it will be popped.
LEMMA RefuseKeeps ==
    ASSUME LimiterTypes, \A d \in Clients : ClientInv(d), NEW c \in Clients, Refuse(c)
    PROVE  LimiterTypes' /\ \A d \in Clients : ClientInv(d)'
<1> DEFINE b == bucket[c]
           wait == RetryAfter(b) * TicksPerSecond
<1>1. b \in Seq(0 .. Window) /\ ClientInv(c)
  BY DEF LimiterTypes
<1>2. /\ MaxRequests \in Nat \ {0} /\ Window \in Nat /\ Len(b) \in Nat
      /\ Len(b) <= MaxRequests
  BY <1>1, KnowledgeAssumption DEF ClientInv
<1>3. /\ Popped(b) \in 0 .. Len(b) /\ Len(Pruned(b)) = Len(b) - Popped(b)
      /\ Popped(b) < Len(b) => b[Popped(b) + 1] < Window
  BY <1>1, PopLoop
<1>4. ~(Len(Pruned(b)) < MaxRequests)
  BY DEF Refuse, Admitted
<1>5. Popped(b) = 0 /\ Len(b) = MaxRequests
  <2> HIDE DEF b
  <2> QED BY <1>2, <1>3, <1>4
<1>6. Pruned(b) = b
  <2>1. Pruned(b) = SubSeq(b, 1, Len(b))
    BY <1>5 DEF Pruned
  <2> HIDE DEF b
  <2> QED BY <1>1, <2>1, SubSeqFull
<1>7. b # <<>> /\ b[1] < Window
  <2> HIDE DEF b
  <2> QED BY <1>2, <1>3, <1>5
<1>8. /\ wait \in Nat /\ b[1] + wait >= Window /\ b[1] + wait < Window + TicksPerSecond
  BY <1>1, <1>7, RetryInTicks
<1>9. bucket' = bucket /\ recent' = recent /\ told' = [told EXCEPT ![c] = wait]
  BY <1>6 DEF Refuse, LimiterTypes
<1> HIDE DEF wait
<1>10. LimiterTypes'
  BY <1>8, <1>9 DEF LimiterTypes
<1>11. told'[c] = wait /\ \A d \in Clients \ {c} : told'[d] = told[d]
  BY <1>9 DEF LimiterTypes
<1>12. ASSUME NEW d \in Clients PROVE ClientInv(d)'
  <2>1. ClientInv(d)
    OBVIOUS
  <2>2. CASE d = c
    <3>1. /\ Len(bucket'[d]) = MaxRequests /\ bucket'[d][1] + told'[d] >= Window
          /\ bucket'[d][1] + told'[d] < Window + TicksPerSecond
      BY <1>5, <1>8, <1>9, <1>11, <2>2
    <3> QED BY <1>9, <2>1, <3>1 DEF ClientInv
  <2>3. CASE d # c
    BY <1>9, <1>11, <2>1, <2>3 DEF ClientInv
  <2> QED BY <2>2, <2>3
<1> QED BY <1>10, <1>12

\* What a tick makes of the ages of a bucket.
LEMMA OlderAges ==
    ASSUME NEW ages \in Seq(0 .. Window)
    PROVE  /\ Older(ages) \in Seq(0 .. Window)
           /\ Len(Older(ages)) = Len(ages)
           /\ \A i \in 1 .. Len(ages) :
                 Older(ages)[i] = IF ages[i] = Window THEN Window ELSE ages[i] + 1
<1>1. Window \in Nat /\ Len(ages) \in Nat /\ DOMAIN ages = 1 .. Len(ages)
  BY KnowledgeAssumption
<1>2. \A i \in 1 .. Len(ages) : ages[i] \in 0 .. Window
  BY ElementOfSeq
<1>3. \A a \in 0 .. Window :
          /\ Least(a + 1, Window) \in 0 .. Window
          /\ Least(a + 1, Window) = IF a = Window THEN Window ELSE a + 1
  BY <1>1 DEF Least
<1>4. Older(ages) = [i \in 1 .. Len(ages) |-> Least(ages[i] + 1, Window)]
  BY <1>1 DEF Older
<1>5. Older(ages) \in [1 .. Len(ages) -> 0 .. Window]
  BY <1>2, <1>3, <1>4
<1>6. Older(ages) \in Seq(0 .. Window) /\ Len(Older(ages)) = Len(ages)
  BY <1>1, <1>5
<1> QED BY <1>2, <1>3, <1>4, <1>6

\* A tick takes one from what a refused client has to wait.
LEMMA TickKeeps ==
    ASSUME LimiterTypes, \A d \in Clients : ClientInv(d), Tick
    PROVE  LimiterTypes' /\ \A d \in Clients : ClientInv(d)'
<1>1. /\ bucket' = [d \in Clients |-> Older(bucket[d])]
      /\ recent' = [d \in Clients |-> Older(recent[d])]
      /\ told' = [d \in Clients |-> IF told[d] > 0 THEN told[d] - 1 ELSE told[d]]
  BY DEF Tick
<1>2. /\ MaxRequests \in Nat \ {0} /\ Window \in Nat /\ TicksPerSecond \in Nat \ {0}
  BY KnowledgeAssumption
<1>3. LimiterTypes'
  <2>1. \A d \in Clients : told[d] \in Nat \cup {Free} /\ told'[d] \in Nat \cup {Free}
    BY <1>1 DEF LimiterTypes, Free
  <2>2. told' \in [Clients -> Nat \cup {Free}]
    BY <1>1, <2>1
  <2>3. /\ bucket' \in [Clients -> Seq(0 .. Window)]
        /\ recent' \in [Clients -> Seq(0 .. Window)]
    BY <1>1, OlderAges DEF LimiterTypes
  <2> QED BY <2>2, <2>3 DEF LimiterTypes
<1>4. ASSUME NEW d \in Clients PROVE ClientInv(d)'
  <2> DEFINE b == bucket[d]
             r == recent[d]
             t == told[d]
             Up(a) == IF a = Window THEN Window ELSE a + 1
  <2>1. /\ b \in Seq(0 .. Window) /\ r \in Seq(0 .. Window) /\ t \in Nat \cup {Free}
        /\ Len(b) \in Nat /\ Len(r) \in Nat
        /\ \A i \in 1 .. Len(b) : b[i] \in 0 .. Window
    <3>1. b \in Seq(0 .. Window) /\ r \in Seq(0 .. Window) /\ t \in Nat \cup {Free}
      BY DEF LimiterTypes
    <3> HIDE DEF b, r
    <3>2. Len(b) \in Nat /\ Len(r) \in Nat
      BY <3>1
    <3> QED BY <3>1, <3>2, ElementOfSeq
  <2>2. /\ Len(bucket'[d]) = Len(b) /\ Len(recent'[d]) = Len(r)
        /\ \A i \in 1 .. Len(b) : bucket'[d][i] = Up(b[i])
        /\ \A i \in 1 .. Len(r) : recent'[d][i] = Up(r[i])
    BY <1>1, <2>1, OlderAges
  <2>3. told'[d] = IF t > 0 THEN t - 1 ELSE t
    BY <1>1
  <2>4. ClientInv(d)
    OBVIOUS
  <2> DEFINE nb == bucket'[d]
             nr == recent'[d]
             nt == told'[d]
  <2>5. /\ Len(b) <= MaxRequests /\ Len(b) <= Len(r) /\ Len(r) <= MaxRequests + 1
        /\ \A i \in 1 .. Len(b) : b[i] = r[Len(r) - Len(b) + i]
        /\ \A i \in 1 .. Len(r) - Len(b) : r[i] = Window
        /\ \A i, k \in 1 .. Len(b) : i <= k => b[i] >= b[k]
        /\ t # Free => /\ Len(b) = MaxRequests
                       /\ b[1] + t >= Window /\ b[1] + t < Window + TicksPerSecond
    BY <2>4 DEF ClientInv
  <2> HIDE DEF b, r, t, nb, nr, nt
  <2>6. /\ Len(nb) <= MaxRequests /\ Len(nb) <= Len(nr) /\ Len(nr) <= MaxRequests + 1
    BY <2>2, <2>5 DEF nb, nr
  <2>7. ASSUME NEW i \in 1 .. Len(nb) PROVE nb[i] = nr[Len(nr) - Len(nb) + i]
    <3>1. i \in 1 .. Len(b) /\ Len(r) - Len(b) + i \in 1 .. Len(r)
      BY <2>1, <2>2, <2>5 DEF nb
    <3>2. nb[i] = Up(b[i]) /\ nr[Len(r) - Len(b) + i] = Up(r[Len(r) - Len(b) + i])
      BY <2>2, <3>1 DEF nb, nr
    <3>3. b[i] = r[Len(r) - Len(b) + i]
      BY <2>5, <3>1
    <3>4. Len(nr) - Len(nb) + i = Len(r) - Len(b) + i
      BY <2>2 DEF nb, nr
    <3> QED BY <3>2, <3>3, <3>4
  <2>8. ASSUME NEW i \in 1 .. Len(nr) - Len(nb) PROVE nr[i] = Window
    <3>1. i \in 1 .. Len(r) - Len(b) /\ i \in 1 .. Len(r)
      BY <2>1, <2>2, <2>5 DEF nb, nr
    <3> QED BY <2>2, <2>5, <3>1 DEF nr
  <2>9. ASSUME NEW i \in 1 .. Len(nb), NEW k \in 1 .. Len(nb), i <= k PROVE nb[i] >= nb[k]
    <3>1. i \in 1 .. Len(b) /\ k \in 1 .. Len(b)
      BY <2>2 DEF nb
    <3>2. nb[i] = Up(b[i]) /\ nb[k] = Up(b[k]) /\ b[i] \in 0 .. Window /\ b[k] \in 0 .. Window
      BY <2>1, <2>2, <3>1 DEF nb
    <3>3. b[i] >= b[k]
      BY <2>5, <2>9, <3>1
    <3> QED BY <1>2, <3>2, <3>3
  <2>10. ASSUME nt # Free
         PROVE  /\ Len(nb) = MaxRequests
                /\ nb[1] + nt >= Window /\ nb[1] + nt < Window + TicksPerSecond
    <3>1. t \in Nat /\ t # Free /\ nt = IF t > 0 THEN t - 1 ELSE t
      BY <2>1, <2>3, <2>10 DEF nt, t, Free
    <3>2. Len(nb) = MaxRequests /\ 1 \in 1 .. Len(b)
      BY <1>2, <2>2, <2>5, <3>1 DEF nb
    <3>3. b[1] \in 0 .. Window /\ nb[1] = Up(b[1])
      BY <2>1, <2>2, <3>2 DEF nb
    <3>4. b[1] + t >= Window /\ b[1] + t < Window + TicksPerSecond
      BY <2>5, <3>1
    <3> QED BY <1>2, <3>1, <3>2, <3>3, <3>4
  <2> QED BY <2>6, <2>7, <2>8, <2>9, <2>10 DEF ClientInv, nb, nr, nt
<1> QED BY <1>3, <1>4
-----------------------------------------------------------------------------
\* A chunk in front of others.
LEMMA Prepended ==
    ASSUME NEW S, NEW rest \in Seq(S), NEW c \in S
    PROVE  /\ <<c>> \o rest \in Seq(S)
           /\ Len(<<c>> \o rest) = Len(rest) + 1
           /\ (<<c>> \o rest)[1] = c
           /\ \A i \in 1 .. Len(rest) : (<<c>> \o rest)[i + 1] = rest[i]
<1>1. <<c>> \in Seq(S) /\ Len(<<c>>) = 1 /\ <<c>>[1] = c
  OBVIOUS
<1>2. Len(rest) \in Nat
  OBVIOUS
<1> DEFINE one == <<c>>
<1>3. /\ one \o rest \in Seq(S)
      /\ Len(one \o rest) = Len(one) + Len(rest)
      /\ \A i \in 1 .. Len(one) + Len(rest) :
            (one \o rest)[i] = IF i <= Len(one) THEN one[i] ELSE rest[i - Len(one)]
  <2> HIDE DEF one
  <2> QED BY <1>1, ConcatProperties DEF one
<1>4. Len(one) = 1 /\ one[1] = c
  BY <1>1
<1> HIDE DEF one
<1>5. (one \o rest)[1] = c
  BY <1>2, <1>3, <1>4
<1>6. ASSUME NEW i \in 1 .. Len(rest) PROVE (one \o rest)[i + 1] = rest[i]
  <2>1. i + 1 \in 1 .. Len(one) + Len(rest) /\ ~(i + 1 <= Len(one)) /\ i + 1 - Len(one) = i
    BY <1>2, <1>4
  <2> QED BY <1>3, <2>1
<1>7. Len(one \o rest) = Len(rest) + 1
  BY <1>2, <1>3, <1>4
<1> QED BY <1>3, <1>5, <1>6, <1>7 DEF one

\* The overlap is less than a chunk.
LEMMA OverlapSize ==
    ASSUME NEW size \in Nat, size > MaxOverlap
    PROVE  Overlap(size) \in Nat /\ 1 <= Overlap(size) /\ Overlap(size) < size
<1>1. size \div 8 \in Nat
  OBVIOUS
<1> QED BY <1>1, KnowledgeAssumption DEF Overlap, Least, Greatest

\* The chunks that the loop of _chunk_text makes from a place in the text on,
\* if it finds those from a later place in h.
Cut(h, start, length, size) ==
    LET end == Least(start + size, length)
    IN  IF end = length THEN <<Chunk(start, end)>>
        ELSE <<Chunk(start, end)>> \o h[end - Overlap(size)]

\* The place the loop goes on at is a later one.
LEMMA CutGoesOn ==
    ASSUME NEW length \in Nat, NEW size \in Nat, size > MaxOverlap,
           NEW start \in 0 .. length, Least(start + size, length) # length
    PROVE  /\ Least(start + size, length) = start + size
           /\ start + size < length
           /\ start + size - Overlap(size) \in start + 1 .. length - 1
BY OverlapSize DEF Least

\* Away from the end of the text, the loop makes a whole chunk.
LEMMA CutLong ==
    ASSUME NEW h, NEW start \in Nat, NEW length \in Nat, NEW size \in Nat, size > MaxOverlap,
           Least(start + size, length) = start + size, start + size # length
    PROVE  Cut(h, start, length, size)
              = <<Chunk(start, start + size)>> \o h[start + size - Overlap(size)]
<1> DEFINE end == Least(start + size, length)
<1>1. Cut(h, start, length, size)
         = IF end = length THEN <<Chunk(start, end)>>
           ELSE <<Chunk(start, end)>> \o h[end - Overlap(size)]
  BY DEF Cut
<1>2. end = start + size /\ end # length
  OBVIOUS
<1> HIDE DEF end
<1>3. Cut(h, start, length, size) = <<Chunk(start, end)>> \o h[end - Overlap(size)]
  BY <1>1, <1>2
<1>4. end - Overlap(size) = start + size - Overlap(size)
  BY <1>2, OverlapSize
<1> QED BY <1>2, <1>3, <1>4

\* So the loop ends, whatever the length of the text: the chunks from every
\* place on are defined.
LEMMA CutDefined ==
    ASSUME NEW length \in Nat, NEW size \in Nat, size > MaxOverlap
    PROVE  \E h : h = [start \in 0 .. length |-> Cut(h, start, length, size)]
<1> DEFINE Defined(k) ==
        \E h : h = [start \in length - k .. length |-> Cut(h, start, length, size)]
           T == {k \in Nat : k <= length => Defined(k)}
<1>1. ASSUME NEW lo \in Int, NEW h, NEW g,
             \A m \in lo + 1 .. length : g[m] = h[m]
      PROVE  \A start \in 0 .. length : start >= lo =>
                Cut(g, start, length, size) = Cut(h, start, length, size)
  <2> SUFFICES ASSUME NEW start \in 0 .. length, start >= lo
               PROVE  Cut(g, start, length, size) = Cut(h, start, length, size)
    OBVIOUS
  <2>1. CASE Least(start + size, length) = length
    BY <2>1 DEF Cut
  <2>2. CASE Least(start + size, length) # length
    <3>1. Least(start + size, length) - Overlap(size) \in lo + 1 .. length
      <4>1. /\ Least(start + size, length) = start + size
            /\ start + size - Overlap(size) \in start + 1 .. length - 1
        BY <2>2, CutGoesOn
      <4> DEFINE n == Overlap(size)
                 l == Least(start + size, length)
      <4>2. n \in Nat
        BY OverlapSize
      <4>3. l = start + size /\ start + size - n \in start + 1 .. length - 1
        BY <4>1
      <4> HIDE DEF l, n
      <4>5. l - n \in lo + 1 .. length
        BY <4>2, <4>3
      <4> QED BY <4>5 DEF l, n
    <3> QED BY <1>1, <3>1 DEF Cut
  <2> QED BY <2>1, <2>2
<1>2. 0 \in T
  <2> DEFINE g == [start \in length - 0 .. length |-> <<Chunk(length, length)>>]
  <2>1. ASSUME NEW start \in length - 0 .. length
        PROVE  Cut(g, start, length, size) = <<Chunk(length, length)>>
    <3>1. start = length /\ Least(start + size, length) = length
      BY DEF Least
    <3> QED BY <3>1 DEF Cut
  <2>2. g = [start \in length - 0 .. length |-> Cut(g, start, length, size)]
    BY <2>1
  <2> QED BY <2>2
<1>3. ASSUME NEW k \in T PROVE k + 1 \in T
  <2> SUFFICES ASSUME k + 1 <= length PROVE Defined(k + 1)
    OBVIOUS
  <2> DEFINE lo == length - (k + 1)
  <2>1. lo \in 0 .. length /\ lo + 1 = length - k /\ k \in Nat /\ k <= length
    OBVIOUS
  <2>2. PICK h : h = [start \in lo + 1 .. length |-> Cut(h, start, length, size)]
    BY <2>1
  <2> DEFINE g == [start \in lo .. length |->
                      IF start = lo THEN Cut(h, start, length, size) ELSE h[start]]
  <2>3. \A m \in lo + 1 .. length : g[m] = h[m]
    BY <2>1
  <2>4. ASSUME NEW start \in lo .. length PROVE g[start] = Cut(g, start, length, size)
    <3>1. start \in 0 .. length /\ start >= lo
      BY <2>1
    <3>2. Cut(g, start, length, size) = Cut(h, start, length, size)
      <4> HIDE DEF g, lo
      <4> QED BY <1>1, <2>1, <2>3, <3>1
    <3>3. CASE start = lo
      BY <3>2, <3>3
    <3>4. CASE start # lo
      <4>1. start \in lo + 1 .. length
        BY <2>1, <3>4
      <4>2. h[start] = Cut(h, start, length, size)
        <5> HIDE DEF g, lo
        <5> QED BY <2>2, <4>1
      <4> QED BY <3>2, <3>4, <4>2
    <3> QED BY <3>3, <3>4
  <2>5. g = [start \in lo .. length |-> Cut(g, start, length, size)]
    <3>1. g = [start \in lo .. length |-> g[start]]
      OBVIOUS
    <3> HIDE DEF g, lo
    <3> QED BY <2>4, <3>1
  <2> HIDE DEF g
  <2> QED BY <2>5
<1>4. length \in T
  <2>1. T \in SUBSET Nat
    OBVIOUS
  <2> HIDE DEF T
  <2> QED BY <1>2, <1>3, <2>1, AllNat
<1>5. length - length = 0
  OBVIOUS
<1> QED BY <1>4, <1>5

\* A long text is cut from its start.
LEMMA ChunksOfLong ==
    ASSUME NEW length \in Nat, NEW size \in Nat, size > MaxOverlap, length > size
    PROVE  \E h : /\ \A start \in 0 .. length : h[start] = Cut(h, start, length, size)
                  /\ Chunks(length, size) = h[0]
<1> DEFINE R(f) == f = [start \in 0 .. length |-> Cut(f, start, length, size)]
           h == CHOOSE f : R(f)
<1>1. R(h)
  <2>1. \E f : R(f)
    BY CutDefined
  <2> HIDE DEF R
  <2> QED BY <2>1
<1>2. Chunks(length, size) = h[0]
  BY DEF Chunks, Cut
<1>3. \A start \in 0 .. length : h[start] = Cut(h, start, length, size)
  <2> HIDE DEF h
  <2> QED BY <1>1
<1> HIDE DEF h
<1> QED BY <1>2, <1>3

\* Chunks that are all of a text from a place on: in order, none longer than
\* asked, each overlapping the one before it and reaching beyond it.
Covers(chunks, start, length, size) ==
    /\ chunks \in Seq([start : Nat, end : Nat])
    /\ Len(chunks) >= 1
    /\ chunks[1].start = start /\ chunks[1].end = Least(start + size, length)
    /\ chunks[Len(chunks)].end = length
    /\ \A i \in 1 .. Len(chunks) : chunks[i].end - chunks[i].start \in 1 .. size
    /\ \A i \in 1 .. Len(chunks) - 1 : /\ chunks[i + 1].start < chunks[i].end
                                       /\ chunks[i + 1].end > chunks[i].end

\* One chunk is enough for the end of a text.
LEMMA OneCovers ==
    ASSUME NEW length \in Nat, NEW size \in Nat, NEW start \in Nat,
           start < length, length <= start + size
    PROVE  Covers(<<Chunk(start, length)>>, start, length, size)
<1> DEFINE c == Chunk(start, length)
           one == <<c>>
<1>1. c \in [start : Nat, end : Nat] /\ c.start = start /\ c.end = length
  BY DEF Chunk
<1> HIDE DEF c
<1>2. one \in Seq([start : Nat, end : Nat]) /\ Len(one) = 1 /\ one[1] = c
  BY <1>1
<1> HIDE DEF one
<1>3. Least(start + size, length) = length
  BY DEF Least
<1>4. \A i \in 1 .. Len(one) : one[i].end - one[i].start \in 1 .. size
  <2>1. length - start \in 1 .. size
    OBVIOUS
  <2>2. \A i \in 1 .. Len(one) : i = 1
    BY <1>2
  <2> QED BY <1>1, <1>2, <2>1, <2>2
<1>5. \A i \in 1 .. Len(one) - 1 : FALSE
  BY <1>2
<1>6. Covers(one, start, length, size)
  BY <1>1, <1>2, <1>3, <1>4, <1>5 DEF Covers
<1> QED BY <1>6 DEF one, c

\* A chunk in front of chunks that start an overlap before its end.
LEMMA CoversGrow ==
    ASSUME NEW length \in Nat, NEW size \in Nat, NEW start \in Nat, NEW rest,
           NEW overlap \in Nat, 1 <= overlap, overlap < size, start + size < length,
           Covers(rest, start + size - overlap, length, size)
    PROVE  Covers(<<Chunk(start, start + size)>> \o rest, start, length, size)
<1> DEFINE c == Chunk(start, start + size)
           all == <<c>> \o rest
<1>1. c \in [start : Nat, end : Nat] /\ c.start = start /\ c.end = start + size
  BY DEF Chunk
<1>2. /\ rest \in Seq([start : Nat, end : Nat])
      /\ Len(rest) >= 1 /\ Len(rest) \in Nat
      /\ rest[1].start = start + size - overlap
      /\ rest[1].end = Least(start + size - overlap + size, length)
      /\ rest[Len(rest)].end = length
      /\ \A i \in 1 .. Len(rest) : rest[i].end - rest[i].start \in 1 .. size
      /\ \A i \in 1 .. Len(rest) - 1 : /\ rest[i + 1].start < rest[i].end
                                       /\ rest[i + 1].end > rest[i].end
  BY DEF Covers
<1> HIDE DEF c
<1>3. /\ all \in Seq([start : Nat, end : Nat])
      /\ Len(all) = Len(rest) + 1
      /\ all[1] = c
      /\ \A i \in 1 .. Len(rest) : all[i + 1] = rest[i]
  BY <1>1, <1>2, Prepended
<1> HIDE DEF all
<1>4. all[Len(all)].end = length
  <2>1. Len(rest) \in 1 .. Len(rest)
    BY <1>2
  <2>2. all[Len(rest) + 1] = rest[Len(rest)]
    BY <1>3, <2>1
  <2> QED BY <1>2, <1>3, <2>2
<1>5. ASSUME NEW i \in 1 .. Len(all) PROVE all[i].end - all[i].start \in 1 .. size
  <2>1. CASE i = 1
    <3>1. start + size - start \in 1 .. size
      OBVIOUS
    <3> QED BY <1>1, <1>3, <2>1, <3>1
  <2>2. CASE i # 1
    <3>1. i - 1 \in 1 .. Len(rest) /\ (i - 1) + 1 = i
      BY <1>2, <1>3, <2>2
    <3>2. all[i] = rest[i - 1]
      BY <1>3, <3>1
    <3> QED BY <1>2, <3>1, <3>2
  <2> QED BY <2>1, <2>2
<1>6. ASSUME NEW i \in 1 .. Len(all) - 1
      PROVE  all[i + 1].start < all[i].end /\ all[i + 1].end > all[i].end
  <2>1. i \in 1 .. Len(rest)
    BY <1>2, <1>3
  <2>2. all[i + 1] = rest[i]
    BY <1>3, <2>1
  <2>3. CASE i = 1
    <3>1. Least(start + size - overlap + size, length) > start + size
      BY DEF Least
    <3>2. start + size - overlap < start + size
      OBVIOUS
    <3> QED BY <1>1, <1>2, <1>3, <2>2, <2>3, <3>1, <3>2
  <2>4. CASE i # 1
    <3>1. i - 1 \in 1 .. Len(rest) - 1 /\ i - 1 \in 1 .. Len(rest) /\ (i - 1) + 1 = i
      BY <1>2, <2>1, <2>4
    <3>2. all[i] = rest[i - 1]
      BY <1>3, <3>1
    <3>3. rest[i].start < rest[i - 1].end /\ rest[i].end > rest[i - 1].end
      BY <1>2, <3>1
    <3> QED BY <2>2, <3>2, <3>3
  <2> QED BY <2>3, <2>4
<1>7. Least(start + size, length) = start + size
  BY DEF Least
<1>8. Len(all) >= 1
  BY <1>2, <1>3
<1>9. Covers(all, start, length, size)
  BY <1>1, <1>3, <1>4, <1>5, <1>6, <1>7, <1>8 DEF Covers
<1> QED BY <1>9 DEF all, c

\* What _chunk_text returns: nothing of an empty text, and otherwise chunks that
\* are all of it.
LEMMA ChunksCover ==
    ASSUME NEW length \in Nat, NEW size \in Nat, size > MaxOverlap
    PROVE  /\ length = 0 => Chunks(length, size) = <<>>
           /\ length > 0 => Covers(Chunks(length, size), 0, length, size)
<1>1. CASE length = 0
  BY <1>1 DEF Chunks
<1>2. CASE length > 0 /\ length <= size
  <2>1. Chunks(length, size) = <<Chunk(0, length)>>
    BY <1>2 DEF Chunks
  <2> QED BY <1>2, <2>1, OneCovers
<1>3. CASE length > size
  <2>1. PICK h : /\ \A start \in 0 .. length : h[start] = Cut(h, start, length, size)
                 /\ Chunks(length, size) = h[0]
    BY <1>3, ChunksOfLong
  <2> DEFINE T == {k \in Nat : \A m \in 1 .. k : m <= length =>
                                  Covers(h[length - m], length - m, length, size)}
  <2>2. 0 \in T
    OBVIOUS
  <2>3. ASSUME NEW k \in T PROVE k + 1 \in T
    <3>1. k \in Nat /\ \A m \in 1 .. k : m <= length =>
                          Covers(h[length - m], length - m, length, size)
      OBVIOUS
    <3> DEFINE start == length - (k + 1)
    <3> SUFFICES ASSUME k + 1 <= length PROVE Covers(h[start], start, length, size)
      <4>1. \A m \in 1 .. k + 1 : m \in 1 .. k \/ m = k + 1
        BY <3>1
      <4> QED BY <3>1, <4>1
    <3>2. start \in 0 .. length /\ start \in Nat /\ start < length
          /\ length - start = k + 1
      BY <3>1
    <3> HIDE DEF start, T
    <3>3. h[start] = Cut(h, start, length, size)
      BY <2>1, <3>2
    <3>4. CASE Least(start + size, length) = length
      <4>1. h[start] = <<Chunk(start, length)>>
        BY <3>3, <3>4 DEF Cut
      <4>2. length <= start + size
        BY <3>2, <3>4 DEF Least
      <4> QED BY <3>2, <4>1, <4>2, OneCovers
    <3>5. CASE Least(start + size, length) # length
      <4> DEFINE n == Overlap(size)
                 next == start + size - n
      <4>1. /\ Least(start + size, length) = start + size
            /\ start + size < length
            /\ next \in start + 1 .. length - 1
        BY <3>2, <3>5, CutGoesOn
      <4>2. n \in Nat /\ 1 <= n /\ n < size
        BY OverlapSize
      <4>3. h[start] = <<Chunk(start, start + size)>> \o h[next]
        <5>1. Cut(h, start, length, size) = <<Chunk(start, start + size)>> \o h[next]
          BY <3>2, <3>5, <4>1, CutLong
        <5> QED BY <3>3, <5>1
      <4> HIDE DEF n
      <4>4. length - next \in 1 .. k /\ length - next <= length
            /\ length - (length - next) = next
        <5> HIDE DEF next
        <5> QED BY <3>1, <3>2, <4>1
      <4>5. Covers(h[next], next, length, size)
        <5> HIDE DEF next
        <5> QED BY <3>1, <4>4
      <4> QED BY <3>2, <4>1, <4>2, <4>3, <4>5, CoversGrow
    <3> QED BY <3>4, <3>5
  <2>4. length \in T
    <3>1. T \in SUBSET Nat
      OBVIOUS
    <3> HIDE DEF T
    <3> QED BY <2>2, <2>3, <3>1, AllNat
  <2>5. length \in 1 .. length /\ length - length = 0
    BY <1>3
  <2>6. Covers(h[length - length], length - length, length, size)
    BY <2>4, <2>5
  <2> QED BY <1>3, <2>1, <2>5, <2>6
<1> QED BY <1>1, <1>2, <1>3
-----------------------------------------------------------------------------
\* What a request asks.
LEMMA AskTypes ==
    ASSUME NEW k \in Asks
    PROVE  /\ k.kind \in {"ingest", "upsert", "delete"}
           /\ k.size \in Nat /\ k.size > MaxOverlap
           /\ k.documents \in Seq([source : Sources, length : Nat])
           /\ Len(k.documents) \in Nat
           /\ DOMAIN k.documents = 1 .. Len(k.documents)
           /\ \A i \in 1 .. Len(k.documents) : /\ k.documents[i].source \in Sources
                                               /\ k.documents[i].length \in Nat
           /\ k.kind # "ingest" => Len(k.documents) = 1
<1>1. /\ k \in [kind : {"ingest", "upsert", "delete"}, size : Nat,
                documents : Seq([source : Sources, length : Nat])]
      /\ k.size > MaxOverlap
      /\ k.kind # "ingest" => Len(k.documents) = 1
  BY KnowledgeAssumption
<1> DEFINE s == k.documents
<1>2. s \in Seq([source : Sources, length : Nat])
  BY <1>1
<1>3. Len(s) \in Nat /\ DOMAIN s = 1 .. Len(s)
      /\ \A i \in 1 .. Len(s) : s[i] \in [source : Sources, length : Nat]
  <2> HIDE DEF s
  <2>1. Len(s) \in Nat /\ DOMAIN s = 1 .. Len(s)
    BY <1>2
  <2>2. ASSUME NEW i \in 1 .. Len(s) PROVE s[i] \in [source : Sources, length : Nat]
    BY <1>2, <2>2, ElementOfSeq
  <2> QED BY <2>1, <2>2
<1>4. \A i \in 1 .. Len(s) : s[i].source \in Sources /\ s[i].length \in Nat
  BY <1>3
<1> QED BY <1>1, <1>2, <1>3, <1>4

\* The next version of records is higher than theirs.
LEMMA NextVersionIsHigher ==
    ASSUME NEW records \in SUBSET Record, IsFiniteSet(records)
    PROVE  /\ NextVersion(records) \in Nat \ {0}
           /\ \A d \in records : d.version < NextVersion(records)
<1>1. CASE records = {}
  BY <1>1 DEF NextVersion
<1>2. CASE records # {}
  <2> DEFINE V == {d.version : d \in records}
             f == [d \in records |-> d.version]
  <2>1. V \in SUBSET Nat /\ V # {}
    BY <1>2 DEF Record
  <2>2. IsFiniteSet(V)
    <3>1. f \in Surjection(records, V)
      BY DEF Surjection
    <3> HIDE DEF f, V
    <3> QED BY <3>1, FS_Surjection
  <2>3. \E n \in V : \A m \in V : n >= m
    <3> HIDE DEF V
    <3> QED BY <2>1, <2>2, GreatestNat
  <2>4. NextVersion(records) = Max(V) + 1
    BY <1>2 DEF NextVersion
  <2>5. \A d \in records : d.version \in V
    OBVIOUS
  <2> HIDE DEF V
  <2>6. Max(V) \in V /\ \A m \in V : Max(V) >= m
    BY <2>3 DEF Max
  <2>7. Max(V) \in Nat
    BY <2>1, <2>6
  <2>8. \A d \in records : d.version \in Nat /\ Max(V) >= d.version
    BY <2>1, <2>5, <2>6
  <2> QED BY <2>4, <2>7, <2>8
<1> QED BY <1>1, <1>2

\* What an add stores of one document: one record, if it has a text.
LEMMA RecordsOfDocument ==
    ASSUME NEW o \in Ops, asked[o] \in Asks, NEW i \in 1 .. Len(asked[o].documents),
           NEW version \in Nat \ {0}
    PROVE  /\ Records(o, i, version) \in SUBSET Record
           /\ IsFiniteSet(Records(o, i, version))
           /\ asked[o].documents[i].length > 0 => Records(o, i, version) # {}
           /\ \A d \in Records(o, i, version) :
                 /\ d.op = o /\ d.index = i /\ d.version = version
                 /\ d.source = asked[o].documents[i].source
                 /\ d.length \in Nat \ {0}
                 /\ d.chunks = Chunks(d.length, asked[o].size)
<1> DEFINE t == asked[o].documents[i]
           size == asked[o].size
           chunks == Chunks(t.length, size)
           r == [op |-> o, index |-> i, source |-> t.source, version |-> version,
                 length |-> t.length, chunks |-> chunks]
<1>1. /\ t.source \in Sources /\ t.length \in Nat
      /\ size \in Nat /\ size > MaxOverlap /\ Len(asked[o].documents) \in Nat
  BY AskTypes
<1>2. Records(o, i, version) = IF chunks = <<>> THEN {} ELSE {r}
  BY DEF Records
<1>3. t.length = 0 => chunks = <<>>
  <2> HIDE DEF t, size
  <2> QED BY <1>1, ChunksCover
<1>4. t.length > 0 => chunks \in Seq([start : Nat, end : Nat]) /\ chunks # <<>>
  <2>1. t.length > 0 => Covers(chunks, 0, t.length, size)
    <3> HIDE DEF t, size
    <3> QED BY <1>1, ChunksCover
  <2> HIDE DEF chunks, t, size
  <2>2. t.length > 0 => chunks \in Seq([start : Nat, end : Nat]) /\ Len(chunks) >= 1
    BY <2>1 DEF Covers
  <2> QED BY <2>2
<1>5. i \in Nat \ {0}
  BY <1>1
<1> HIDE DEF chunks
<1>6. chunks # <<>> => t.length \in Nat \ {0}
  BY <1>1, <1>3
<1>7. chunks # <<>> => r \in Record
  <2>1. chunks # <<>> => chunks \in Seq([start : Nat, end : Nat])
    <3> HIDE DEF t
    <3> QED BY <1>1, <1>4, <1>6
  <2> QED BY <1>1, <1>5, <1>6, <2>1 DEF Record
<1>8. chunks = Chunks(t.length, size)
  BY DEF chunks
<1>9. IsFiniteSet(Records(o, i, version))
  <2> HIDE DEF r
  <2>1. IsFiniteSet({}) /\ IsFiniteSet({r})
    BY FS_EmptySet, FS_Singleton
  <2> QED BY <1>2, <2>1
<1>10. t.length > 0 => Records(o, i, version) # {}
  <2> HIDE DEF t
  <2> QED BY <1>2, <1>4
<1>11. Records(o, i, version) \in SUBSET Record
  <2> HIDE DEF r
  <2> QED BY <1>2, <1>7, Zenon
<1>12. ASSUME NEW d \in Records(o, i, version)
       PROVE  /\ d.op = o /\ d.index = i /\ d.version = version
              /\ d.source = t.source /\ d.length \in Nat \ {0}
              /\ d.chunks = Chunks(d.length, size)
  <2>1. chunks # <<>> /\ d = r
    <3> HIDE DEF r
    <3> QED BY <1>2
  <2>2. r.length = t.length /\ r.chunks = Chunks(t.length, size)
    BY <1>8
  <2>3. r.op = o /\ r.index = i /\ r.version = version /\ r.source = t.source
    OBVIOUS
  <2> HIDE DEF t, size, r
  <2> QED BY <1>6, <2>1, <2>2, <2>3
<1> QED BY <1>9, <1>10, <1>11, <1>12, Zenon
-----------------------------------------------------------------------------
\* A cause stays while its request does nothing.
LEMMA CauseStays ==
    ASSUME NEW q \in Ops, NEW source, MayEmpty(q, source),
           pc'[q] = pc[q], asked'[q] = asked[q], reply'[q] = reply[q]
    PROVE  MayEmpty(q, source)'
BY DEF MayEmpty, Source

\* What comes into a handler.
LEMMA ReceiveKeeps ==
    ASSUME HandlerInv, NEW p \in Ops, NEW ask \in Asks, pc[p] = "out",
           asked' = [asked EXCEPT ![p] = ask],
           pc' = [pc EXCEPT ![p] = IF ask.kind = "ingest" THEN "versions" ELSE "get"],
           before' = [before EXCEPT ![p] = {q \in Ops : pc[q] = "done"}],
           versions' = versions, existing' = existing, stored' = stored, reply' = reply
    PROVE  HandlerInv'
<1> USE DEF HandlerInv
<1>1. HandlerTypes'
  BY DEF HandlerTypes
<1>2. /\ asked'[p] = ask
      /\ pc'[p] = IF ask.kind = "ingest" THEN "versions" ELSE "get"
      /\ before'[p] = {q \in Ops : pc[q] = "done"}
      /\ \A o \in Ops \ {p} : asked'[o] = asked[o] /\ pc'[o] = pc[o] /\ before'[o] = before[o]
  BY DEF HandlerTypes
<1>3. versions[p] = <<>> /\ reply[p] # "ok"
  BY DEF RequestInv
<1>4. ASSUME NEW o \in Ops PROVE RequestInv(o)'
  <2>1. CASE o = p
    <3>1. ask.kind \in {"ingest", "upsert", "delete"} /\ Len(ask.documents) \in Nat
      BY AskTypes
    <3>2. \A q \in before'[p] : pc'[q] = "done"
      BY <1>2
    <3> QED BY <1>2, <1>3, <2>1, <3>1, <3>2 DEF RequestInv
  <2>2. CASE o # p
    <3>1. RequestInv(o)
      OBVIOUS
    <3>2. \A q \in before[o] : q \in Ops /\ q # p
      BY <3>1 DEF RequestInv, HandlerTypes
    <3> QED BY <1>2, <2>2, <3>1, <3>2 DEF RequestInv, Source
  <2> QED BY <2>1, <2>2
<1>5. ASSUME NEW o \in Ops PROVE OrderInv(o)'
  <2>1. CASE o = p
    BY <1>2, <1>3, <2>1 DEF OrderInv
  <2>2. CASE o # p
    <3>1. OrderInv(o)
      OBVIOUS
    <3> QED BY <1>2, <2>2, <3>1 DEF OrderInv, Of, Source
  <2> QED BY <2>1, <2>2
<1>6. ASSUME NEW d \in stored' PROVE RecordInv(d)'
  <2>1. RecordInv(d) /\ d.op \in Ops
    BY DEF HandlerTypes, Record
  <2>2. d.op # p
    BY <2>1 DEF RecordInv
  <2> QED BY <1>2, <2>1, <2>2 DEF RecordInv
<1>7. ASSUME NEW o \in Ops PROVE LossInv(o)'
  <2> SUFFICES ASSUME NEW source \in Sources, Told(o, source)',
                      \A d \in stored' : d.source # source
               PROVE  \E q \in Ops : q \notin before'[o] /\ MayEmpty(q, source)'
    BY DEF LossInv
  <2>1. o # p
    BY <1>3 DEF Told
  <2>2. Told(o, source)
    BY <1>2, <2>1 DEF Told
  <2>3. PICK q \in Ops : q \notin before[o] /\ MayEmpty(q, source)
    BY <2>2 DEF LossInv
  <2>4. q # p
    BY <2>3 DEF MayEmpty
  <2> QED BY <1>2, <2>1, <2>3, <2>4, CauseStays
<1> QED BY <1>1, <1>4, <1>5, <1>6, <1>7

\* The next version of a source is higher than what is stored of it.
LEMMA NextOfSource ==
    ASSUME HandlerTypes, NEW source
    PROVE  /\ Of(source) \in SUBSET Record
           /\ NextVersion(Of(source)) \in Nat \ {0}
           /\ \A d \in stored : d.source = source => d.version < NextVersion(Of(source))
<1>1. Of(source) \in SUBSET stored
  BY DEF Of
<1>2. IsFiniteSet(Of(source)) /\ Of(source) \in SUBSET Record
  BY <1>1, FS_Subset DEF HandlerTypes
<1>3. \A d \in stored : d.source = source => d \in Of(source)
  BY DEF Of
<1> QED BY <1>2, <1>3, NextVersionIsHigher

\* A version at the end of those read.
LEMMA VersionAppended ==
    ASSUME NEW s \in Seq(Nat \ {0}), NEW v \in Nat \ {0}
    PROVE  /\ Append(s, v) \in Seq(Nat \ {0})
           /\ Len(Append(s, v)) = Len(s) + 1
           /\ \A i \in 1 .. Len(s) : Append(s, v)[i] = s[i]
           /\ Append(s, v)[Len(s) + 1] = v
OBVIOUS

\* ingest_documents reads the version of the next document.
LEMMA IngestReadKeeps ==
    ASSUME HandlerInv, NEW p \in Ops, IngestRead(p)
    PROVE  HandlerInv'
<1> USE DEF HandlerInv
<1> DEFINE n == Len(versions[p])
           source == asked[p].documents[n + 1].source
           v == NextVersion(Of(source))
<1>1. /\ pc[p] = "versions" /\ n < Len(asked[p].documents)
      /\ versions' = [versions EXCEPT ![p] = Append(@, v)]
      /\ pc' = pc /\ asked' = asked /\ existing' = existing /\ stored' = stored
      /\ reply' = reply /\ before' = before
  BY DEF IngestRead
<1>2. versions[p] \in Seq(Nat \ {0}) /\ n \in Nat
  BY DEF HandlerTypes
<1>3. v \in Nat \ {0} /\ \A d \in stored : d.source = source => d.version < v
  BY NextOfSource
<1> HIDE DEF v
<1>4. /\ versions'[p] \in Seq(Nat \ {0}) /\ Len(versions'[p]) = n + 1
      /\ \A i \in 1 .. n : versions'[p][i] = versions[p][i]
      /\ versions'[p][n + 1] = v
      /\ \A o \in Ops \ {p} : versions'[o] = versions[o]
  <2>1. versions'[p] = Append(versions[p], v) /\ \A o \in Ops \ {p} : versions'[o] = versions[o]
    BY <1>1 DEF HandlerTypes
  <2> QED BY <1>2, <1>3, <2>1, VersionAppended
<1>5. HandlerTypes'
  BY <1>1, <1>4 DEF HandlerTypes
<1>6. ASSUME NEW o \in Ops PROVE RequestInv(o)'
  <2>1. CASE o = p
    <3>1. asked[p] \in Asks
      BY <1>1 DEF RequestInv
    <3>2. Len(asked[p].documents) \in Nat
      BY <3>1, AskTypes
    <3>3. Len(versions'[p]) <= Len(asked[p].documents)
      BY <1>1, <1>2, <1>4, <3>2
    <3> QED BY <1>1, <2>1, <3>3 DEF RequestInv, Source
  <2>2. CASE o # p
    BY <1>1, <1>4, <2>2 DEF RequestInv, Source
  <2> QED BY <2>1, <2>2
<1>7. ASSUME NEW o \in Ops PROVE OrderInv(o)'
  <2>1. CASE o = p
    <3> SUFFICES ASSUME NEW i \in 1 .. Len(versions'[p]), NEW d \in stored,
                        d.source = asked[p].documents[i].source, d.op \in before[p]
                 PROVE  d.version < versions'[p][i]
      <4>1. reply[p] # "ok"
        BY <1>1 DEF RequestInv
      <4> QED BY <1>1, <2>1, <4>1 DEF OrderInv, Of, Source
    <3>1. CASE i = n + 1
      BY <1>3, <1>4, <3>1
    <3>2. CASE i # n + 1
      <4>1. i \in 1 .. n
        BY <1>2, <1>4, <3>2
      <4>2. d.version < versions[p][i]
        BY <4>1 DEF OrderInv
      <4> QED BY <1>4, <4>1, <4>2
    <3> QED BY <3>1, <3>2
  <2>2. CASE o # p
    BY <1>1, <1>4, <2>2 DEF OrderInv, Of, Source
  <2> QED BY <2>1, <2>2
<1>8. ASSUME NEW d \in stored' PROVE RecordInv(d)'
  <2>1. RecordInv(d) /\ d.op \in Ops
    BY <1>1 DEF HandlerTypes, Record
  <2>2. d.op # p
    BY <1>1, <2>1 DEF RecordInv
  <2> QED BY <1>1, <1>4, <2>1, <2>2 DEF RecordInv
<1>9. ASSUME NEW o \in Ops PROVE LossInv(o)'
  <2>1. LossInv(o)
    OBVIOUS
  <2> QED BY <1>1, <2>1 DEF LossInv, Told, MayEmpty, Source
<1> QED BY <1>5, <1>6, <1>7, <1>8, <1>9

\* ReadExisting keeps what is stored of the source, and the version after it.
LEMMA ReadExistingKeeps ==
    ASSUME HandlerInv, NEW p \in Ops, ReadExisting(p)
    PROVE  HandlerInv'
<1> USE DEF HandlerInv
<1> DEFINE source == Source(p)
           v == NextVersion(Of(source))
<1>1. /\ pc[p] = "get"
      /\ existing' = [existing EXCEPT ![p] = Of(source)]
      /\ versions' = [versions EXCEPT ![p] = <<v>>]
      /\ asked' = asked /\ stored' = stored /\ before' = before
      /\ \/ /\ Of(source) # {} /\ pc' = [pc EXCEPT ![p] = "delete"] /\ reply' = reply
         \/ /\ Of(source) = {} /\ asked[p].kind = "upsert"
            /\ pc' = [pc EXCEPT ![p] = "add"] /\ reply' = reply
         \/ /\ Of(source) = {} /\ asked[p].kind # "upsert"
            /\ pc' = [pc EXCEPT ![p] = "done"] /\ reply' = [reply EXCEPT ![p] = "ok"]
  BY DEF ReadExisting, Ends
<1>2. /\ v \in Nat \ {0} /\ \A d \in stored : d.source = source => d.version < v
      /\ Of(source) \in SUBSET Record
  BY NextOfSource
<1>3. asked[p] \in Asks /\ asked[p].kind # "ingest" /\ Len(asked[p].documents) = 1
      /\ reply[p] # "ok" /\ p \notin before[p]
  BY <1>1, AskTypes DEF RequestInv
<1>4. \A d \in stored : d.source = source <=> d \in Of(source)
  BY DEF Of
<1>5. asked[p].documents[1].source = source
  BY DEF Source
<1> DEFINE old == Of(source)
<1> HIDE DEF v, source, old
<1>6. /\ versions'[p] = <<v>> /\ Len(versions'[p]) = 1 /\ versions'[p][1] = v
      /\ versions'[p] \in Seq(Nat \ {0})
      /\ existing'[p] = old
      /\ \A o \in Ops \ {p} : /\ versions'[o] = versions[o] /\ existing'[o] = existing[o]
                              /\ pc'[o] = pc[o] /\ reply'[o] = reply[o]
      /\ \/ old # {} /\ pc'[p] = "delete" /\ reply'[p] = reply[p]
         \/ old = {} /\ asked[p].kind = "upsert" /\ pc'[p] = "add" /\ reply'[p] = reply[p]
         \/ old = {} /\ asked[p].kind = "delete" /\ pc'[p] = "done" /\ reply'[p] = "ok"
  <2>1. asked[p].kind # "upsert" => asked[p].kind = "delete"
    BY <1>3, AskTypes
  <2> QED BY <1>1, <1>2, <1>3, <2>1 DEF HandlerTypes, old
<1>7. HandlerTypes'
  <2>1. versions' \in [Ops -> Seq(Nat \ {0})]
    <3>1. \A o \in Ops : versions'[o] \in Seq(Nat \ {0})
      BY <1>6 DEF HandlerTypes
    <3> QED BY <1>1, <3>1 DEF HandlerTypes
  <2>2. existing' \in [Ops -> SUBSET Record]
    BY <1>1, <1>2 DEF HandlerTypes
  <2>3. /\ pc' \in [Ops -> {"out", "versions", "get", "delete", "add", "done"}]
        /\ reply' \in [Ops -> {"none", "ok", "error"}]
    BY <1>1 DEF HandlerTypes
  <2> QED BY <1>1, <2>1, <2>2, <2>3 DEF HandlerTypes
<1>8. ASSUME NEW o \in Ops PROVE RequestInv(o)'
  <2>1. CASE o = p
    <3>1. \A q \in before[p] : q \in Ops /\ q # p
      BY <1>3 DEF HandlerTypes
    <3>2. \A d \in old : d.source = Source(p)'
      BY <1>1, <1>4, <1>5 DEF old, Source, HandlerTypes, Of
    <3> QED BY <1>1, <1>3, <1>6, <2>1, <3>1, <3>2 DEF RequestInv
  <2>2. CASE o # p
    <3>1. RequestInv(o)
      OBVIOUS
    <3>2. \A q \in before[o] : q \in Ops /\ pc'[q] = "done"
      BY <1>1, <1>6, <3>1 DEF RequestInv, HandlerTypes
    <3> QED BY <1>1, <1>6, <2>2, <3>1, <3>2 DEF RequestInv, Source
  <2> QED BY <2>1, <2>2
<1>9. ASSUME NEW o \in Ops PROVE OrderInv(o)'
  <2>1. CASE o = p
    <3>1. \A d \in Of(Source(p))' : d \in old
      BY <1>1, <1>4, <1>5 DEF Of, Source, old
    <3>2. \A i \in 1 .. Len(versions'[p]) : i = 1
      BY <1>6
    <3> QED BY <1>1, <1>2, <1>3, <1>5, <1>6, <2>1, <3>1, <3>2 DEF OrderInv
  <2>2. CASE o # p
    BY <1>1, <1>6, <2>2 DEF OrderInv, Of, Source
  <2> QED BY <2>1, <2>2
<1>10. ASSUME NEW d \in stored' PROVE RecordInv(d)'
  <2>1. RecordInv(d) /\ d.op \in Ops
    BY <1>1 DEF HandlerTypes, Record
  <2>2. d.op # p
    BY <1>1, <2>1 DEF RecordInv
  <2> QED BY <1>1, <1>6, <2>1, <2>2 DEF RecordInv
<1>11. ASSUME NEW o \in Ops PROVE LossInv(o)'
  <2> SUFFICES ASSUME NEW s \in Sources, Told(o, s)', \A d \in stored' : d.source # s
               PROVE  \E q \in Ops : q \notin before'[o] /\ MayEmpty(q, s)'
    BY DEF LossInv
  <2>1. o # p
    BY <1>1, <1>3, <1>6 DEF Told
  <2>2. Told(o, s)
    BY <1>1, <1>6, <2>1 DEF Told
  <2>3. PICK q \in Ops : q \notin before[o] /\ MayEmpty(q, s)
    BY <1>1, <2>2 DEF LossInv
  <2>4. q # p
    BY <1>1, <2>3 DEF MayEmpty
  <2>5. MayEmpty(q, s)'
    BY <1>1, <1>6, <2>3, <2>4, CauseStays
  <2> QED BY <1>1, <2>3, <2>5
<1> QED BY <1>7, <1>8, <1>9, <1>10, <1>11

\* A request stores what it has to, and ends.
LEMMA AddingKeeps ==
    ASSUME HandlerInv, NEW p \in Ops, pc[p] \in {"versions", "add"},
           NEW new \in SUBSET Record, IsFiniteSet(new), stored' = stored \cup new,
           Ends(p, "ok"),
           asked' = asked, versions' = versions, existing' = existing, before' = before,
           \A d \in new :
              /\ d.op = p /\ d.index \in 1 .. Len(versions[p])
              /\ d.source = asked[p].documents[d.index].source
              /\ d.version = versions[p][d.index]
              /\ d.chunks = Chunks(d.length, asked[p].size),
           \A i \in 1 .. Len(asked[p].documents) :
              asked[p].documents[i].length > 0
                 => \E d \in new : d.source = asked[p].documents[i].source
    PROVE  HandlerInv'
<1> USE DEF HandlerInv
<1>1. /\ pc' = [pc EXCEPT ![p] = "done"] /\ reply' = [reply EXCEPT ![p] = "ok"]
      /\ pc'[p] = "done" /\ reply'[p] = "ok"
      /\ \A o \in Ops \ {p} : pc'[o] = pc[o] /\ reply'[o] = reply[o]
  BY DEF Ends, HandlerTypes
<1>2. /\ asked[p] \in Asks /\ pc[p] # "done" /\ reply[p] # "ok"
      /\ asked[p].kind # "ingest" => pc[p] = "add"
      /\ pc[p] = "versions" => asked[p].kind = "ingest"
      /\ pc[p] = "add" => asked[p].kind = "upsert"
  BY DEF RequestInv
<1>3. HandlerTypes'
  <2>1. IsFiniteSet(stored')
    BY FS_Union DEF HandlerTypes
  <2> QED BY <1>1, <2>1 DEF HandlerTypes
<1>4. \A o \in Ops : p \notin before[o] /\ before[o] \subseteq Ops
  BY <1>2 DEF RequestInv, HandlerTypes
<1>5. ASSUME NEW o \in Ops PROVE RequestInv(o)'
  <2>1. RequestInv(o)
    OBVIOUS
  <2>2. \A q \in before[o] : pc'[q] = "done"
    BY <1>1, <1>4, <2>1 DEF RequestInv
  <2>3. CASE o = p
    BY <1>1, <1>2, <2>1, <2>2, <2>3 DEF RequestInv
  <2>4. CASE o # p
    BY <1>1, <2>1, <2>2, <2>4 DEF RequestInv, Source
  <2> QED BY <2>3, <2>4
<1>6. ASSUME NEW o \in Ops PROVE OrderInv(o)'
  <2>1. OrderInv(o)
    OBVIOUS
  <2>2. \A d \in stored' : d.op \in before[o] => d \in stored
    BY <1>4
  <2>3. CASE o = p
    BY <1>1, <1>2, <2>1, <2>2, <2>3 DEF OrderInv, Of, Source
  <2>4. CASE o # p
    BY <1>1, <2>1, <2>2, <2>4 DEF OrderInv, Of, Source
  <2> QED BY <2>3, <2>4
<1>7. ASSUME NEW d \in stored' PROVE RecordInv(d)'
  <2>1. CASE d \in new
    BY <1>1, <2>1 DEF RecordInv
  <2>2. CASE d \in stored
    <3>1. RecordInv(d) /\ d.op \in Ops
      BY <2>2 DEF HandlerTypes, Record
    <3>2. d.op # p
      BY <1>2, <3>1 DEF RecordInv
    <3> QED BY <1>1, <3>1, <3>2 DEF RecordInv
  <2> QED BY <2>1, <2>2
<1>8. ASSUME NEW o \in Ops PROVE LossInv(o)'
  <2> SUFFICES ASSUME NEW s \in Sources, Told(o, s)', \A d \in stored' : d.source # s
               PROVE  \E q \in Ops : q \notin before'[o] /\ MayEmpty(q, s)'
    BY DEF LossInv
  <2>1. /\ DOMAIN asked[p].documents = 1 .. Len(asked[p].documents)
        /\ \A i \in 1 .. Len(asked[p].documents) : asked[p].documents[i].length \in Nat
        /\ asked[p].kind # "ingest" => Len(asked[p].documents) = 1
    BY <1>2, AskTypes
  <2>2. \A i \in 1 .. Len(asked[p].documents) :
           asked[p].documents[i].source = s => ~(asked[p].documents[i].length > 0)
    OBVIOUS
  <2>3. o # p
    BY <2>1, <2>2 DEF Told
  <2>4. Told(o, s)
    BY <1>1, <2>3 DEF Told
  <2>5. PICK q \in Ops : q \notin before[o] /\ MayEmpty(q, s)
    BY <2>4 DEF LossInv
  <2>6. CASE q # p
    <3>1. MayEmpty(q, s)'
      BY <1>1, <2>5, <2>6, CauseStays
    <3> QED BY <2>5, <3>1
  <2>7. CASE q = p
    <3>1. asked[p].kind = "upsert" /\ asked[p].documents[1].source = s
      BY <1>2, <2>5, <2>7 DEF MayEmpty, Source
    <3>2. asked[p].documents[1].length = 0
      BY <2>1, <2>2, <3>1
    <3>3. MayEmpty(p, s)'
      BY <1>1, <3>1, <3>2 DEF MayEmpty, Source
    <3> QED BY <2>5, <2>7, <3>3
  <2> QED BY <2>6, <2>7
<1> QED BY <1>3, <1>5, <1>6, <1>7, <1>8

\* ingest_documents adds all its documents.
LEMMA IngestAddKeeps ==
    ASSUME HandlerInv, NEW p \in Ops, IngestAdd(p)
    PROVE  HandlerInv'
<1> USE DEF HandlerInv
<1> DEFINE R(i) == Records(p, i, versions[p][i])
           all == {R(i) : i \in DOMAIN versions[p]}
           new == UNION all
<1>1. /\ pc[p] = "versions" /\ Len(versions[p]) = Len(asked[p].documents)
      /\ stored' = stored \cup new /\ Ends(p, "ok")
      /\ asked' = asked /\ versions' = versions /\ existing' = existing /\ before' = before
  BY DEF IngestAdd
<1>2. asked[p] \in Asks
  BY <1>1 DEF RequestInv
<1>3. /\ DOMAIN versions[p] = 1 .. Len(versions[p]) /\ Len(versions[p]) \in Nat
      /\ \A i \in 1 .. Len(versions[p]) : versions[p][i] \in Nat \ {0}
  <2>1. versions[p] \in Seq(Nat \ {0})
    BY DEF HandlerTypes
  <2> QED BY <2>1, ElementOfSeq
<1>4. \A i \in 1 .. Len(versions[p]) :
         /\ R(i) \in SUBSET Record /\ IsFiniteSet(R(i))
         /\ asked[p].documents[i].length > 0 => R(i) # {}
         /\ \A d \in R(i) : /\ d.op = p /\ d.index = i /\ d.version = versions[p][i]
                            /\ d.source = asked[p].documents[i].source
                            /\ d.chunks = Chunks(d.length, asked[p].size)
  <2> SUFFICES ASSUME NEW i \in 1 .. Len(versions[p])
               PROVE  /\ R(i) \in SUBSET Record /\ IsFiniteSet(R(i))
                      /\ asked[p].documents[i].length > 0 => R(i) # {}
                      /\ \A d \in R(i) :
                            /\ d.op = p /\ d.index = i /\ d.version = versions[p][i]
                            /\ d.source = asked[p].documents[i].source
                            /\ d.chunks = Chunks(d.length, asked[p].size)
    OBVIOUS
  <2> DEFINE v == versions[p][i]
  <2>1. i \in 1 .. Len(asked[p].documents) /\ v \in Nat \ {0}
    BY <1>1, <1>3
  <2> HIDE DEF v
  <2>2. /\ Records(p, i, v) \in SUBSET Record /\ IsFiniteSet(Records(p, i, v))
        /\ asked[p].documents[i].length > 0 => Records(p, i, v) # {}
        /\ \A d \in Records(p, i, v) :
              /\ d.op = p /\ d.index = i /\ d.version = v
              /\ d.source = asked[p].documents[i].source
              /\ d.chunks = Chunks(d.length, asked[p].size)
    BY <1>2, <2>1, RecordsOfDocument
  <2> QED BY <2>2 DEF v
<1> DEFINE f == [i \in 1 .. Len(versions[p]) |-> R(i)]
<1> HIDE DEF R
<1>5. IsFiniteSet(all)
  <2>1. f \in Surjection(1 .. Len(versions[p]), all)
    BY <1>3 DEF Surjection
  <2>2. IsFiniteSet(1 .. Len(versions[p]))
    <3> DEFINE n == Len(versions[p])
    <3>1. 1 \in Int /\ n \in Int
      BY <1>3
    <3> HIDE DEF n
    <3>2. IsFiniteSet(1 .. n)
      BY <3>1, FS_Interval, Zenon
    <3> QED BY <3>2 DEF n
  <2> HIDE DEF f, all
  <2> QED BY <2>1, <2>2, FS_Surjection
<1>6. \A T \in all : IsFiniteSet(T)
  BY <1>3, <1>4
<1>7. IsFiniteSet(new)
  <2> HIDE DEF all
  <2> QED BY <1>5, <1>6, FS_UNION
<1>8. \A d \in new : \E i \in 1 .. Len(versions[p]) : d \in R(i)
  BY <1>3
<1>9. \A i \in 1 .. Len(versions[p]) : \A d \in R(i) : d \in new
  BY <1>3
<1> HIDE DEF new, all
<1>10. new \in SUBSET Record
  BY <1>4, <1>8
<1>11. \A d \in new : /\ d.op = p /\ d.index \in 1 .. Len(versions[p])
                      /\ d.source = asked[p].documents[d.index].source
                      /\ d.version = versions[p][d.index]
                      /\ d.chunks = Chunks(d.length, asked[p].size)
  BY <1>4, <1>8
<1>12. \A i \in 1 .. Len(asked[p].documents) :
          asked[p].documents[i].length > 0
             => \E d \in new : d.source = asked[p].documents[i].source
  BY <1>1, <1>4, <1>9
<1> QED BY <1>1, <1>7, <1>10, <1>11, <1>12, AddingKeeps

\* An upsert adds its document.
LEMMA AddDocumentKeeps ==
    ASSUME HandlerInv, NEW p \in Ops, AddDocument(p)
    PROVE  HandlerInv'
<1> USE DEF HandlerInv
<1> DEFINE new == Records(p, 1, versions[p][1])
<1>1. /\ pc[p] = "add" /\ stored' = stored \cup new /\ Ends(p, "ok")
      /\ asked' = asked /\ versions' = versions /\ existing' = existing /\ before' = before
  BY DEF AddDocument
<1>2. asked[p] \in Asks /\ Len(asked[p].documents) = 1 /\ Len(versions[p]) = 1
  BY <1>1, AskTypes DEF RequestInv
<1>3. versions[p][1] \in Nat \ {0}
  <2>1. versions[p] \in Seq(Nat \ {0}) /\ 1 \in 1 .. Len(versions[p])
    BY <1>2 DEF HandlerTypes
  <2> QED BY <2>1, ElementOfSeq
<1>4. /\ new \in SUBSET Record /\ IsFiniteSet(new)
      /\ asked[p].documents[1].length > 0 => new # {}
      /\ \A d \in new : /\ d.op = p /\ d.index = 1 /\ d.version = versions[p][1]
                        /\ d.source = asked[p].documents[1].source
                        /\ d.chunks = Chunks(d.length, asked[p].size)
  BY <1>2, <1>3, RecordsOfDocument
<1> HIDE DEF new
<1>5. \A d \in new : /\ d.op = p /\ d.index \in 1 .. Len(versions[p])
                     /\ d.source = asked[p].documents[d.index].source
                     /\ d.version = versions[p][d.index]
                     /\ d.chunks = Chunks(d.length, asked[p].size)
  BY <1>2, <1>4
<1>6. \A i \in 1 .. Len(asked[p].documents) :
         asked[p].documents[i].length > 0
            => \E d \in new : d.source = asked[p].documents[i].source
  BY <1>2, <1>4
<1> QED BY <1>1, <1>4, <1>5, <1>6, AddingKeeps

\* DeleteExisting leaves nothing of the source that was stored when it was read.
LEMMA DeleteExistingKeeps ==
    ASSUME HandlerInv, NEW p \in Ops, DeleteExisting(p)
    PROVE  HandlerInv'
<1> USE DEF HandlerInv
<1>1. /\ pc[p] = "delete" /\ stored' = stored \ existing[p]
      /\ asked' = asked /\ versions' = versions /\ existing' = existing /\ before' = before
      /\ \/ /\ asked[p].kind = "upsert"
            /\ pc' = [pc EXCEPT ![p] = "add"] /\ reply' = reply
         \/ /\ asked[p].kind # "upsert"
            /\ pc' = [pc EXCEPT ![p] = "done"] /\ reply' = [reply EXCEPT ![p] = "ok"]
  BY DEF DeleteExisting, Ends
<1>2. /\ asked[p] \in Asks /\ asked[p].kind # "ingest" /\ reply[p] # "ok" /\ pc[p] # "done"
      /\ Len(versions[p]) = 1 /\ \A d \in existing[p] : d.source = Source(p)
  BY <1>1 DEF RequestInv
<1>3. /\ \A o \in Ops \ {p} : pc'[o] = pc[o] /\ reply'[o] = reply[o]
      /\ \/ asked[p].kind = "upsert" /\ pc'[p] = "add" /\ reply'[p] = reply[p]
         \/ asked[p].kind = "delete" /\ pc'[p] = "done" /\ reply'[p] = "ok"
  <2>1. asked[p].kind # "upsert" => asked[p].kind = "delete"
    BY <1>2, AskTypes
  <2> QED BY <1>1, <2>1 DEF HandlerTypes
<1>4. HandlerTypes'
  <2>1. IsFiniteSet(stored')
    BY <1>1, FS_Difference DEF HandlerTypes
  <2> QED BY <1>1, <2>1 DEF HandlerTypes
<1>5. \A o \in Ops : p \notin before[o] /\ before[o] \subseteq Ops
  BY <1>2 DEF RequestInv, HandlerTypes
<1>6. ASSUME NEW o \in Ops PROVE RequestInv(o)'
  <2>1. RequestInv(o)
    OBVIOUS
  <2>2. \A q \in before[o] : pc'[q] = "done"
    BY <1>3, <1>5, <2>1 DEF RequestInv
  <2>3. CASE o = p
    BY <1>1, <1>2, <1>3, <2>1, <2>2, <2>3 DEF RequestInv
  <2>4. CASE o # p
    BY <1>1, <1>3, <2>1, <2>2, <2>4 DEF RequestInv, Source
  <2> QED BY <2>3, <2>4
<1>7. ASSUME NEW o \in Ops PROVE OrderInv(o)'
  <2>1. OrderInv(o)
    OBVIOUS
  <2>2. CASE o = p
    <3>1. \A d \in stored' : d \in stored /\ d \notin existing[p]
      BY <1>1
    <3>2. \A d \in Of(Source(p))' : d.op \notin before[p]
      BY <1>1, <2>1, <2>2, <3>1 DEF OrderInv, Of, Source
    <3> QED BY <1>1, <1>3, <2>1, <2>2, <3>1, <3>2 DEF OrderInv
  <2>3. CASE o # p
    BY <1>1, <1>3, <2>1, <2>3 DEF OrderInv, Of, Source
  <2> QED BY <2>2, <2>3
<1>8. ASSUME NEW d \in stored' PROVE RecordInv(d)'
  <2>1. d \in stored /\ RecordInv(d) /\ d.op \in Ops
    BY <1>1 DEF HandlerTypes, Record
  <2>2. d.op # p
    BY <1>2, <2>1 DEF RecordInv
  <2> QED BY <1>1, <1>3, <2>1, <2>2 DEF RecordInv
<1>9. ASSUME NEW o \in Ops PROVE LossInv(o)'
  <2> SUFFICES ASSUME NEW s \in Sources, Told(o, s)', \A d \in stored' : d.source # s
               PROVE  \E q \in Ops : q \notin before'[o] /\ MayEmpty(q, s)'
    BY DEF LossInv
  <2>1. o # p
    BY <1>1, <1>2, <1>3 DEF Told
  <2>2. Told(o, s)
    BY <1>1, <1>3, <2>1 DEF Told
  <2>3. CASE \A d \in stored : d.source # s
    <3>1. PICK q \in Ops : q \notin before[o] /\ MayEmpty(q, s)
      BY <2>2, <2>3 DEF LossInv
    <3>2. q # p
      BY <1>1, <3>1 DEF MayEmpty
    <3>3. MayEmpty(q, s)'
      BY <1>1, <1>3, <3>1, <3>2, CauseStays
    <3> QED BY <1>1, <3>1, <3>3
  <2>4. CASE \E d \in stored : d.source = s
    <3>1. Source(p) = s
      BY <1>1, <1>2, <2>4
    <3>2. MayEmpty(p, s)'
      BY <1>1, <1>3, <3>1 DEF MayEmpty, Source
    <3> QED BY <1>1, <1>5, <3>2
  <2> QED BY <2>3, <2>4
<1> QED BY <1>4, <1>6, <1>7, <1>8, <1>9

\* A request that fails leaves what it did.
LEMMA FailKeeps ==
    ASSUME HandlerInv, NEW p \in Ops, Fail(p)
    PROVE  HandlerInv'
<1> USE DEF HandlerInv
<1>1. /\ pc[p] # "out" /\ pc[p] # "done" /\ stored' = stored
      /\ asked' = asked /\ versions' = versions /\ existing' = existing /\ before' = before
      /\ pc' = [pc EXCEPT ![p] = "done"] /\ reply' = [reply EXCEPT ![p] = "error"]
  BY DEF Fail, Ends
<1>2. /\ \A o \in Ops \ {p} : pc'[o] = pc[o] /\ reply'[o] = reply[o]
      /\ pc'[p] = "done" /\ reply'[p] = "error"
  BY <1>1 DEF HandlerTypes
<1>3. asked[p] \in Asks
  BY <1>1 DEF RequestInv
<1>4. HandlerTypes'
  BY <1>1 DEF HandlerTypes
<1>5. \A o \in Ops : p \notin before[o] /\ before[o] \subseteq Ops
  BY <1>1 DEF RequestInv, HandlerTypes
<1>6. ASSUME NEW o \in Ops PROVE RequestInv(o)'
  <2>1. RequestInv(o)
    OBVIOUS
  <2>2. \A q \in before[o] : pc'[q] = "done"
    BY <1>2, <1>5, <2>1 DEF RequestInv
  <2>3. CASE o = p
    BY <1>1, <1>2, <1>3, <2>1, <2>2, <2>3 DEF RequestInv
  <2>4. CASE o # p
    BY <1>1, <1>2, <2>1, <2>2, <2>4 DEF RequestInv, Source
  <2> QED BY <2>3, <2>4
<1>7. ASSUME NEW o \in Ops PROVE OrderInv(o)'
  <2>1. OrderInv(o)
    OBVIOUS
  <2>2. CASE o = p
    BY <1>1, <1>2, <2>1, <2>2 DEF OrderInv, Of, Source
  <2>3. CASE o # p
    BY <1>1, <1>2, <2>1, <2>3 DEF OrderInv, Of, Source
  <2> QED BY <2>2, <2>3
<1>8. ASSUME NEW d \in stored' PROVE RecordInv(d)'
  <2>1. RecordInv(d) /\ d.op \in Ops
    BY <1>1 DEF HandlerTypes, Record
  <2>2. d.op # p
    BY <1>1, <2>1 DEF RecordInv
  <2> QED BY <1>1, <1>2, <2>1, <2>2 DEF RecordInv
<1>9. ASSUME NEW o \in Ops PROVE LossInv(o)'
  <2> SUFFICES ASSUME NEW s \in Sources, Told(o, s)', \A d \in stored' : d.source # s
               PROVE  \E q \in Ops : q \notin before'[o] /\ MayEmpty(q, s)'
    BY DEF LossInv
  <2>1. o # p
    BY <1>2 DEF Told
  <2>2. Told(o, s)
    BY <1>1, <1>2, <2>1 DEF Told
  <2>3. PICK q \in Ops : q \notin before[o] /\ MayEmpty(q, s)
    BY <1>1, <2>2 DEF LossInv
  <2>4. CASE q = p
    BY <1>1, <1>2, <2>3, <2>4 DEF MayEmpty, Source
  <2>5. CASE q # p
    <3>1. MayEmpty(q, s)'
      BY <1>1, <1>2, <2>3, <2>5, CauseStays
    <3> QED BY <1>1, <2>3, <3>1
  <2> QED BY <2>4, <2>5
<1> QED BY <1>4, <1>6, <1>7, <1>8, <1>9
-----------------------------------------------------------------------------
LEMMA InitEstablishes == Init => InductiveInv
<1> SUFFICES ASSUME Init PROVE InductiveInv
  OBVIOUS
<1> USE DEF Init
<1>1. LimiterTypes
  <2>1. <<>> \in Seq(0 .. Window)
    OBVIOUS
  <2> QED BY <2>1 DEF LimiterTypes, Free
<1>2. ASSUME NEW c \in Clients PROVE ClientInv(c)
  <2>1. bucket[c] = <<>> /\ recent[c] = <<>> /\ told[c] = Free
    OBVIOUS
  <2>2. Len(bucket[c]) = 0 /\ Len(recent[c]) = 0
    BY <2>1
  <2> QED BY <2>1, <2>2, KnowledgeAssumption DEF ClientInv
<1>3. HandlerTypes
  <2>1. <<>> \in Seq(Nat \ {0}) /\ IsFiniteSet({})
    BY FS_EmptySet
  <2> QED BY <2>1 DEF HandlerTypes
<1>4. ASSUME NEW o \in Ops PROVE RequestInv(o) /\ OrderInv(o) /\ LossInv(o)
  <2>1. /\ pc[o] = "out" /\ asked[o] = Nothing /\ versions[o] = <<>> /\ before[o] = {}
        /\ reply[o] = "none" /\ stored = {}
    OBVIOUS
  <2>2. Len(versions[o]) = 0 /\ Len(asked[o].documents) = 0
    BY <2>1 DEF Nothing
  <2>3. RequestInv(o)
    BY <2>1, <2>2 DEF RequestInv
  <2>4. OrderInv(o)
    BY <2>1, <2>2 DEF OrderInv
  <2>5. LossInv(o)
    BY <2>1 DEF LossInv, Told
  <2> QED BY <2>3, <2>4, <2>5
<1>5. \A d \in stored : RecordInv(d)
  OBVIOUS
<1> QED BY <1>1, <1>2, <1>3, <1>4, <1>5 DEF InductiveInv, HandlerInv

\* What the limiter does leaves the documents alone.
LEMMA HandlersUnchanged ==
    ASSUME HandlerInv, UNCHANGED <<handlers, stored>> PROVE HandlerInv'
<1> USE DEF handlers, HandlerInv
<1>1. HandlerTypes'
  BY DEF HandlerTypes
<1>2. ASSUME NEW o \in Ops PROVE RequestInv(o)' /\ OrderInv(o)' /\ LossInv(o)'
  <2>1. RequestInv(o)'
    BY DEF RequestInv, Source
  <2>2. OrderInv(o)'
    BY DEF OrderInv, Of, Source
  <2>3. LossInv(o)'
    BY DEF LossInv, Told, MayEmpty, Source
  <2> QED BY <2>1, <2>2, <2>3
<1>3. \A d \in stored' : RecordInv(d)'
  BY DEF RecordInv
<1> QED BY <1>1, <1>2, <1>3

\* What happens to the documents leaves the limiter alone.
LEMMA LimiterUnchanged ==
    ASSUME LimiterTypes, \A c \in Clients : ClientInv(c), UNCHANGED limiter
    PROVE  LimiterTypes' /\ \A c \in Clients : ClientInv(c)'
<1> USE DEF limiter
<1>1. LimiterTypes'
  BY DEF LimiterTypes
<1>2. \A c \in Clients : ClientInv(c)'
  BY DEF ClientInv
<1> QED BY <1>1, <1>2

LEMMA NextKeeps == InductiveInv /\ [Next]_vars => InductiveInv'
<1> SUFFICES ASSUME InductiveInv, [Next]_vars PROVE InductiveInv'
  OBVIOUS
<1> USE DEF InductiveInv
<1>1. CASE \E c \in Clients : Query(c)
  BY <1>1, AdmitKeeps, HandlersUnchanged DEF Query
<1>2. CASE \E c \in Clients : Refuse(c)
  <2>1. UNCHANGED <<handlers, stored>>
    BY <1>2 DEF Refuse
  <2> QED BY <1>2, <2>1, RefuseKeeps, HandlersUnchanged
<1>3. ASSUME NEW c \in Clients, NEW o \in Ops, Receive(o, c) PROVE InductiveInv'
  <2>1. LimiterTypes' /\ \A d \in Clients : ClientInv(d)'
    BY <1>3, AdmitKeeps DEF Receive
  <2>2. HandlerInv'
    <3>1. PICK ask \in Asks :
            /\ asked' = [asked EXCEPT ![o] = ask]
            /\ pc' = [pc EXCEPT ![o] = IF ask.kind = "ingest" THEN "versions" ELSE "get"]
      BY <1>3 DEF Receive
    <3>2. /\ pc[o] = "out" /\ before' = [before EXCEPT ![o] = {q \in Ops : pc[q] = "done"}]
          /\ versions' = versions /\ existing' = existing /\ stored' = stored /\ reply' = reply
      BY <1>3 DEF Receive
    <3> QED BY <3>1, <3>2, ReceiveKeeps
  <2> QED BY <2>1, <2>2
<1>4. ASSUME NEW o \in Ops, Handle(o) PROVE InductiveInv'
  <2>1. UNCHANGED limiter
    BY <1>4 DEF Handle, IngestRead, IngestAdd, ReadExisting, DeleteExisting, AddDocument, Fail
  <2>2. HandlerInv'
    BY <1>4, IngestReadKeeps, IngestAddKeeps, ReadExistingKeeps, DeleteExistingKeeps,
       AddDocumentKeeps, FailKeeps DEF Handle
  <2> QED BY <2>1, <2>2, LimiterUnchanged
<1>5. CASE Tick
  <2>1. UNCHANGED <<handlers, stored>>
    BY <1>5 DEF Tick
  <2> QED BY <1>5, <2>1, TickKeeps, HandlersUnchanged
<1>6. CASE UNCHANGED vars
  BY <1>6, LimiterUnchanged, HandlersUnchanged DEF vars
<1> QED BY <1>1, <1>2, <1>3, <1>4, <1>5, <1>6 DEF Next

\* The limiter's bookkeeping, what the handlers have read and what is stored
\* agree with each other in every reachable state.
THEOREM InductiveInvariant == Spec => []InductiveInv
BY InitEstablishes, NextKeeps, PTL DEF Spec

\* Every variable keeps its type.
THEOREM TypesHold == Spec => []TypeOK
<1>1. InductiveInv => TypeOK
  BY DEF InductiveInv, HandlerInv, LimiterTypes, HandlerTypes, TypeOK
<1> QED BY <1>1, InductiveInvariant, PTL

\* Never more than rate_limit_requests of one identity in a window, whatever the
\* order of requests and time; and Retry-After is right to the second.
THEOREM LimitIsKept == Spec => []LimitHolds
<1>1. InductiveInv => LimitHolds
  <2> SUFFICES ASSUME InductiveInv, NEW c \in Clients
               PROVE  /\ Len(recent[c]) > MaxRequests => recent[c][1] >= Window
                      /\ told[c] = 0 => Admitted(c)
                      /\ told[c] >= TicksPerSecond => ~Admitted(c)
    BY DEF LimitHolds
  <2> DEFINE b == bucket[c]
             r == recent[c]
             t == told[c]
  <2>1. /\ b \in Seq(0 .. Window) /\ r \in Seq(0 .. Window) /\ t \in Nat \cup {Free}
        /\ ClientInv(c)
    BY DEF InductiveInv, LimiterTypes
  <2>2. /\ Len(b) \in Nat /\ Len(r) \in Nat
        /\ MaxRequests \in Nat \ {0} /\ Window \in Nat /\ TicksPerSecond \in Nat \ {0}
    BY <2>1, KnowledgeAssumption
  <2>3. /\ Len(b) <= MaxRequests
        /\ \A i \in 1 .. Len(r) - Len(b) : r[i] = Window
        /\ \A i, k \in 1 .. Len(b) : i <= k => b[i] >= b[k]
        /\ t # Free => /\ Len(b) = MaxRequests
                       /\ b[1] + t >= Window /\ b[1] + t < Window + TicksPerSecond
    BY <2>1 DEF ClientInv
  <2> DEFINE p == Popped(b)
  <2>4. /\ p \in 0 .. Len(b) /\ \A i \in 1 .. p : b[i] = Window
        /\ p < Len(b) => b[p + 1] < Window
        /\ Len(Pruned(b)) = Len(b) - p
    BY <2>1, PopLoop
  <2>5. Admitted(c) <=> Len(b) - p < MaxRequests
    BY <2>4 DEF Admitted
  <2>6. 1 \in 1 .. Len(b) => b[1] \in 0 .. Window
    <3> HIDE DEF b
    <3> QED BY <2>1, ElementOfSeq
  <2> HIDE DEF b, r, t, p
  <2>7. Len(r) > MaxRequests => r[1] >= Window
    <3>1. Len(r) > MaxRequests => 1 \in 1 .. Len(r) - Len(b)
      BY <2>2, <2>3
    <3> QED BY <2>2, <2>3, <3>1
  <2>8. t = 0 => Len(b) - p < MaxRequests
    <3> SUFFICES ASSUME t = 0 PROVE Len(b) - p < MaxRequests
      OBVIOUS
    <3>1. Len(b) = MaxRequests /\ b[1] + t >= Window /\ 1 \in 1 .. Len(b)
      BY <2>2, <2>3 DEF Free
    <3>2. b[1] = Window
      BY <2>2, <2>6, <3>1
    <3>3. p # 0
      BY <2>2, <2>4, <3>1, <3>2
    <3> QED BY <2>2, <2>4, <3>1, <3>3
  <2>9. t >= TicksPerSecond => ~(Len(b) - p < MaxRequests)
    <3> SUFFICES ASSUME t >= TicksPerSecond PROVE ~(Len(b) - p < MaxRequests)
      OBVIOUS
    <3>1. t \in Nat /\ Len(b) = MaxRequests /\ b[1] + t < Window + TicksPerSecond
          /\ 1 \in 1 .. Len(b)
      BY <2>1, <2>2, <2>3 DEF Free, t
    <3>2. b[1] < Window
      BY <2>2, <2>6, <3>1
    <3>3. p = 0
      <4>1. ASSUME p # 0 PROVE FALSE
        <5>1. 1 \in 1 .. p
          BY <2>2, <2>4, <4>1
        <5>2. b[1] = Window
          BY <2>4, <5>1
        <5> QED BY <2>2, <3>2, <5>2
      <4> QED BY <4>1
    <3> QED BY <2>2, <3>1, <3>3
  <2> QED BY <2>5, <2>7, <2>8, <2>9 DEF r, t
<1> QED BY <1>1, InductiveInvariant, PTL

\* However requests overlap, a later one's documents replace an earlier one's.
THEOREM LaterRequestsPrevail == Spec => []LaterRequestsWin
<1>1. InductiveInv => LaterRequestsWin
  <2> SUFFICES ASSUME InductiveInv PROVE LaterRequestsWin
    OBVIOUS
  <2> USE DEF InductiveInv, HandlerInv
  <2>1. ASSUME NEW o \in Ops, reply[o] = "ok", asked[o].kind \in {"upsert", "delete"}
        PROVE  \A d \in Of(Source(o)) : d.op \notin before[o]
    BY <2>1 DEF OrderInv
  <2>2. ASSUME NEW d \in stored, NEW e \in stored, d.source = e.source, d.op \in before[e.op]
        PROVE  d.version < e.version
    <3>1. RecordInv(e) /\ e.op \in Ops
      BY DEF HandlerTypes, Record
    <3> QED BY <2>2, <3>1 DEF RecordInv, OrderInv
  <2> QED BY <2>1, <2>2 DEF LaterRequestsWin
<1> QED BY <1>1, InductiveInvariant, PTL

\* A text that was reported stored is lost to a request that overlapped its own,
\* or came later, alone.
THEOREM LossesHaveCause == Spec => []LossHasCause
<1>1. InductiveInv => LossHasCause
  <2> SUFFICES ASSUME InductiveInv,
                      NEW o \in Ops, NEW i \in DOMAIN asked[o].documents,
                      reply[o] = "ok", asked[o].kind # "delete",
                      asked[o].documents[i].length > 0, Of(asked[o].documents[i].source) = {}
               PROVE  \E p \in Ops \ before[o] : MayEmpty(p, asked[o].documents[i].source)
    BY DEF LossHasCause
  <2> DEFINE source == asked[o].documents[i].source
  <2> USE DEF InductiveInv, HandlerInv
  <2>1. asked[o] \in Asks
    BY DEF RequestInv
  <2>2. source \in Sources
    BY <2>1, AskTypes
  <2>3. Told(o, source) /\ \A d \in stored : d.source # source
    BY DEF Told, Of
  <2> HIDE DEF source
  <2>4. \E p \in Ops : p \notin before[o] /\ MayEmpty(p, source)
    BY <2>2, <2>3 DEF LossInv
  <2> QED BY <2>4 DEF source
<1> QED BY <1>1, InductiveInvariant, PTL

\* The chunks of every stored document are all of its text, whatever its length
\* and the size asked for.
THEOREM ChunksAreComplete == Spec => []ChunksCoverTexts
<1>1. InductiveInv => ChunksCoverTexts
  <2> SUFFICES ASSUME InductiveInv, NEW d \in stored
               PROVE  /\ d.chunks[1].start = 0 /\ d.chunks[Len(d.chunks)].end = d.length
                      /\ \A i \in DOMAIN d.chunks :
                            /\ d.chunks[i].end - d.chunks[i].start \in 1 .. asked[d.op].size
                            /\ i > 1 => /\ d.chunks[i].start < d.chunks[i - 1].end
                                        /\ d.chunks[i].end > d.chunks[i - 1].end
    BY DEF ChunksCoverTexts
  <2> DEFINE chunks == d.chunks
             size == asked[d.op].size
  <2>1. RecordInv(d) /\ d.op \in Ops /\ d.length \in Nat \ {0}
    BY DEF InductiveInv, HandlerInv, HandlerTypes, Record
  <2>2. asked[d.op] \in Asks /\ chunks = Chunks(d.length, size)
    BY <2>1 DEF InductiveInv, HandlerInv, RecordInv, RequestInv
  <2>3. size \in Nat /\ size > MaxOverlap
    BY <2>2, AskTypes
  <2>4. Covers(chunks, 0, d.length, size)
    BY <2>1, <2>2, <2>3, ChunksCover
  <2> HIDE DEF chunks, size
  <2>5. DOMAIN chunks = 1 .. Len(chunks) /\ Len(chunks) \in Nat
    BY <2>4 DEF Covers
  <2>6. ASSUME NEW i \in DOMAIN chunks, i > 1
        PROVE  chunks[i].start < chunks[i - 1].end /\ chunks[i].end > chunks[i - 1].end
    <3>1. i - 1 \in 1 .. Len(chunks) - 1 /\ (i - 1) + 1 = i
      BY <2>5, <2>6
    <3> QED BY <2>4, <3>1 DEF Covers
  <2>7. /\ chunks[1].start = 0 /\ chunks[Len(chunks)].end = d.length
        /\ \A i \in 1 .. Len(chunks) : chunks[i].end - chunks[i].start \in 1 .. size
    BY <2>4 DEF Covers
  <2> QED BY <2>5, <2>6, <2>7 DEF chunks, size
<1> QED BY <1>1, InductiveInvariant, PTL
=============================================================================
