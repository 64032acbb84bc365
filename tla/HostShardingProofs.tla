--------------------------- MODULE HostShardingProofs ---------------------------
(***************************************************************************)
(* What the operators of HostSharding (operator/src/resolvers/             *)
(* host-sharding.ts) compute, for any inventory and any size of a shard:   *)
(* shardHosts divides the hosts among the shards, and limitForHostNames    *)
(* finds them again.                                                       *)
(***************************************************************************)
EXTENDS HostSharding, FiniteSetTheorems, WellFoundedInduction, SequenceTheorems, TLAPS

-----------------------------------------------------------------------------
(***************************************************************************)
(* HostSharding: how hosts are flattened, kept once and cut into chunks,   *)
(* for any inventory and any size of a shard.  Induction is by             *)
(* well-foundedness: a set of numbers that is not empty has a least        *)
(* member.                                                                 *)
(***************************************************************************)

(* A set of naturals that is not empty has a least member.                 *)
LEMMA LeastNatural ==
  ASSUME NEW S \in SUBSET Nat, S # {}
  PROVE  \E m \in S : \A n \in S : m <= n
<1> DEFINE T == {U \in FiniteSubsetsOf(Nat) : \E n \in S : U = 1..n}
<1>1. IsWellFoundedOn(StrictSubsetOrdering(Nat), FiniteSubsetsOf(Nat))
  BY FS_StrictSubsetOrderingWellFounded
<1>2. \A n \in S : 1..n \in FiniteSubsetsOf(Nat)
  <2>1. TAKE n \in S
  <2>2. IsFiniteSet(1..n) BY FS_Interval
  <2> QED BY <2>2 DEF FiniteSubsetsOf
<1>3. T # {} BY <1>2
<1>4. PICK U \in T : \A V \in T : ~ (<<V, U>> \in StrictSubsetOrdering(Nat))
  <2>1. T \subseteq FiniteSubsetsOf(Nat) OBVIOUS
  <2> HIDE DEF T
  <2> QED BY <1>1, <1>3, <2>1, WFMin
<1>5. PICK m \in S : U = 1..m OBVIOUS
<1>6. \A n \in S : m <= n
  <2>1. SUFFICES ASSUME NEW n \in S, n < m PROVE FALSE OBVIOUS
  <2>2. 1..n \in T BY <1>2
  <2>3. 1..n \subseteq 1..m /\ m \notin 1..n /\ m \in 1..m BY <2>1
  <2>4. 1..n \in SUBSET Nat /\ 1..m \in SUBSET Nat OBVIOUS
  <2>5. <<1..n, 1..m>> \in StrictSubsetOrdering(Nat) BY <2>3, <2>4 DEF StrictSubsetOrdering
  <2> QED BY <1>4, <1>5, <2>2, <2>5
<1> QED BY <1>6

(* Induction over the naturals, for a set rather than a predicate.         *)
LEMMA NatSets ==
  ASSUME NEW S \in SUBSET Nat, 0 \in S, \A n \in S : n + 1 \in S
  PROVE  S = Nat
<1>1. SUFFICES ASSUME Nat \ S # {} PROVE FALSE OBVIOUS
<1>2. PICK m \in Nat \ S : \A n \in Nat \ S : m <= n BY <1>1, LeastNatural
<1>3. m # 0 /\ m - 1 \in Nat /\ m - 1 \in S BY <1>2
<1>4. (m - 1) + 1 \in S BY <1>3
<1> QED BY <1>2, <1>4

(* What FlattenSeq computes of the first i of s.                           *)
FlatStep(s, f, i) == IF i = 1 THEN s[i] ELSE f[i - 1] \o s[i]
Flattens(T, s, k, f) == f \in [1..k -> Seq(T)] /\ \A i \in 1..k : f[i] = FlatStep(s, f, i)

(* The recursive function behind FlattenSeq, unfolded.                     *)
LEMMA FlattenUnfolds ==
  ASSUME NEW T, NEW s \in Seq(Seq(T)), Len(s) # 0
  PROVE  \E f : Flattens(T, s, Len(s), f) /\ FlattenSeq(s) = f[Len(s)]
<1> DEFINE n == Len(s)
<1> DEFINE S == {k \in Nat : k <= n => \E f : Flattens(T, s, k, f)}
<1>0. n \in Nat /\ \A i \in 1..n : s[i] \in Seq(T)  OBVIOUS
<1>1. 0 \in S
  <2>1. [i \in 1..0 |-> <<>>] \in [1..0 -> Seq(T)] OBVIOUS
  <2>2. Flattens(T, s, 0, [i \in 1..0 |-> <<>>]) BY <2>1 DEF Flattens
  <2> QED BY <2>2
<1>2. ASSUME NEW k \in S PROVE k + 1 \in S
  <2>0. k \in Nat /\ k + 1 \in Nat OBVIOUS
  <2>1. ASSUME k + 1 <= n PROVE \E f : Flattens(T, s, k+1, f)
    <3>1. k <= n BY <2>0, <2>1, <1>0
    <3>2. PICK f : Flattens(T, s, k, f) BY <3>1
    <3> DEFINE g == [i \in 1..(k+1) |-> IF i \in 1..k THEN f[i] ELSE FlatStep(s, f, i)]
    <3>3. FlatStep(s, f, k + 1) \in Seq(T)
      <4>1. CASE k = 0 BY <4>1, <2>1, <1>0 DEF FlatStep
      <4>2. CASE k # 0
        <5>1. f[k] \in Seq(T) /\ s[k + 1] \in Seq(T) BY <4>2, <2>0, <3>2, <2>1, <1>0 DEF Flattens
        <5>2. f[k] \o s[k + 1] \in Seq(T) BY <5>1
        <5> QED BY <5>2, <4>2, <2>0 DEF FlatStep
      <4> QED BY <4>1, <4>2
    <3>4. g \in [1..(k+1) -> Seq(T)] BY <3>3, <3>2, <2>0 DEF Flattens
    <3>5. ASSUME NEW i \in 1..(k+1) PROVE g[i] = FlatStep(s, g, i)
      <4>1. i # 1 => i - 1 \in 1..k BY <3>5, <2>0
      <4>2. FlatStep(s, g, i) = FlatStep(s, f, i) BY <4>1 DEF FlatStep
      <4>3. i \in 1..k => f[i] = FlatStep(s, f, i) BY <3>2 DEF Flattens
      <4> QED BY <4>2, <4>3
    <3>6. Flattens(T, s, k + 1, g) BY <3>4, <3>5 DEF Flattens
    <3> QED BY <3>6
  <2> QED BY <2>0, <2>1
<1>3. n \in S 
  <2>1. S \in SUBSET Nat OBVIOUS
  <2> HIDE DEF S
  <2>2. S = Nat  BY <1>1, <1>2, <2>1, NatSets
  <2> QED BY <2>2, <1>0
<1>4. PICK f : Flattens(T, s, n, f) BY <1>3, <1>0
<1> DEFINE F == CHOOSE h : h = [i \in 1..n |-> IF i = 1 THEN s[i] ELSE h[i-1] \o s[i]]
<1>5. F = [i \in 1..n |-> IF i = 1 THEN s[i] ELSE F[i-1] \o s[i]]
  <2>1. f = [i \in 1..n |-> IF i = 1 THEN s[i] ELSE f[i-1] \o s[i]]
     BY <1>4 DEF Flattens, FlatStep
  <2> QED BY <2>1
<1>6. FlattenSeq(s) = F[n] BY DEF FlattenSeq
<1>7. \A i \in 1..n : F[i] = FlatStep(s, F, i)
  <2> HIDE DEF F
  <2> QED BY <1>5 DEF FlatStep
<1> HIDE DEF F
<1>8. F \in [1..n -> Seq(T)]
  <2> DEFINE R == {k \in Nat : k \in 1..n => F[k] \in Seq(T)}
  <2>1. 0 \in R OBVIOUS
  <2>2. ASSUME NEW k \in R PROVE k + 1 \in R
    <3>1. SUFFICES ASSUME k + 1 \in 1..n PROVE F[k + 1] \in Seq(T) OBVIOUS
    <3>2. s[k + 1] \in Seq(T) /\ F[k + 1] = FlatStep(s, F, k + 1) BY <3>1, <1>0, <1>7
    <3>3. CASE k = 0 BY <3>2, <3>3 DEF FlatStep
    <3>4. CASE k # 0
      <4>1. F[k] \in Seq(T) BY <3>4, <3>1, <1>0
      <4>2. F[k] \o s[k + 1] \in Seq(T) BY <4>1, <3>2
      <4> QED BY <4>2, <3>2, <3>4 DEF FlatStep
    <3> QED BY <3>3, <3>4
  <2>3. R \in SUBSET Nat OBVIOUS
  <2> HIDE DEF R
  <2>4. R = Nat BY <2>1, <2>2, <2>3, NatSets
  <2>5. \A k \in 1..n : F[k] \in Seq(T) BY <2>4 DEF R
  <2> QED BY <2>5, <1>5
<1>9. Flattens(T, s, n, F) BY <1>7, <1>8 DEF Flattens
<1> QED BY <1>6, <1>9

(* Flattening a sequence of sequences over T gives a sequence over T.      *)
LEMMA FlattenType ==
  ASSUME NEW T, NEW s \in Seq(Seq(T))
  PROVE  FlattenSeq(s) \in Seq(T)
<1>1. CASE Len(s) = 0
  <2>1. s = <<>> BY <1>1
  <2>2. FlattenSeq(s) = s BY <1>1 DEF FlattenSeq
  <2>3. <<>> \in Seq(T) OBVIOUS
  <2> QED BY <2>1, <2>2, <2>3
<1>2. CASE Len(s) # 0
  <2>1. PICK f : Flattens(T, s, Len(s), f) /\ FlattenSeq(s) = f[Len(s)] BY <1>2, FlattenUnfolds
  <2>2. Len(s) \in 1..Len(s) BY <1>2
  <2> QED BY <2>1, <2>2 DEF Flattens
<1> QED BY <1>1, <1>2

(* The i-th host is the first with its key.                                *)
FirstOne(hosts, i) == \A j \in 1..(i - 1) : hosts[j].key # hosts[i].key

(* hosts[1..k] without repetitions is d.                                   *)
DistinctUpTo(T, hosts, k, d) ==
  /\ d \in Seq(T)
  /\ \A a \in DOMAIN d : \E j \in 1..k : FirstOne(hosts, j) /\ d[a] = hosts[j]
  /\ \A j \in 1..k : FirstOne(hosts, j) => \E a \in DOMAIN d : d[a] = hosts[j]
  /\ \A a, b \in DOMAIN d : d[a].key = d[b].key => a = b

(* DistinctHosts takes a host if it is the first with its key.             *)
LEMMA DistinctStep ==
  ASSUME NEW T, NEW hosts \in Seq(T), NEW k \in Nat, k + 1 \in 1..Len(hosts),
         NEW d, DistinctUpTo(T, hosts, k, d),
         NEW more, more = (IF FirstOne(hosts, k + 1) THEN <<hosts[k + 1]>> ELSE <<>>)
  PROVE  DistinctUpTo(T, hosts, k + 1, d \o more)
<1>0. d \in Seq(T) /\ hosts[k + 1] \in T BY DEF DistinctUpTo
<1>1. CASE ~FirstOne(hosts, k + 1)
  <2>1. d \o more = d BY <1>0, <1>1
  <2>2. \A j \in 1..(k + 1) : j \in 1..k \/ j = k + 1 OBVIOUS
  <2>3. \A j \in 1..k : j \in 1..(k + 1) OBVIOUS
  <2>4. DistinctUpTo(T, hosts, k + 1, d) BY <2>2, <2>3, <1>1 DEF DistinctUpTo
  <2> QED BY <2>1, <2>4
<1>2. CASE FirstOne(hosts, k + 1)
  <2> DEFINE e == Append(d, hosts[k + 1])
  <2>1. d \o more = e BY <1>0, <1>2
  <2>2. /\ e \in Seq(T) /\ DOMAIN e = 1..(Len(d) + 1) /\ DOMAIN d = 1..Len(d) /\ Len(d) \in Nat
        /\ e[Len(d) + 1] = hosts[k + 1] /\ \A a \in DOMAIN d : e[a] = d[a]
    BY <1>0
  <2>3. \A a \in DOMAIN e : a \in DOMAIN d \/ a = Len(d) + 1 BY <2>2
  <2> HIDE DEF e
  <2>4. ASSUME NEW a \in DOMAIN e
        PROVE  \E j \in 1..(k + 1) : FirstOne(hosts, j) /\ e[a] = hosts[j]
    <3>1. CASE a = Len(d) + 1 BY <3>1, <1>2, <2>2
    <3>2. CASE a \in DOMAIN d
      <4>1. PICK j \in 1..k : FirstOne(hosts, j) /\ d[a] = hosts[j] BY <3>2 DEF DistinctUpTo
      <4> QED BY <4>1, <3>2, <2>2
    <3> QED BY <3>1, <3>2, <2>3
  <2>5. ASSUME NEW j \in 1..(k + 1), FirstOne(hosts, j)
        PROVE  \E a \in DOMAIN e : e[a] = hosts[j]
    <3>1. CASE j = k + 1 BY <3>1, <2>2
    <3>2. CASE j \in 1..k
      <4>1. PICK a \in DOMAIN d : d[a] = hosts[j] BY <3>2, <2>5 DEF DistinctUpTo
      <4>2. a \in DOMAIN e BY <2>2
      <4> QED BY <4>1, <4>2, <2>2
    <3> QED BY <3>1, <3>2
  <2>6. \A a \in DOMAIN d : d[a].key # hosts[k + 1].key
    <3>1. TAKE a \in DOMAIN d
    <3>2. PICK j \in 1..k : d[a] = hosts[j] BY DEF DistinctUpTo
    <3>3. j \in 1..((k + 1) - 1) OBVIOUS
    <3> QED BY <3>2, <3>3, <1>2 DEF FirstOne
  <2>7. \A a, b \in DOMAIN e : e[a].key = e[b].key => a = b
    <3>1. \A a, b \in DOMAIN d : d[a].key = d[b].key => a = b BY DEF DistinctUpTo
    <3> QED BY <3>1, <2>2, <2>3, <2>6
  <2>8. DistinctUpTo(T, hosts, k + 1, e) BY <2>2, <2>4, <2>5, <2>7 DEF DistinctUpTo
  <2> QED BY <2>1, <2>8
<1> QED BY <1>1, <1>2

(* So the first k hosts without repetitions are there for each k.          *)
LEMMA DistinctHostsUpTo ==
  ASSUME NEW T, NEW hosts \in Seq(T)
  PROVE  DistinctUpTo(T, hosts, Len(hosts), DistinctHosts(hosts))
<1> DEFINE s == [i \in DOMAIN hosts |-> IF FirstOne(hosts, i) THEN <<hosts[i]>> ELSE <<>>]
<1> DEFINE n == Len(hosts)
<1>0. n \in Nat /\ DOMAIN hosts = 1..n /\ \A i \in 1..n : hosts[i] \in T OBVIOUS
<1>1. DistinctHosts(hosts) = FlattenSeq(s) BY DEF DistinctHosts, FirstOne
<1>2. s \in Seq(Seq(T)) /\ Len(s) = n
  <2>1. \A i \in 1..n : <<hosts[i]>> \in Seq(T) /\ <<>> \in Seq(T) BY <1>0
  <2>2. s \in [1..n -> Seq(T)] BY <2>1, <1>0
  <2> QED BY <2>2, <1>0
<1>3. CASE n = 0
  <2>1. s = <<>> /\ hosts = <<>> BY <1>2, <1>3
  <2>2. FlattenSeq(s) = <<>> BY <2>1 DEF FlattenSeq
  <2>3. DistinctUpTo(T, hosts, 0, <<>>) BY DEF DistinctUpTo
  <2> QED BY <2>2, <2>3, <1>1, <1>3
<1>4. CASE n # 0
  <2>1. PICK f : Flattens(T, s, n, f) /\ FlattenSeq(s) = f[n] BY <1>2, <1>4, FlattenUnfolds
  <2> DEFINE R == {k \in Nat : k \in 1..n => DistinctUpTo(T, hosts, k, f[k])}
  <2>2. 0 \in R OBVIOUS
  <2>3. ASSUME NEW k \in R PROVE k + 1 \in R
    <3>1. SUFFICES ASSUME k + 1 \in 1..n PROVE DistinctUpTo(T, hosts, k + 1, f[k + 1]) OBVIOUS
    <3> DEFINE more == IF FirstOne(hosts, k + 1) THEN <<hosts[k + 1]>> ELSE <<>>
    <3>2. s[k + 1] = more /\ f[k + 1] = FlatStep(s, f, k + 1) BY <3>1, <1>0, <2>1 DEF Flattens
    <3>3. more \in Seq(T) BY <3>1, <1>0
    <3>4. CASE k = 0
      <4>1. DistinctUpTo(T, hosts, 0, <<>>) BY DEF DistinctUpTo
      <4>2. DistinctUpTo(T, hosts, k + 1, <<>> \o more)
        <5> HIDE DEF more
        <5> QED BY <4>1, <3>1, <3>4, DistinctStep DEF more
      <4>3. <<>> \o more = more BY <3>3
      <4>4. f[k + 1] = more BY <3>2, <3>4 DEF FlatStep
      <4> QED BY <4>2, <4>3, <4>4
    <3>5. CASE k # 0
      <4>1. k \in Nat /\ DistinctUpTo(T, hosts, k, f[k]) BY <3>5, <3>1
      <4>2. DistinctUpTo(T, hosts, k + 1, f[k] \o more)
        <5> HIDE DEF more
        <5> QED BY <4>1, <3>1, DistinctStep DEF more
      <4>3. k + 1 # 1 /\ (k + 1) - 1 = k BY <3>5, <4>1
      <4>4. FlatStep(s, f, k + 1) = f[k] \o s[k + 1]
        <5> HIDE DEF s
        <5> QED BY <4>3 DEF FlatStep
      <4>5. f[k + 1] = f[k] \o more
        <5> HIDE DEF s, more
        <5> QED BY <4>4, <3>2
      <4> QED BY <4>2, <4>5
    <3> QED BY <3>4, <3>5
  <2>4. R \in SUBSET Nat OBVIOUS
  <2> HIDE DEF R
  <2>5. R = Nat BY <2>2, <2>3, <2>4, NatSets
  <2>6. DistinctUpTo(T, hosts, n, f[n]) BY <2>5, <1>0, <1>4 DEF R
  <2> QED BY <2>6, <2>1, <1>1
<1> QED BY <1>3, <1>4

(* DistinctHosts keeps the hosts and no key twice.                         *)
LEMMA DistinctHostsCorrect ==
  ASSUME NEW T, NEW hosts \in Seq(T)
  PROVE  /\ DistinctHosts(hosts) \in Seq(T)
         /\ ToSet(DistinctHosts(hosts)) \subseteq ToSet(hosts)
         /\ \A h \in ToSet(hosts) : \E g \in ToSet(DistinctHosts(hosts)) : g.key = h.key
         /\ \A a, b \in DOMAIN DistinctHosts(hosts) :
               DistinctHosts(hosts)[a].key = DistinctHosts(hosts)[b].key => a = b
<1> DEFINE d == DistinctHosts(hosts)
<1>0. DistinctUpTo(T, hosts, Len(hosts), d) BY DistinctHostsUpTo
<1>1. Len(hosts) \in Nat /\ DOMAIN hosts = 1..Len(hosts) OBVIOUS
<1> HIDE DEF d
<1>2. ToSet(d) \subseteq ToSet(hosts) BY <1>0, <1>1 DEF DistinctUpTo, ToSet
<1>3. ASSUME NEW h \in ToSet(hosts) PROVE \E g \in ToSet(d) : g.key = h.key
  <2>1. PICK i \in 1..Len(hosts) : h = hosts[i] BY <1>1 DEF ToSet
  <2> DEFINE S == {j \in 1..Len(hosts) : hosts[j].key = h.key}
  <2>2. S \in SUBSET Nat /\ S # {} BY <2>1
  <2> HIDE DEF S
  <2>3. PICK m \in S : \A n \in S : m <= n BY <2>2, LeastNatural
  <2>4. m \in 1..Len(hosts) /\ hosts[m].key = h.key BY DEF S
  <2>5. FirstOne(hosts, m)
    <3>1. SUFFICES ASSUME NEW j \in 1..(m - 1), hosts[j].key = hosts[m].key PROVE FALSE BY DEF FirstOne
    <3>2. j \in S BY <3>1, <2>4, <1>1 DEF S
    <3>3. m <= j BY <3>2, <2>3
    <3> QED BY <3>3, <2>4, <1>1
  <2>6. PICK a \in DOMAIN d : d[a] = hosts[m] BY <2>4, <2>5, <1>0 DEF DistinctUpTo
  <2> QED BY <2>4, <2>6 DEF ToSet
<1>4. d \in Seq(T) /\ \A a, b \in DOMAIN d : d[a].key = d[b].key => a = b BY <1>0 DEF DistinctUpTo
<1> QED BY <1>2, <1>3, <1>4 DEF d

LEMMA Times ==
  ASSUME NEW m \in Nat \ {0}, NEW a \in Int, NEW b \in Int, a < b
  PROVE  a * m + m <= b * m
<1>1. PICK c \in Nat : b = a + 1 + c
  <2>1. b - a - 1 \in Nat /\ b = a + 1 + (b - a - 1) OBVIOUS
  <2> QED BY <2>1
<1>2. b * m = a * m + m + c * m BY <1>1
<1>3. c * m >= 0 BY <1>1
<1>4. a * m \in Int /\ b * m \in Int /\ c * m \in Int BY <1>1
<1> QED BY <1>2, <1>3, <1>4

(* What the division in NumShards returns.                                 *)
LEMMA Quotient ==
  ASSUME NEW m \in Nat \ {0}, NEW a \in Nat
  PROVE  /\ a \div m \in Nat
         /\ (a \div m) * m <= a /\ a < (a \div m) * m + m
OBVIOUS

(* The positions of the k-th chunk of n hosts.                             *)
Positions(n, m, k) == ((k - 1) * m + 1)..(IF k * m < n THEN k * m ELSE n)

(* Math.ceil: enough chunks for n hosts, and the last one is not empty.    *)
LEMMA NumShardsCorrect ==
  ASSUME NEW n \in Nat, NEW m \in Nat \ {0}
  PROVE  /\ NumShards(n, m) \in Nat
         /\ n <= NumShards(n, m) * m
         /\ \A k \in 1..NumShards(n, m) : (k - 1) * m < n
<1> DEFINE q == NumShards(n, m)
<1>1. q \in Nat /\ q * m <= n + m - 1 /\ n + m - 1 < q * m + m
  <2>1. n + m - 1 \in Nat OBVIOUS
  <2> QED BY <2>1, Quotient DEF NumShards
<1> HIDE DEF q
<1>2. q * m \in Int BY <1>1
<1>3. n <= q * m BY <1>1, <1>2
<1>4. ASSUME NEW k \in 1..q PROVE (k - 1) * m < n
  <2>1. (k - 1) * m + m <= q * m BY <1>1, Times
  <2>2. (k - 1) * m \in Int BY <1>1
  <2> QED BY <2>1, <2>2, <1>1, <1>2
<1> QED BY <1>1, <1>3, <1>4 DEF q

(* Each position is in one chunk, no chunk is empty.                       *)
LEMMA PositionsPartition ==
  ASSUME NEW n \in Nat, NEW m \in Nat \ {0}
  PROVE  /\ \A k \in 1..NumShards(n, m) :
              (k - 1) * m + 1 \in Positions(n, m, k) /\ Positions(n, m, k) \subseteq 1..n
         /\ \A i \in 1..n : \E k \in 1..NumShards(n, m) : i \in Positions(n, m, k)
         /\ \A k, l \in 1..NumShards(n, m) :
              Positions(n, m, k) \cap Positions(n, m, l) # {} => k = l
<1> DEFINE q == NumShards(n, m)
<1>1. q \in Nat /\ n <= q * m /\ \A k \in 1..q : (k - 1) * m < n BY NumShardsCorrect
<1> HIDE DEF q
<1>2. ASSUME NEW k \in 1..q
      PROVE  /\ k \in Int /\ k * m \in Int /\ (k - 1) * m \in Nat /\ k * m = (k - 1) * m + m
             /\ (k - 1) * m < n
  <2>1. k \in Int /\ k - 1 \in Nat BY <1>1
  <2>2. (k - 1) * m \in Nat BY <2>1
  <2>3. k * m = (k - 1) * m + m BY <2>1
  <2> QED BY <2>1, <2>2, <2>3, <1>1
<1>3. ASSUME NEW k \in 1..q
      PROVE  (k - 1) * m + 1 \in Positions(n, m, k) /\ Positions(n, m, k) \subseteq 1..n
  BY <1>2 DEF Positions
<1>4. ASSUME NEW i \in 1..n PROVE \E k \in 1..q : i \in Positions(n, m, k)
  <2> DEFINE c == (i - 1) \div m
  <2>1. c \in Nat /\ c * m <= i - 1 /\ i - 1 < c * m + m
    <3>1. i - 1 \in Nat OBVIOUS
    <3> QED BY <3>1, Quotient
  <2> HIDE DEF c
  <2>2. c * m \in Int /\ q * m \in Int BY <2>1, <1>1
  <2>3. c < q
    <3>1. SUFFICES ASSUME q <= c PROVE FALSE BY <2>1, <1>1
    <3>2. q * m <= c * m
      <4>1. CASE q = c BY <4>1, <2>2
      <4>2. CASE q < c
        <5>1. q * m + m <= c * m BY <4>2, <2>1, <1>1, Times
        <5> QED BY <5>1, <2>2
      <4> QED BY <4>1, <4>2, <3>1, <2>1, <1>1
    <3> QED BY <3>2, <2>1, <2>2, <1>1
  <2>4. c + 1 \in 1..q BY <2>3, <2>1, <1>1
  <2>5. (c + 1) * m = c * m + m /\ (c + 1) - 1 = c BY <2>1
  <2>6. i \in Positions(n, m, c + 1) BY <2>1, <2>2, <2>5 DEF Positions
  <2> QED BY <2>4, <2>6
<1>5. ASSUME NEW k \in 1..q, NEW l \in 1..q, k < l
      PROVE  Positions(n, m, k) \cap Positions(n, m, l) = {}
  <2>1. k * m <= (l - 1) * m
    <3>1. CASE k = l - 1 BY <3>1
    <3>2. CASE k < l - 1
      <4>1. k * m + m <= (l - 1) * m
        <5>1. l - 1 \in Int BY <1>2
        <5> QED BY <3>2, <1>2, <5>1, Times
      <4> QED BY <4>1, <1>2
    <3> QED BY <3>1, <3>2, <1>5, <1>2
  <2> QED BY <2>1, <1>2 DEF Positions
<1>6. ASSUME NEW k \in 1..q, NEW l \in 1..q, Positions(n, m, k) \cap Positions(n, m, l) # {}
      PROVE  k = l
  <2>1. ~(k < l) /\ ~(l < k) BY <1>6, <1>5
  <2> QED BY <2>1, <1>2
<1> QED BY <1>3, <1>4, <1>6 DEF q

(* The hosts at the positions of chunk k.                                  *)
Part(d, m, k) == {d[i] : i \in Positions(Len(d), m, k)}

(* A chunk holds the hosts at its positions, no more than fit.             *)
LEMMA ChunkCorrect ==
  ASSUME NEW T, NEW d \in Seq(T), NEW m \in Nat \ {0}, NEW k \in 1..NumShards(Len(d), m)
  PROVE  /\ Chunk(d, m, k) \in Seq(T) /\ Len(Chunk(d, m, k)) <= m
         /\ ToSet(Chunk(d, m, k)) = Part(d, m, k)
<1> DEFINE n == Len(d)
<1> DEFINE lo == (k - 1) * m + 1
<1> DEFINE hi == IF k * m < n THEN k * m ELSE n
<1> DEFINE c == Chunk(d, m, k)
<1>1. n \in Nat /\ DOMAIN d = 1..n OBVIOUS
<1>2. NumShards(n, m) \in Nat /\ (k - 1) * m < n BY <1>1, NumShardsCorrect
<1>3. k \in Int /\ k - 1 \in Nat BY <1>2
<1>4. (k - 1) * m \in Nat /\ k * m = (k - 1) * m + m BY <1>3
<1>5. lo \in Nat /\ hi \in Nat /\ 1 <= lo /\ lo <= hi /\ hi <= n /\ hi - lo + 1 <= m
  BY <1>1, <1>2, <1>4
<1>6. c = SubSeq(d, lo, hi) BY DEF Chunk
<1>7. Positions(n, m, k) = lo..hi BY DEF Positions
<1> HIDE DEF lo, hi, c
<1>8. /\ c \in Seq(T) /\ Len(c) = hi - lo + 1
      /\ \A j \in 1..(hi - lo + 1) : c[j] = d[lo + j - 1]
  <2>1. \A j \in lo..hi : d[j] \in T BY <1>1, <1>5
  <2> QED BY <1>5, <1>6, <2>1, <1>1, SubSeqProperties
<1>9. DOMAIN c = 1..(hi - lo + 1) BY <1>8
<1>10. ToSet(c) = {d[i] : i \in lo..hi}
  <2>1. ASSUME NEW j \in 1..(hi - lo + 1) PROVE c[j] \in {d[i] : i \in lo..hi}
    <3>1. lo + j - 1 \in lo..hi BY <1>5
    <3> QED BY <3>1, <1>8
  <2>2. ASSUME NEW i \in lo..hi PROVE d[i] \in ToSet(c)
    <3>1. i - lo + 1 \in 1..(hi - lo + 1) /\ lo + (i - lo + 1) - 1 = i BY <1>5
    <3>2. c[i - lo + 1] = d[i] BY <3>1, <1>8
    <3> QED BY <3>1, <3>2, <1>9 DEF ToSet
  <2> QED BY <2>1, <2>2, <1>9 DEF ToSet
<1> QED BY <1>5, <1>7, <1>8, <1>10 DEF Part, c

(* A sequence of n members has no more than n different ones.              *)
LEMMA ImageSize ==
  ASSUME NEW n \in Nat, NEW f, DOMAIN f = 1..n
  PROVE  IsFiniteSet({f[i] : i \in 1..n}) /\ Cardinality({f[i] : i \in 1..n}) <= n
<1> DEFINE S == {f[i] : i \in 1..n}
<1> DEFINE g == [i \in 1..n |-> f[i]]
<1>1. IsFiniteSet(1..n) /\ Cardinality(1..n) = n
  <2>1. 1 \in Int /\ n \in Int OBVIOUS
  <2> QED BY <2>1, FS_Interval
<1>2. g \in Surjection(1..n, S) BY DEF Surjection
<1> QED BY <1>1, <1>2, FS_Surjection

(* s are the shards of the hosts d, each of at most m.                     *)
ShardsOf(T, d, m, s) ==
  /\ DOMAIN s = 1..NumShards(Len(d), m) /\ Len(s) = NumShards(Len(d), m)
  /\ s \in Seq([hostNames: Seq({h.name : h \in T}), limit: SUBSET {h.inv : h \in T}])
  /\ \A k \in DOMAIN s :
       /\ ToSet(s[k].hostNames) = {h.name : h \in Part(d, m, k)}
       /\ s[k].limit = {h.inv : h \in Part(d, m, k)}
       /\ IsFiniteSet(s[k].limit) /\ Cardinality(s[k].limit) <= m

(* shardHosts: shard k names and limits to the hosts of its chunk.         *)
LEMMA ShardHostsCorrect ==
  ASSUME NEW T, NEW g \in Seq(Seq(T)), NEW m \in Nat \ {0},
         NEW d, d = DistinctHosts(Flatten(g)), NEW s, s = ShardHosts(g, m)
  PROVE  ShardsOf(T, d, m, s)
<1> DEFINE N == NumShards(Len(d), m)
<1> DEFINE c(k) == Chunk(d, m, k)
<1> DEFINE record(chunk) == [hostNames |-> [i \in DOMAIN chunk |-> chunk[i].name],
                            limit |-> {InventoryHostname(chunk[i]) : i \in DOMAIN chunk}]
<1>1. d \in Seq(T)
  <2>1. Flatten(g) \in Seq(T) BY FlattenType DEF Flatten
  <2> QED BY <2>1, DistinctHostsCorrect
<1>2. Len(d) \in Nat /\ N \in Nat
  <2>1. Len(d) \in Nat BY <1>1
  <2> QED BY <2>1, NumShardsCorrect
<1>3. s = [k \in 1..N |-> record(c(k))] BY DEF ShardHosts
<1>4. ASSUME NEW k \in 1..N
      PROVE  /\ record(c(k)) \in [hostNames: Seq({h.name : h \in T}), limit: SUBSET {h.inv : h \in T}]
             /\ ToSet(record(c(k)).hostNames) = {h.name : h \in Part(d, m, k)}
             /\ record(c(k)).limit = {h.inv : h \in Part(d, m, k)}
             /\ IsFiniteSet(record(c(k)).limit) /\ Cardinality(record(c(k)).limit) <= m
  <2>1. c(k) \in Seq(T) /\ Len(c(k)) <= m /\ ToSet(c(k)) = Part(d, m, k)
    BY <1>1, ChunkCorrect
  <2>2. PICK e : e = c(k) OBVIOUS
  <2>3. Len(e) \in Nat /\ DOMAIN e = 1..Len(e) /\ \A i \in 1..Len(e) : e[i] \in T BY <2>1, <2>2
  <2> DEFINE names == [i \in 1..Len(e) |-> e[i].name]
  <2> DEFINE limit == {e[i].inv : i \in 1..Len(e)}
  <2>4. record(c(k)) = [hostNames |-> names, limit |-> limit]
    BY <2>2, <2>3 DEF InventoryHostname
  <2>5. names \in Seq({h.name : h \in T})
    <3>1. names \in [1..Len(e) -> {h.name : h \in T}] BY <2>3
    <3> QED BY <3>1, <2>3
  <2>6. limit \in SUBSET {h.inv : h \in T} BY <2>3
  <2>0. PICK P : P = Part(d, m, k) OBVIOUS
  <2>p. P = {e[i] : i \in 1..Len(e)} BY <2>0, <2>1, <2>2, <2>3 DEF ToSet
  <2>7. ToSet(names) = {h.name : h \in P} BY <2>p DEF ToSet
  <2>8. limit = {h.inv : h \in P} BY <2>p
  <2>9. IsFiniteSet(limit) /\ Cardinality(limit) <= m
    <3> DEFINE invs == [i \in 1..Len(e) |-> e[i].inv]
    <3>1. IsFiniteSet({invs[i] : i \in 1..Len(e)}) /\ Cardinality({invs[i] : i \in 1..Len(e)}) <= Len(e)
      BY <2>3, ImageSize
    <3>2. limit = {invs[i] : i \in 1..Len(e)} OBVIOUS
    <3>3. Cardinality(limit) \in Nat BY <3>1, <3>2, FS_CardinalityType
    <3> HIDE DEF invs, limit
    <3> QED BY <3>1, <3>2, <3>3, <2>1, <2>2, <2>3
  <2> HIDE DEF names, limit
  <2>10. PICK r : r = record(c(k)) OBVIOUS
  <2>11. r = [hostNames |-> names, limit |-> limit] BY <2>4, <2>10
  <2>12. r \in [hostNames: Seq({h.name : h \in T}), limit: SUBSET {h.inv : h \in T}]
    BY <2>5, <2>6, <2>11
  <2>13. r.hostNames = names /\ r.limit = limit BY <2>11
  <2> QED BY <2>0, <2>10, <2>12, <2>13, <2>7, <2>8, <2>9
<1>5. s \in Seq([hostNames: Seq({h.name : h \in T}), limit: SUBSET {h.inv : h \in T}])
  <2> HIDE DEF record, c
  <2>1. s \in [1..N -> [hostNames: Seq({h.name : h \in T}), limit: SUBSET {h.inv : h \in T}]]
    BY <1>3, <1>4
  <2> DEFINE R == [hostNames: Seq({h.name : h \in T}), limit: SUBSET {h.inv : h \in T}]
  <2> HIDE DEF R
  <2>2. s \in [1..N -> R] BY <2>1 DEF R
  <2> HIDE DEF N
  <2>3. s \in Seq(R) BY <2>2, <1>2
  <2> QED BY <2>3 DEF R
<1>6. DOMAIN s = 1..N /\ Len(s) = N BY <1>3, <1>2
<1>7. \A k \in 1..N : s[k] = record(c(k)) BY <1>3
<1> HIDE DEF record, c, N
<1>8. \A k \in 1..N :
              /\ ToSet(s[k].hostNames) = {h.name : h \in Part(d, m, k)}
              /\ s[k].limit = {h.inv : h \in Part(d, m, k)}
              /\ IsFiniteSet(s[k].limit) /\ Cardinality(s[k].limit) <= m
  BY <1>4, <1>7
<1> QED BY <1>5, <1>6, <1>8 DEF N, ShardsOf

-----------------------------------------------------------------------------
(***************************************************************************)
(* What the shards of an inventory are.                                    *)
(***************************************************************************)

(* No host is left out, if a host is known by its key.                     *)
LEMMA DistinctHostsAll ==
  ASSUME NEW T, Named(T), NEW hosts \in Seq(T)
  PROVE  ToSet(DistinctHosts(hosts)) = ToSet(hosts)
<1>1. \A h \in ToSet(hosts) : h \in T BY DEF ToSet
<1>2. ToSet(DistinctHosts(hosts)) \subseteq ToSet(hosts) BY DistinctHostsCorrect
<1>3. ASSUME NEW h \in ToSet(hosts) PROVE h \in ToSet(DistinctHosts(hosts))
  <2>1. PICK g \in ToSet(DistinctHosts(hosts)) : g.key = h.key BY DistinctHostsCorrect
  <2> QED BY <2>1, <1>1, <1>2 DEF Named
<1> QED BY <1>2, <1>3

(* limitForHostNames: the inventory names of the hosts named.              *)
LEMMA LimitForHostNamesCorrect ==
  ASSUME NEW T, Named(T), NEW g \in Seq(Seq(T)), NEW names
  PROVE  LimitForHostNames(g, names) =
           {h.inv : h \in {x \in ToSet(Flatten(g)) : x.name \in ToSet(names)}}
<1>1. PICK hosts : hosts = Flatten(g) OBVIOUS
<1>2. hosts \in Seq(T) BY <1>1, FlattenType DEF Flatten
<1>3. Len(hosts) \in Nat /\ DOMAIN hosts = 1..Len(hosts) /\ \A i \in DOMAIN hosts : hosts[i] \in T
  BY <1>2
<1> DEFINE First == {j \in DOMAIN hosts : /\ hosts[j].name \in ToSet(names)
                                         /\ \A l \in 1..(j - 1) : hosts[l].name # hosts[j].name}
<1> DEFINE Named_ == {x \in ToSet(hosts) : x.name \in ToSet(names)}
<1>4. LimitForHostNames(g, names) = {hosts[i].inv : i \in First}
  BY <1>1 DEF LimitForHostNames, InventoryHostname
<1>5. \A i \in First : hosts[i] \in Named_ BY DEF ToSet
<1>6. ASSUME NEW h \in Named_ PROVE \E i \in First : hosts[i] = h
  <2>1. PICK i \in DOMAIN hosts : h = hosts[i] BY DEF ToSet
  <2> DEFINE S == {j \in DOMAIN hosts : hosts[j].name = h.name}
  <2>2. S \in SUBSET Nat /\ S # {} BY <2>1, <1>3
  <2> HIDE DEF S
  <2>3. PICK m \in S : \A n \in S : m <= n BY <2>2, LeastNatural
  <2>4. m \in DOMAIN hosts /\ hosts[m].name = h.name BY DEF S
  <2>5. hosts[m] = h BY <2>1, <2>4, <1>3 DEF Named
  <2>6. \A l \in 1..(m - 1) : hosts[l].name # hosts[m].name
    <3>1. SUFFICES ASSUME NEW l \in 1..(m - 1), hosts[l].name = hosts[m].name PROVE FALSE OBVIOUS
    <3>2. l \in S BY <3>1, <2>4, <1>3 DEF S
    <3> QED BY <3>2, <2>3, <2>4, <1>3
  <2> QED BY <2>4, <2>5, <2>6
<1> HIDE DEF First, Named_
<1>7. {hosts[i].inv : i \in First} = {h.inv : h \in Named_} BY <1>5, <1>6
<1> QED BY <1>1, <1>4, <1>7 DEF Named_

(* The parts of the hosts: not empty, and each host in one of them.        *)
LEMMA PartsOfHosts ==
  ASSUME NEW T, Named(T), NEW d \in Seq(T), NEW m \in Nat \ {0},
         \A a, b \in DOMAIN d : d[a].key = d[b].key => a = b
  PROVE  /\ \A k \in 1..NumShards(Len(d), m) : Part(d, m, k) # {} /\ Part(d, m, k) \subseteq ToSet(d)
         /\ \A h \in ToSet(d) : \E k \in 1..NumShards(Len(d), m) : h \in Part(d, m, k)
         /\ \A k, l \in 1..NumShards(Len(d), m) : Part(d, m, k) \cap Part(d, m, l) # {} => k = l
<1>0. Len(d) \in Nat /\ DOMAIN d = 1..Len(d) OBVIOUS
<1>1. \A k \in 1..NumShards(Len(d), m) : Part(d, m, k) # {} /\ Part(d, m, k) \subseteq ToSet(d)
  BY <1>0, PositionsPartition DEF Part, ToSet
<1>2. ASSUME NEW h \in ToSet(d) PROVE \E k \in 1..NumShards(Len(d), m) : h \in Part(d, m, k)
  <2>1. PICK i \in 1..Len(d) : h = d[i] BY <1>0 DEF ToSet
  <2>2. PICK k \in 1..NumShards(Len(d), m) : i \in Positions(Len(d), m, k) BY <1>0, PositionsPartition
  <2> QED BY <2>1, <2>2 DEF Part
<1>3. ASSUME NEW k \in 1..NumShards(Len(d), m), NEW l \in 1..NumShards(Len(d), m),
             Part(d, m, k) \cap Part(d, m, l) # {}
      PROVE  k = l
  <2>1. PICK i \in Positions(Len(d), m, k), j \in Positions(Len(d), m, l) : d[i] = d[j]
    BY <1>3 DEF Part
  <2>2. i \in DOMAIN d /\ j \in DOMAIN d BY <1>0, PositionsPartition
  <2>3. i = j BY <2>1, <2>2
  <2> QED BY <2>1, <2>3, <1>0, PositionsPartition
<1> QED BY <1>1, <1>2, <1>3

(* Hosts make shards.                                                      *)
LEMMA SomeShards ==
  ASSUME NEW n \in Nat, NEW m \in Nat \ {0}
  PROVE  NumShards(n, m) = 0 => n = 0
BY NumShardsCorrect

(* The hosts an inventory lists, each once.                                *)
Listed(g) == DistinctHosts(Flatten(g))

(* Shards s divide all there is among them, at most m each.                *)
ShardsCover(s, all, m) ==
  /\ \A k \in DOMAIN s : s[k].limit # {} /\ s[k].limit \subseteq all
  /\ \A k \in DOMAIN s : IsFiniteSet(s[k].limit) /\ Cardinality(s[k].limit) <= m
  /\ \A x \in all : \E k \in DOMAIN s : x \in s[k].limit
  /\ \A k, l \in DOMAIN s : s[k].limit \cap s[l].limit # {} => k = l

(* shardHosts (host-sharding.ts) puts every host of the inventory in one   *)
(* shard, and makes no shard empty or too large.                           *)
THEOREM ShardHostsCover ==
  ASSUME NEW T, Named(T), NEW g \in Seq(Seq(T)), NEW m \in Nat \ {0}
  PROVE  ShardsCover(ShardHosts(g, m), AnsibleTargets(g, {}), m)
<1>1. PICK d : d = Listed(g) OBVIOUS
<1>2. PICK s : s = ShardHosts(g, m) OBVIOUS
<1>3. Flatten(g) \in Seq(T) BY FlattenType DEF Flatten
<1>4. /\ d \in Seq(T) /\ ToSet(d) = ToSet(Flatten(g))
      /\ \A a, b \in DOMAIN d : d[a].key = d[b].key => a = b
  BY <1>1, <1>3, DistinctHostsCorrect, DistinctHostsAll DEF Listed
<1>5. /\ DOMAIN s = 1..NumShards(Len(d), m)
      /\ \A k \in DOMAIN s : /\ s[k].limit = {h.inv : h \in Part(d, m, k)}
                             /\ IsFiniteSet(s[k].limit) /\ Cardinality(s[k].limit) <= m
  <2>1. ShardsOf(T, d, m, s) BY <1>1, <1>2, ShardHostsCorrect DEF Listed
  <2> QED BY <2>1 DEF ShardsOf
<1>6. AnsibleTargets(g, {}) = {h.inv : h \in ToSet(d)}
  BY <1>4 DEF AnsibleTargets, InventoryHostname
<1>7. /\ \A k \in DOMAIN s : Part(d, m, k) # {} /\ Part(d, m, k) \subseteq ToSet(d)
      /\ \A h \in ToSet(d) : \E k \in DOMAIN s : h \in Part(d, m, k)
      /\ \A k, l \in DOMAIN s : Part(d, m, k) \cap Part(d, m, l) # {} => k = l
  BY <1>4, <1>5, PartsOfHosts
<1>8. \A h \in ToSet(d) : h \in T BY <1>4 DEF ToSet
<1>9. ASSUME NEW k \in DOMAIN s, NEW l \in DOMAIN s, s[k].limit \cap s[l].limit # {}
      PROVE  k = l
  <2>1. PICK x : x \in s[k].limit /\ x \in s[l].limit BY <1>9
  <2>2. PICK h \in Part(d, m, k) : x = h.inv BY <2>1, <1>5
  <2>3. PICK i \in Part(d, m, l) : x = i.inv BY <2>1, <1>5
  <2>4. h = i BY <2>2, <2>3, <1>7, <1>8 DEF Named
  <2> QED BY <2>2, <2>3, <2>4, <1>7
<1>10. ASSUME NEW k \in DOMAIN s
       PROVE  s[k].limit # {} /\ s[k].limit \subseteq AnsibleTargets(g, {})
  <2>1. PICK P : P = Part(d, m, k) OBVIOUS
  <2>2. P # {} /\ P \subseteq ToSet(d) /\ s[k].limit = {h.inv : h \in P} BY <2>1, <1>5, <1>7
  <2> QED BY <2>2, <1>6
<1>11. ASSUME NEW x \in AnsibleTargets(g, {}) PROVE \E k \in DOMAIN s : x \in s[k].limit
  BY <1>5, <1>6, <1>7
<1> QED BY <1>2, <1>5, <1>9, <1>10, <1>11 DEF ShardsCover

(* Inventories that list the same hosts have the same shards.              *)
LEMMA SameHostsSameShards ==
  ASSUME NEW f, NEW g, Listed(f) = Listed(g), NEW m
  PROVE  ShardHosts(f, m) = ShardHosts(g, m)
BY DEF ShardHosts, Listed

(* A shard's hosts are found again by their names, in any inventory that   *)
(* lists the same hosts.                                                   *)
LEMMA ShardFoundAgain ==
  ASSUME NEW T, Named(T), NEW f \in Seq(Seq(T)), NEW g \in Seq(Seq(T)), Listed(f) = Listed(g),
         NEW m \in Nat \ {0}, NEW k \in DOMAIN ShardHosts(g, m)
  PROVE  /\ LimitForHostNames(f, ShardHosts(g, m)[k].hostNames) = ShardHosts(g, m)[k].limit
         /\ AnsibleTargets(f, ShardHosts(g, m)[k].limit) = ShardHosts(g, m)[k].limit
         /\ ShardHosts(g, m)[k].limit =
              {h.inv : h \in {x \in T : x.name \in ToSet(ShardHosts(g, m)[k].hostNames)}}
<1>1. PICK d : d = Listed(g) OBVIOUS
<1>2. PICK s : s = ShardHosts(g, m) OBVIOUS
<1>3. Flatten(f) \in Seq(T) /\ Flatten(g) \in Seq(T) BY FlattenType DEF Flatten
<1>4. /\ d \in Seq(T) /\ ToSet(d) = ToSet(Flatten(g)) /\ ToSet(d) = ToSet(Flatten(f))
      /\ \A a, b \in DOMAIN d : d[a].key = d[b].key => a = b
  BY <1>1, <1>3, DistinctHostsCorrect, DistinctHostsAll DEF Listed
<1>0. ShardsOf(T, d, m, s) BY <1>1, <1>2, ShardHostsCorrect DEF Listed
<1>5. DOMAIN s = 1..NumShards(Len(d), m) /\ s[k].limit = {h.inv : h \in Part(d, m, k)}
      /\ ToSet(s[k].hostNames) = {h.name : h \in Part(d, m, k)}
  BY <1>0, <1>2 DEF ShardsOf
<1>6. Part(d, m, k) \subseteq ToSet(d) /\ Part(d, m, k) # {} BY <1>4, <1>5, <1>2, PartsOfHosts
<1>7. \A h \in ToSet(d) : h \in T BY <1>4 DEF ToSet
<1>8. LimitForHostNames(f, s[k].hostNames)
        = {h.inv : h \in {x \in ToSet(d) : x.name \in ToSet(s[k].hostNames)}}
  BY <1>4, LimitForHostNamesCorrect
<1>9. \A x \in T : x.name \in ToSet(s[k].hostNames) => x \in Part(d, m, k)
  <2>1. TAKE x \in T
  <2>2. HAVE x.name \in ToSet(s[k].hostNames)
  <2>3. PICK h \in Part(d, m, k) : h.name = x.name BY <2>2, <1>5
  <2> QED BY <2>3, <1>6, <1>7 DEF Named
<1>10. \A x \in Part(d, m, k) : x \in T /\ x \in ToSet(d) /\ x.name \in ToSet(s[k].hostNames)
  BY <1>5, <1>6, <1>7
<1>11. {x \in T : x.name \in ToSet(s[k].hostNames)} = Part(d, m, k)
  BY <1>9, <1>10
<1>12. {x \in ToSet(d) : x.name \in ToSet(s[k].hostNames)} = Part(d, m, k)
  BY <1>9, <1>10, <1>7
<1>13. AnsibleTargets(f, s[k].limit) = s[k].limit
  <2>1. {InventoryHostname(h) : h \in ToSet(Flatten(f))} = {h.inv : h \in ToSet(d)}
    BY <1>4 DEF InventoryHostname
  <2>0. PICK P : P = Part(d, m, k) OBVIOUS
  <2>a. P # {} /\ P \subseteq ToSet(d) /\ s[k].limit = {h.inv : h \in P} BY <2>0, <1>5, <1>6
  <2>2. s[k].limit \subseteq {h.inv : h \in ToSet(d)} /\ s[k].limit # {} BY <2>a
  <2> QED BY <2>1, <2>2 DEF AnsibleTargets
<1> QED BY <1>2, <1>5, <1>8, <1>11, <1>12, <1>13

(* The n pieces s of e lie next to one another, the k-th up to ends[k].    *)
Tiles(e, n, s, ends) ==
  /\ Len(s) = n /\ ends \in [0..n -> 0..Len(e)] /\ ends[0] = 0 /\ ends[n] = Len(e)
  /\ \A k \in 1..n : /\ ends[k - 1] + Len(s[k]) = ends[k]
                      /\ \A i \in 1..Len(s[k]) : s[k][i] = e[ends[k - 1] + i]

(* What is flattened is the whole.                                         *)
LEMMA PiecesJoin ==
  ASSUME NEW A, NEW e \in Seq(A), NEW n \in Nat, NEW s \in Seq(Seq(A)), NEW ends, Tiles(e, n, s, ends)
  PROVE  FlattenSeq(s) = e
<1>0. n = Len(s) /\ Len(e) \in Nat BY DEF Tiles
<1>1. CASE n = 0
  <2>1. Len(e) = 0 BY <1>1 DEF Tiles
  <2>2. e = <<>> BY <2>1
  <2>3. Len(s) = 0 BY <1>0, <1>1
  <2>4. s = <<>> BY <2>3
  <2>5. FlattenSeq(s) = s BY <2>3 DEF FlattenSeq
  <2> QED BY <2>2, <2>4, <2>5
<1>2. CASE n # 0
  <2>1. PICK f : Flattens(A, s, n, f) /\ FlattenSeq(s) = f[n] BY <1>0, <1>2, FlattenUnfolds
  <2> DEFINE Whole(k) == Len(f[k]) = ends[k] /\ \A i \in 1..ends[k] : f[k][i] = e[i]
  <2> DEFINE S == {k \in Nat : k \in 1..n => Whole(k)}
  <2>2. ASSUME NEW k \in 1..n PROVE f[k] \in Seq(A) /\ s[k] \in Seq(A) /\ f[k] = FlatStep(s, f, k)
    <3>1. f \in [1..n -> Seq(A)] /\ f[k] = FlatStep(s, f, k) BY <2>1 DEF Flattens
    <3>2. f[k] \in Seq(A) BY <3>1
    <3>3. s[k] \in Seq(A) BY <1>0
    <3> QED BY <3>1, <3>2, <3>3
  <2>3. 0 \in S OBVIOUS
  <2>4. ASSUME NEW k \in S PROVE k + 1 \in S
    <3>1. SUFFICES ASSUME k + 1 \in 1..n PROVE Whole(k + 1) OBVIOUS
    <3>2. PICK l \in 1..n : l = k + 1 BY <3>1
    <3>3. k \in Nat /\ l - 1 = k /\ k \in 0..n BY <3>2
    <3>4. PICK a \in 0..Len(e) : a = ends[k] BY <3>3 DEF Tiles
    <3>5. PICK b \in 0..Len(e) : b = ends[l] BY <3>2 DEF Tiles
    <3>6. PICK piece \in Seq(A) : piece = s[l] BY <2>2
    <3>7. a + Len(piece) = b /\ \A i \in 1..Len(piece) : piece[i] = e[a + i]
      <4>1. ends[l - 1] + Len(s[l]) = ends[l] /\ \A i \in 1..Len(s[l]) : s[l][i] = e[ends[l - 1] + i]
        BY DEF Tiles
      <4> QED BY <4>1, <3>3, <3>4, <3>5, <3>6
    <3>8. CASE k = 0
      <4>0. a = 0 BY <3>8, <3>4 DEF Tiles
      <4>1. l = 1 /\ f[l] = piece BY <3>8, <3>2, <3>6, <2>2 DEF FlatStep
      <4>2. Len(f[l]) = b /\ \A i \in 1..b : f[l][i] = e[i] BY <4>0, <4>1, <3>7
      <4> QED BY <4>2, <3>2, <3>5
    <3>9. CASE k # 0
      <4>1. k \in 1..n /\ l # 1 BY <3>3, <3>9, <3>2
      <4>2. PICK g \in Seq(A) : g = f[k] BY <4>1, <2>2
      <4>3. Len(g) = a /\ \A i \in 1..a : g[i] = e[i] BY <4>1, <4>2, <3>4
      <4>4. f[l] = g \o piece BY <4>1, <4>2, <3>3, <3>6, <2>2 DEF FlatStep
      <4>5. Len(g \o piece) = b BY <4>3, <3>7
      <4>6. ASSUME NEW i \in 1..b PROVE (g \o piece)[i] = e[i]
        <5>1. CASE i <= a BY <5>1, <4>3
        <5>2. CASE ~(i <= a)
          <6>1. i - a \in 1..Len(piece) /\ a + (i - a) = i BY <5>2, <3>7
          <6>2. (g \o piece)[i] = piece[i - a] BY <5>2, <4>3, <4>5
          <6>3. piece[i - a] = e[a + (i - a)] BY <6>1, <3>7
          <6> QED BY <6>1, <6>2, <6>3
        <5> QED BY <5>1, <5>2
      <4> QED BY <4>4, <4>5, <4>6, <3>2, <3>5
    <3> QED BY <3>8, <3>9
  <2>5. S \in SUBSET Nat OBVIOUS
  <2> HIDE DEF S
  <2>6. n \in S BY <2>3, <2>4, <2>5, NatSets
  <2>7. Whole(n) BY <2>6, <1>2 DEF S
  <2>8. f[n] \in Seq(A) BY <2>2, <1>2
  <2>9. Len(f[n]) = Len(e) /\ \A i \in 1..Len(e) : f[n][i] = e[i] BY <2>7 DEF Tiles
  <2>10. f[n] = e
    <3>1. PICK h \in Seq(A) : h = f[n] BY <2>8
    <3>2. Len(h) = Len(e) /\ \A i \in 1..Len(e) : h[i] = e[i] BY <3>1, <2>9
    <3>3. h = e BY <3>2
    <3> QED BY <3>1, <3>3
  <2> QED BY <2>1, <2>10
<1> QED BY <1>1, <1>2

(* The last position of chunk k.                                           *)
EndOf(n, m, k) == IF k * m < n THEN k * m ELSE n

(* A chunk begins where the one before it ends.                            *)
LEMMA ChunkPlaces ==
  ASSUME NEW T, NEW d \in Seq(T), NEW m \in Nat \ {0}, NEW k \in 1..NumShards(Len(d), m)
  PROVE  /\ EndOf(Len(d), m, k - 1) \in 0..Len(d) /\ EndOf(Len(d), m, k) \in 0..Len(d)
         /\ Len(Chunk(d, m, k)) = EndOf(Len(d), m, k) - EndOf(Len(d), m, k - 1)
         /\ Len(Chunk(d, m, k)) \in 1..m /\ Chunk(d, m, k) \in Seq(T)
         /\ \A i \in 1..Len(Chunk(d, m, k)) : Chunk(d, m, k)[i] = d[EndOf(Len(d), m, k - 1) + i]
<1>1. PICK n \in Nat : n = Len(d) OBVIOUS
<1>2. NumShards(n, m) \in Nat /\ (k - 1) * m < n BY <1>1, NumShardsCorrect
<1>3. k \in Nat \ {0} /\ k - 1 \in Nat BY <1>1, <1>2
<1>4. PICK a \in Nat : a = (k - 1) * m BY <1>3
<1>5. k * m = a + m BY <1>3, <1>4
<1>6. PICK b \in Nat : b = IF a + m < n THEN a + m ELSE n OBVIOUS
<1>7. EndOf(n, m, k - 1) = a BY <1>2, <1>4 DEF EndOf
<1>8. EndOf(n, m, k) = b BY <1>5, <1>6 DEF EndOf
<1>9. a < n /\ a < b /\ b <= n /\ b - a <= m BY <1>2, <1>4, <1>6
<1>10. Chunk(d, m, k) = SubSeq(d, a + 1, b) BY <1>1, <1>4, <1>5, <1>6 DEF Chunk
<1>11. PICK c : c = SubSeq(d, a + 1, b) OBVIOUS
<1>12. c \in Seq(T) /\ Len(c) = b - a /\ \A i \in 1..(b - a) : c[i] = d[a + i]
  <2>1. \A j \in (a + 1)..b : d[j] \in T BY <1>1, <1>9
  <2>2. /\ SubSeq(d, a + 1, b) \in Seq(T) /\ Len(SubSeq(d, a + 1, b)) = b - (a + 1) + 1
        /\ \A i \in 1..(b - (a + 1) + 1) : SubSeq(d, a + 1, b)[i] = d[a + 1 + i - 1]
    <3>1. a + 1 <= b BY <1>9
    <3> QED BY <2>1, <3>1, SubSeqProperties
  <2>3. b - (a + 1) + 1 = b - a /\ \A i \in Nat : a + 1 + i - 1 = a + i OBVIOUS
  <2> QED BY <1>11, <2>2, <2>3
<1> QED BY <1>1, <1>7, <1>8, <1>9, <1>10, <1>11, <1>12

(* The names in the shards, one after the other, are those of the hosts,   *)
(* and each shard has one, at least, and no more than fit.                 *)
LEMMA ShardNamesJoin ==
  ASSUME NEW T, NEW g \in Seq(Seq(T)), NEW m \in Nat \ {0},
         NEW d, d = Listed(g), NEW s, s = ShardHosts(g, m)
  PROVE  /\ FlattenSeq([k \in DOMAIN s |-> s[k].hostNames]) = [i \in DOMAIN d |-> d[i].name]
         /\ \A k \in DOMAIN s : Len(s[k].hostNames) \in 1..m
<1>1. d \in Seq(T)
  <2>1. Flatten(g) \in Seq(T) BY FlattenType DEF Flatten
  <2> QED BY <2>1, DistinctHostsCorrect DEF Listed
<1>2. PICK n \in Nat : n = Len(d) BY <1>1
<1>3. PICK N \in Nat : N = NumShards(n, m) BY NumShardsCorrect
<1>4. PICK A : A = {h.name : h \in T} OBVIOUS
<1>5. PICK e : e = [i \in 1..n |-> d[i].name] OBVIOUS
<1>6. e \in Seq(A) /\ Len(e) = n /\ e = [i \in DOMAIN d |-> d[i].name] BY <1>1, <1>2, <1>4, <1>5
<1>7. DOMAIN s = 1..N BY <1>2, <1>3 DEF ShardHosts, Listed
<1>8. PICK names : names = [k \in 1..N |-> s[k].hostNames] OBVIOUS
<1>9. PICK ends : ends = [k \in 0..N |-> EndOf(n, m, k)] OBVIOUS
<1>10. ASSUME NEW k \in 1..N
       PROVE  /\ names[k] \in Seq(A) /\ Len(names[k]) \in 1..m
              /\ ends[k - 1] \in 0..n /\ ends[k] \in 0..n /\ ends[k - 1] + Len(names[k]) = ends[k]
              /\ \A i \in 1..Len(names[k]) : names[k][i] = e[ends[k - 1] + i]
  <2>1. PICK c : c = Chunk(d, m, k) OBVIOUS
  <2>2. PICK a : a = EndOf(n, m, k - 1) OBVIOUS
  <2>3. PICK b : b = EndOf(n, m, k) OBVIOUS
  <2>4. /\ a \in 0..n /\ b \in 0..n /\ Len(c) = b - a /\ Len(c) \in 1..m /\ c \in Seq(T)
        /\ \A i \in 1..Len(c) : c[i] = d[a + i]
    BY <1>1, <1>2, <1>3, <2>1, <2>2, <2>3, ChunkPlaces
  <2>5. s[k].hostNames = [i \in DOMAIN c |-> c[i].name]
    BY <1>2, <1>3, <2>1 DEF ShardHosts, Listed
  <2>6. PICK p : p = [i \in DOMAIN c |-> c[i].name] OBVIOUS
  <2>7. names[k] = p BY <1>8, <2>5, <2>6
  <2>8. DOMAIN c = 1..Len(c) /\ \A i \in 1..Len(c) : c[i].name \in A BY <2>4, <1>4
  <2>9. p \in Seq(A) /\ Len(p) = Len(c) /\ \A i \in 1..Len(c) : p[i] = c[i].name BY <2>4, <2>6, <2>8
  <2>10. ends[k - 1] = a /\ ends[k] = b
    <3>1. k - 1 \in 0..N /\ k \in 0..N OBVIOUS
    <3> QED BY <3>1, <1>9, <2>2, <2>3
  <2>11. a + Len(p) = b BY <2>4, <2>9
  <2>12. \A i \in 1..Len(p) : p[i] = e[a + i]
    <3>1. TAKE i \in 1..Len(p)
    <3>2. a + i \in 1..n BY <2>4, <2>11
    <3> QED BY <3>2, <2>4, <2>9, <1>5
  <2> QED BY <2>4, <2>7, <2>9, <2>10, <2>11, <2>12
<1>11. names \in Seq(Seq(A)) /\ Len(names) = N BY <1>8, <1>10
<1>12. ends[0] = 0 /\ ends[N] = n
  <2>1. n <= N * m BY <1>3, NumShardsCorrect
  <2>2. 0 * m = 0 /\ N * m \in Nat OBVIOUS
  <2>3. EndOf(n, m, 0) = 0 BY <2>2 DEF EndOf
  <2>4. EndOf(n, m, N) = n BY <2>1, <2>2 DEF EndOf
  <2> QED BY <2>3, <2>4, <1>9
<1>13. ends \in [0..N -> 0..n]
  <2>1. \A k \in 0..N : ends[k] \in 0..n
    <3>1. TAKE k \in 0..N
    <3>2. CASE k = 0 BY <3>2, <1>12
    <3>3. CASE k # 0 BY <3>3, <1>10
    <3> QED BY <3>2, <3>3
  <2> QED BY <2>1, <1>9
<1>14. FlattenSeq(names) = e
  <2>1. Tiles(e, N, names, ends) BY <1>6, <1>10, <1>11, <1>12, <1>13 DEF Tiles
  <2> QED BY <2>1, <1>6, <1>11, PiecesJoin
<1>15. \A k \in DOMAIN s : Len(s[k].hostNames) \in 1..m BY <1>7, <1>8, <1>10
<1> QED BY <1>6, <1>7, <1>8, <1>14, <1>15

(* limitForHostNames (host-sharding.ts): whatever an inventory has become, *)
(* the names of a shard find those of its hosts that are left.             *)
THEOREM ShardIsLeft ==
  ASSUME NEW T, Named(T), NEW f \in Seq(Seq(T)), NEW g \in Seq(Seq(T)),
         NEW m \in Nat \ {0}, NEW k \in DOMAIN ShardHosts(g, m)
  PROVE  LimitForHostNames(f, ShardHosts(g, m)[k].hostNames) =
           ShardHosts(g, m)[k].limit \cap {h.inv : h \in ToSet(Flatten(f))}
<1>1. PICK d : d = Listed(g) OBVIOUS
<1>2. PICK s : s = ShardHosts(g, m) OBVIOUS
<1>3. PICK P : P = Part(d, m, k) OBVIOUS
<1>4. PICK F : F = ToSet(Flatten(f)) OBVIOUS
<1>5. d \in Seq(T) /\ \A a, b \in DOMAIN d : d[a].key = d[b].key => a = b
  <2>1. Flatten(g) \in Seq(T) BY FlattenType DEF Flatten
  <2> QED BY <1>1, <2>1, DistinctHostsCorrect DEF Listed
<1>6. k \in 1..NumShards(Len(d), m) /\ s[k].limit = {h.inv : h \in P} /\ ToSet(s[k].hostNames) = {h.name : h \in P}
  <2>1. ShardsOf(T, d, m, s) BY <1>1, <1>2, ShardHostsCorrect DEF Listed
  <2> QED BY <2>1, <1>2, <1>3 DEF ShardsOf
<1>7. \A h \in P : h \in T
  <2>1. P \subseteq ToSet(d) BY <1>3, <1>5, <1>6, PartsOfHosts
  <2> QED BY <2>1, <1>5 DEF ToSet
<1>8. \A h \in F : h \in T
  <2>1. Flatten(f) \in Seq(T) BY FlattenType DEF Flatten
  <2> QED BY <2>1, <1>4 DEF ToSet
<1>9. LimitForHostNames(f, s[k].hostNames) = {h.inv : h \in {x \in F : x.name \in ToSet(s[k].hostNames)}}
  BY <1>4, LimitForHostNamesCorrect
<1>10. ASSUME NEW x \in F PROVE x.name \in {h.name : h \in P} <=> x.inv \in {h.inv : h \in P}
  BY <1>7, <1>8 DEF Named
<1>11. {h.inv : h \in {x \in F : x.name \in {h.name : h \in P}}} = {h.inv : h \in P} \cap {h.inv : h \in F}
  BY <1>10
<1> QED BY <1>2, <1>4, <1>6, <1>9, <1>11

(* A finite set of naturals that is not empty has a largest member.        *)
LEMMA LargestOf ==
  ASSUME NEW S \in SUBSET Nat, IsFiniteSet(S), S # {}
  PROVE  \E m \in S : \A n \in S : n <= m
<1> DEFINE Bad == {U \in FiniteSubsetsOf(Nat) : U # {} /\ ~ \E m \in U : \A n \in U : n <= m}
<1>1. IsWellFoundedOn(StrictSubsetOrdering(Nat), FiniteSubsetsOf(Nat))
  BY FS_StrictSubsetOrderingWellFounded
<1>2. SUFFICES ASSUME Bad # {} PROVE FALSE BY DEF FiniteSubsetsOf
<1>3. PICK U \in Bad : \A V \in Bad : ~ (<<V, U>> \in StrictSubsetOrdering(Nat))
  <2>1. Bad \subseteq FiniteSubsetsOf(Nat) OBVIOUS
  <2> HIDE DEF Bad
  <2> QED BY <1>1, <1>2, <2>1, WFMin
<1>4. U \in SUBSET Nat /\ IsFiniteSet(U) /\ U # {} BY DEF FiniteSubsetsOf
<1>5. PICK x \in U : TRUE BY <1>4
<1>6. U \ {x} \in FiniteSubsetsOf(Nat)
  <2>1. IsFiniteSet(U \ {x}) BY <1>4, FS_RemoveElement
  <2> QED BY <2>1, <1>4 DEF FiniteSubsetsOf
<1>7. <<U \ {x}, U>> \in StrictSubsetOrdering(Nat) BY <1>4, <1>5 DEF StrictSubsetOrdering
<1>8. U \ {x} \notin Bad BY <1>3, <1>7
<1>9. CASE U \ {x} = {}
  <2>1. U = {x} BY <1>9, <1>5
  <2>2. x <= x BY <1>4, <1>5
  <2> QED BY <2>1, <2>2, <1>3
<1>10. CASE U \ {x} # {}
  <2>1. PICK m \in U \ {x} : \A n \in U \ {x} : n <= m BY <1>6, <1>8, <1>10
  <2>2. PICK y \in U : (y = m \/ y = x) /\ x <= y /\ m <= y BY <1>4, <1>5, <2>1
  <2>3. \A n \in U : n <= y
    <3>1. TAKE n \in U
    <3>2. CASE n = x BY <3>2, <2>2
    <3>3. CASE n # x
      <4>1. n <= m BY <3>3, <2>1
      <4>2. n \in Nat /\ m \in Nat /\ y \in Nat BY <1>4
      <4> QED BY <4>1, <4>2, <2>2
    <3> QED BY <3>2, <3>3
  <2> QED BY <2>3, <1>3
<1> QED BY <1>9, <1>10

(* Min is the least member.                                                *)
LEMMA MinMember ==
  ASSUME NEW S \in SUBSET Nat, S # {}
  PROVE  Min(S) \in S /\ \A n \in S : Min(S) <= n
<1>1. \E m \in S : \A n \in S : m <= n BY LeastNatural
<1> QED BY <1>1 DEF Min

(* Max is the largest member.                                              *)
LEMMA MaxMember ==
  ASSUME NEW S \in SUBSET Nat, IsFiniteSet(S), S # {}
  PROVE  Max(S) \in S /\ \A n \in S : n <= Max(S)
<1>1. \E m \in S : \A n \in S : m >= n
  <2>1. PICK m \in S : \A n \in S : n <= m BY LargestOf
  <2> QED BY <2>1
<1>2. Max(S) \in S /\ \A n \in S : Max(S) >= n BY <1>1 DEF Max
<1> QED BY <1>2
=============================================================================
