-------------------------- MODULE ReferenceProofs --------------------------
(***************************************************************************)
(* What Resolvers promises of jump chains (operator/src/resolvers/         *)
(* object-ref.ts), of the shards of an inventory (host-sharding.ts) and of *)
(* lists that are filtered by permissions (api/src/auth/                   *)
(* permission-engine.ts), for any objects, grants, selectors and sizes, in *)
(* every state the reference controllers (operator/src/controllers) reach. *)
(***************************************************************************)
EXTENDS Resolvers, HostShardingProofs

-----------------------------------------------------------------------------
(***************************************************************************)
(* Jump chains (object-ref.ts).  resolveJumpChain is a recursive function  *)
(* of a host and of the keys that were visited; one more is visited before *)
(* each call, so it is defined.                                            *)
(***************************************************************************)

Keys(hs) == {refKey(x) : x \in hs}
Places(hs) == hs \X SUBSET Keys(hs)

(* The body of chain in resolveJumpChain. *)
ChainAt(hs, f, at) ==
        LET h == at[1]
            visited == at[2]
        IN IF h.jumpHost = {} THEN Hops(<<>>)
           ELSE IF refKey(h) \in visited THEN Failed
           ELSE LET jumpHost == The(h.jumpHost) IN
                IF jumpHost.address # {} THEN Hops(<<The(jumpHost.address)>>)
                ELSE LET jumps == resolveRef(hs, jumpHost.hostRef, h.namespace) IN
                     IF jumps = {} THEN Failed
                     ELSE LET upstream == f[<<The(jumps), visited \cup {refKey(h)}>>] IN
                          IF upstream.ok THEN Hops(AppendHop(upstream.hops, The(jumps).ansibleHost))
                          ELSE Failed

(* The place it goes on from. *)
Onward(hs, at) == <<The(Through(hs, at[1])), at[2] \cup {refKey(at[1])}>>
Goes(hs, at) == refKey(at[1]) \notin at[2] /\ Through(hs, at[1]) # {}

LEMMA ChooseMember == ASSUME NEW S, S # {} PROVE The(S) \in S
BY DEF The

LEMMA ThroughMember == \A hs, h : Through(hs, h) \subseteq hs
BY DEF Through, resolveRef

LEMMA OnwardPlace ==
  ASSUME NEW hs, NEW at \in Places(hs), Goes(hs, at)
  PROVE  Onward(hs, at) \in Places(hs)
<1>1. The(Through(hs, at[1])) \in hs BY ChooseMember, ThroughMember DEF Goes
<1>2. at[1] \in hs /\ at[2] \in SUBSET Keys(hs) BY DEF Places
<1>3. at[2] \cup {refKey(at[1])} \in SUBSET Keys(hs) BY <1>2 DEF Keys
<1> QED BY <1>1, <1>3 DEF Places, Onward

LEMMA KeysFinite == ASSUME NEW hs, IsFiniteSet(hs) PROVE IsFiniteSet(Keys(hs))
<1> DEFINE f == [h \in hs |-> refKey(h)]
<1>1. f \in Surjection(hs, Keys(hs)) BY DEF Surjection, Keys
<1> HIDE DEF f
<1> QED BY <1>1, FS_Surjection

Left(hs, at) == Cardinality(Keys(hs) \ at[2])

LEMMA OnwardLess ==
  ASSUME NEW hs, IsFiniteSet(hs), NEW at \in Places(hs), Goes(hs, at)
  PROVE  Left(hs, at) \in Nat /\ Left(hs, Onward(hs, at)) \in Nat /\ Left(hs, Onward(hs, at)) < Left(hs, at)
<1>1. PICK S : S = Keys(hs) \ at[2] OBVIOUS
<1>2. IsFiniteSet(S) BY <1>1, KeysFinite, FS_Difference
<1>3. PICK k : k = refKey(at[1]) OBVIOUS
<1>4. k \in S BY <1>1, <1>3 DEF Goes, Places, Keys
<1>5. Keys(hs) \ Onward(hs, at)[2] = S \ {k} BY <1>1, <1>3 DEF Onward
<1>6. Cardinality(S \ {k}) = Cardinality(S) - 1 /\ IsFiniteSet(S \ {k}) BY <1>2, <1>4, FS_RemoveElement
<1>7. Cardinality(S) \in Nat /\ Cardinality(S \ {k}) \in Nat BY <1>2, <1>6, FS_CardinalityType
<1>8. Left(hs, at) = Cardinality(S) BY <1>1 DEF Left
<1>9. Left(hs, Onward(hs, at)) = Cardinality(S \ {k}) BY <1>5 DEF Left
<1>10. Cardinality(S) - 1 < Cardinality(S) BY <1>7
<1> QED BY <1>6, <1>7, <1>8, <1>9, <1>10

(* The body depends on the function at the place it goes on from only. *)
LEMMA ChainLocal ==
  ASSUME NEW hs, NEW f, NEW g, NEW at, Goes(hs, at) => f[Onward(hs, at)] = g[Onward(hs, at)]
  PROVE  ChainAt(hs, f, at) = ChainAt(hs, g, at)
<1>1. CASE Goes(hs, at) BY <1>1 DEF ChainAt, Onward, Through
<1>2. CASE ~Goes(hs, at) BY <1>2 DEF ChainAt, Goes, Through
<1> QED BY <1>1, <1>2

Solves(hs, f) == \A at \in Places(hs) : f[at] = ChainAt(hs, f, at)

LEMMA SomeSolution ==
  ASSUME NEW hs, IsFiniteSet(hs)
  PROVE  \E f : Solves(hs, f)
<1> DEFINE Upto(f, n) == \A at \in Places(hs) : Left(hs, at) < n => f[at] = ChainAt(hs, f, at)
<1> DEFINE S == {n \in Nat : \E f : Upto(f, n)}
<1>0. \A at \in Places(hs) : Left(hs, at) \in Nat /\ Left(hs, at) <= Cardinality(Keys(hs))
  <2>1. TAKE at \in Places(hs)
  <2>2. IsFiniteSet(Keys(hs)) BY KeysFinite
  <2>3. Keys(hs) \ at[2] \subseteq Keys(hs) OBVIOUS
  <2>4. IsFiniteSet(Keys(hs) \ at[2]) /\ Cardinality(Keys(hs) \ at[2]) <= Cardinality(Keys(hs)) BY <2>2, <2>3, FS_Subset
  <2>5. Cardinality(Keys(hs) \ at[2]) \in Nat BY <2>4, FS_CardinalityType
  <2> QED BY <2>4, <2>5 DEF Left
<1>1. 0 \in S
  <2>1. Upto([at \in {} |-> at], 0)
    <3>1. SUFFICES ASSUME NEW at \in Places(hs), Left(hs, at) < 0 PROVE FALSE OBVIOUS
    <3> QED BY <3>1, <1>0
  <2> HIDE DEF Upto
  <2> QED BY <2>1
<1>2. ASSUME NEW n \in S PROVE n + 1 \in S
  <2>1. PICK f : Upto(f, n) OBVIOUS
  <2> DEFINE g == [at \in Places(hs) |-> ChainAt(hs, f, at)]
  <2>2. ASSUME NEW at \in Places(hs), Left(hs, at) < n + 1
        PROVE  g[at] = ChainAt(hs, g, at)
    <3>1. ASSUME Goes(hs, at) PROVE f[Onward(hs, at)] = g[Onward(hs, at)]
      <4>1. PICK b : b = Onward(hs, at) OBVIOUS
      <4>2. b \in Places(hs) BY <4>1, <3>1, OnwardPlace
      <4>3. Left(hs, b) < Left(hs, at) /\ Left(hs, b) \in Nat /\ Left(hs, at) \in Nat BY <4>1, <3>1, OnwardLess
      <4>4. Left(hs, b) < n BY <4>3, <2>2
      <4>5. f[b] = ChainAt(hs, f, b) BY <4>2, <4>4, <2>1
      <4>6. g[b] = ChainAt(hs, f, b) BY <4>2
      <4> HIDE DEF g
      <4> QED BY <4>1, <4>5, <4>6
    <3>2. g[at] = ChainAt(hs, f, at) OBVIOUS
    <3> HIDE DEF g
    <3>3. ChainAt(hs, f, at) = ChainAt(hs, g, at) BY <3>1, ChainLocal
    <3> QED BY <3>2, <3>3
  <2> HIDE DEF g
  <2>3. Upto(g, n + 1) BY <2>2
  <2> HIDE DEF Upto
  <2> QED BY <2>3
<1>3. S = Nat
  <2>1. S \in SUBSET Nat OBVIOUS
  <2> HIDE DEF S
  <2> QED BY <1>1, <1>2, <2>1, NatSets
<1>4. Cardinality(Keys(hs)) \in Nat BY KeysFinite, FS_CardinalityType
<1>5. Cardinality(Keys(hs)) + 1 \in S BY <1>3, <1>4
<1>6. PICK f : Upto(f, Cardinality(Keys(hs)) + 1) BY <1>5
<1>7. Solves(hs, f)
  <2>1. SUFFICES ASSUME NEW at \in Places(hs) PROVE f[at] = ChainAt(hs, f, at) BY DEF Solves
  <2>2. Left(hs, at) < Cardinality(Keys(hs)) + 1 BY <1>0, <1>4
  <2> QED BY <2>2, <1>6
<1> QED BY <1>7

LEMMA ChainSolved ==
  ASSUME NEW hs, IsFiniteSet(hs), NEW host \in hs
  PROVE  \E f : Solves(hs, f) /\ resolveJumpChain(hs, host) = f[<<host, {}>>]
<1> DEFINE F == CHOOSE f : f = [at \in Places(hs) |-> ChainAt(hs, f, at)]
<1>1. F = [at \in Places(hs) |-> ChainAt(hs, F, at)]
  <2>1. PICK f : Solves(hs, f) BY SomeSolution
  <2> DEFINE g == [at \in Places(hs) |-> f[at]]
  <2>2. ASSUME NEW at \in Places(hs) PROVE ChainAt(hs, f, at) = ChainAt(hs, g, at)
    <3>1. Goes(hs, at) => Onward(hs, at) \in Places(hs) BY OnwardPlace
    <3>2. Goes(hs, at) => f[Onward(hs, at)] = g[Onward(hs, at)] BY <3>1
    <3> HIDE DEF g
    <3> QED BY <3>2, ChainLocal
  <2>3. g = [at \in Places(hs) |-> ChainAt(hs, g, at)]
    <3>1. \A at \in Places(hs) : g[at] = f[at] OBVIOUS
    <3>2. \A at \in Places(hs) : f[at] = ChainAt(hs, g, at) BY <2>1, <2>2 DEF Solves
    <3>3. g = [at \in Places(hs) |-> g[at]] OBVIOUS
    <3> HIDE DEF g
    <3> QED BY <3>1, <3>2, <3>3
  <2> HIDE DEF g
  <2> QED BY <2>3
<1>2. resolveJumpChain(hs, host) = F[<<host, {}>>]
  <2>1. hs \cup {host} = hs OBVIOUS
  <2>2. resolveJumpChain(hs, host) =
          (CHOOSE f : f = [at \in (hs \cup {host}) \X SUBSET {refKey(x) : x \in hs \cup {host}} |-> ChainAt(hs, f, at)])[<<host, {}>>]
    BY DEF resolveJumpChain, ChainAt
  <2> QED BY <2>1, <2>2 DEF Places, Keys
<1> HIDE DEF F
<1>3. Solves(hs, F) BY <1>1 DEF Solves
<1> QED BY <1>2, <1>3

(* A way along the references of hs, from its first host to one that needs no other. *)
IsWay(hs, way) ==
  /\ way \in Seq(hs) /\ Len(way) # 0
  /\ \A i \in 2..Len(way) : ~Direct(way[i - 1]) /\ way[i] \in Through(hs, way[i - 1])
  /\ Direct(way[Len(way)])

HopsOf(way) ==
  Gateway(way[Len(way)]) \o Reverse([i \in 1..(Len(way) - 1) |-> way[i + 1].ansibleHost])

Unique(hs) == \A h, i \in hs : refKey(h) = refKey(i) => h = i

(* A reference is to one host. *)
LEMMA OneThrough ==
  ASSUME NEW hs, Unique(hs), NEW h, NEW a \in Through(hs, h), NEW b \in Through(hs, h)
  PROVE  a = b
BY DEF Through, resolveRef, refKey, Unique

(* So there is one way from a host. *)
LEMMA OneWay ==
  ASSUME NEW hs, Unique(hs), NEW v, IsWay(hs, v), NEW w, IsWay(hs, w), v[1] = w[1]
  PROVE  v = w
<1>0. v \in Seq(hs) /\ w \in Seq(hs) /\ Len(v) \in Nat \ {0} /\ Len(w) \in Nat \ {0} BY DEF IsWay
<1> DEFINE S == {n \in Nat : n + 1 <= Len(v) /\ n + 1 <= Len(w) => v[n + 1] = w[n + 1]}
<1>1. 0 \in S OBVIOUS
<1>2. ASSUME NEW n \in S PROVE n + 1 \in S
  <2>1. SUFFICES ASSUME n + 2 <= Len(v), n + 2 <= Len(w) PROVE v[n + 2] = w[n + 2]
    <3>1. (n + 1) + 1 = n + 2 OBVIOUS
    <3> QED BY <3>1
  <2>2. v[n + 1] = w[n + 1] BY <2>1, <1>0
  <2>3. n + 2 \in 2..Len(v) /\ n + 2 \in 2..Len(w) /\ (n + 2) - 1 = n + 1 BY <2>1, <1>0
  <2>4. v[n + 2] \in Through(hs, v[n + 1]) /\ w[n + 2] \in Through(hs, w[n + 1]) BY <2>3 DEF IsWay
  <2> QED BY <2>2, <2>4, OneThrough
<1>3. S = Nat
  <2>1. S \in SUBSET Nat OBVIOUS
  <2> HIDE DEF S
  <2> QED BY <1>1, <1>2, <2>1, NatSets
<1>4. ASSUME NEW i \in Nat \ {0}, i <= Len(v), i <= Len(w) PROVE v[i] = w[i]
  <2> HIDE DEF S
  <2>1. i - 1 \in Nat /\ (i - 1) + 1 = i BY <1>4
  <2>2. i - 1 \in S BY <2>1, <1>3
  <2>3. (i - 1) + 1 <= Len(v) /\ (i - 1) + 1 <= Len(w) => v[(i - 1) + 1] = w[(i - 1) + 1] BY <2>2 DEF S
  <2> QED BY <2>1, <2>3, <1>4
<1>5. Len(v) = Len(w)
  <2>1. ASSUME Len(v) < Len(w) PROVE FALSE
    <3>1. v[Len(v)] = w[Len(v)] BY <2>1, <1>0, <1>4
    <3>2. Len(v) + 1 \in 2..Len(w) /\ (Len(v) + 1) - 1 = Len(v) BY <2>1, <1>0
    <3>3. ~Direct(w[Len(v)]) BY <3>2 DEF IsWay
    <3> QED BY <3>1, <3>3 DEF IsWay
  <2>2. ASSUME Len(w) < Len(v) PROVE FALSE
    <3>1. v[Len(w)] = w[Len(w)] BY <2>2, <1>0, <1>4
    <3>2. Len(w) + 1 \in 2..Len(v) /\ (Len(w) + 1) - 1 = Len(w) BY <2>2, <1>0
    <3>3. ~Direct(v[Len(w)]) BY <3>2 DEF IsWay
    <3> QED BY <3>1, <3>3 DEF IsWay
  <2> QED BY <2>1, <2>2, <1>0
<1> HIDE DEF S
<1>6. \A i \in 1..Len(v) : v[i] = w[i] BY <1>0, <1>4, <1>5
<1> QED BY <1>0, <1>5, <1>6

Rest(way, k) == [i \in 1..(Len(way) - k + 1) |-> way[i + k - 1]]

(* What is left of a way is a way. *)
LEMMA RestIsWay ==
  ASSUME NEW hs, NEW way, IsWay(hs, way), NEW k \in 1..Len(way)
  PROVE  /\ IsWay(hs, Rest(way, k)) /\ Len(Rest(way, k)) = Len(way) - k + 1
         /\ Rest(way, k)[1] = way[k] /\ Rest(way, k)[Len(way) - k + 1] = way[Len(way)]
         /\ \A i \in 1..(Len(way) - k + 1) : Rest(way, k)[i] = way[i + k - 1]
<1>0. way \in Seq(hs) /\ Len(way) \in Nat \ {0} BY DEF IsWay
<1>1. PICK r : r = Rest(way, k) OBVIOUS
<1>2. PICK n : n = Len(way) - k + 1 OBVIOUS
<1>3. n \in Nat \ {0} /\ k \in Nat \ {0} BY <1>0, <1>2
<1>4. \A i \in 1..n : i + k - 1 \in 1..Len(way) BY <1>0, <1>2, <1>3
<1>5. r = [i \in 1..n |-> way[i + k - 1]] BY <1>1, <1>2 DEF Rest
<1>6. r \in Seq(hs) /\ Len(r) = n BY <1>0, <1>3, <1>4, <1>5
<1>7. r[1] = way[k] /\ r[n] = way[Len(way)]
  <2>1. 1 + k - 1 = k /\ n + k - 1 = Len(way) BY <1>0, <1>2
  <2> QED BY <2>1, <1>3, <1>5
<1>8. ASSUME NEW i \in 2..n PROVE ~Direct(r[i - 1]) /\ r[i] \in Through(hs, r[i - 1])
  <2>1. i \in 1..n /\ i - 1 \in 1..n BY <1>3
  <2>2. r[i] = way[i + k - 1] /\ r[i - 1] = way[i - 1 + k - 1] BY <2>1, <1>5
  <2>3. i + k - 1 \in 2..Len(way) /\ (i + k - 1) - 1 = i - 1 + k - 1 BY <1>3, <1>4, <2>1
  <2> QED BY <2>2, <2>3 DEF IsWay
<1>9. IsWay(hs, r) BY <1>3, <1>6, <1>7, <1>8 DEF IsWay
<1>10. \A i \in 1..n : r[i] = way[i + k - 1] BY <1>5
<1> QED BY <1>1, <1>2, <1>6, <1>7, <1>9, <1>10

(* No way comes back to a host. *)
LEMMA NoCircle ==
  ASSUME NEW hs, Unique(hs), NEW way, IsWay(hs, way),
         NEW i \in 1..Len(way), NEW j \in 1..Len(way), way[i] = way[j]
  PROVE  i = j
<1>1. PICK v : v = Rest(way, i) OBVIOUS
<1>2. PICK w : w = Rest(way, j) OBVIOUS
<1>3. IsWay(hs, v) /\ v[1] = way[i] /\ Len(v) = Len(way) - i + 1
  <2>1. /\ IsWay(hs, Rest(way, i)) /\ Len(Rest(way, i)) = Len(way) - i + 1
        /\ Rest(way, i)[1] = way[i]
    BY RestIsWay
  <2> QED BY <2>1, <1>1
<1>4. IsWay(hs, w) /\ w[1] = way[j] /\ Len(w) = Len(way) - j + 1
  <2>1. /\ IsWay(hs, Rest(way, j)) /\ Len(Rest(way, j)) = Len(way) - j + 1
        /\ Rest(way, j)[1] = way[j]
    BY RestIsWay
  <2> QED BY <2>1, <1>2
<1>5. v = w BY <1>3, <1>4, OneWay
<1>6. Len(way) - i + 1 = Len(way) - j + 1 BY <1>3, <1>4, <1>5
<1>7. Len(way) \in Nat BY DEF IsWay
<1> QED BY <1>6, <1>7

(* One hop more. *)
LEMMA HopsExtend ==
  ASSUME NEW hs, NEW h \in hs, NEW way, IsWay(hs, way), ~Direct(h), way[1] \in Through(hs, h)
  PROVE  /\ IsWay(hs, <<h>> \o way) /\ (<<h>> \o way)[1] = h
         /\ HopsOf(<<h>> \o way) = Append(HopsOf(way), way[1].ansibleHost)
<1>0. way \in Seq(hs) /\ Len(way) \in Nat \ {0} BY DEF IsWay
<1>1. PICK v : v = <<h>> \o way OBVIOUS
<1>2. PICK n : n = Len(way) OBVIOUS
<1>3. /\ v \in Seq(hs) /\ Len(v) = n + 1 /\ v[1] = h /\ n \in Nat \ {0}
      /\ \A i \in 1..n : v[i + 1] = way[i]
  BY <1>0, <1>1, <1>2
<1>4. v[n + 1] = way[n] BY <1>3
<1>5. ASSUME NEW i \in 2..(n + 1) PROVE ~Direct(v[i - 1]) /\ v[i] \in Through(hs, v[i - 1])
  <2>1. CASE i = 2 BY <2>1, <1>3
  <2>2. CASE i # 2
    <3>1. i - 1 \in 2..n /\ i - 2 \in 1..n /\ i - 1 \in 1..n /\ (i - 1) - 1 = i - 2 BY <1>3, <2>2
    <3>2. (i - 2) + 1 = i - 1 /\ (i - 1) + 1 = i BY <1>3
    <3>3. v[i - 1] = way[i - 2] /\ v[i] = way[i - 1] BY <1>3, <3>1, <3>2
    <3>4. ~Direct(way[(i - 1) - 1]) /\ way[i - 1] \in Through(hs, way[(i - 1) - 1])
      BY <1>2, <3>1 DEF IsWay
    <3> QED BY <3>1, <3>3, <3>4
  <2> QED BY <2>1, <2>2
<1>6. IsWay(hs, v) BY <1>2, <1>3, <1>4, <1>5 DEF IsWay
<1>7. PICK a : a = [i \in 1..(n - 1) |-> way[i + 1].ansibleHost] OBVIOUS
<1>8. PICK b : b = [i \in 1..n |-> v[i + 1].ansibleHost] OBVIOUS
<1>9. PICK g : g = Gateway(way[n]) OBVIOUS
<1>10. PICK T : T = {x.ansibleHost : x \in hs} \cup {The(The(x.jumpHost).address) : x \in hs} OBVIOUS
<1>11. a \in Seq(T) /\ b \in Seq(T) /\ Len(a) = n - 1 /\ Len(b) = n
  BY <1>0, <1>2, <1>3, <1>7, <1>8, <1>10
<1>12. \A i \in 1..(n - 1) : b[i + 1] = a[i]
  <2>1. TAKE i \in 1..(n - 1)
  <2>2. i + 1 \in 1..n BY <1>3
  <2> QED BY <2>2, <1>3, <1>7, <1>8
<1>13. b[1] = way[1].ansibleHost BY <1>3, <1>8
<1>14. Reverse(b) = Append(Reverse(a), way[1].ansibleHost)
  <2>1. PICK c : c = Append(Reverse(a), way[1].ansibleHost) OBVIOUS
  <2>2. Reverse(a) \in Seq(T) /\ Len(Reverse(a)) = n - 1
        /\ \A i \in 1..(n - 1) : Reverse(a)[i] = a[(n - 1) - i + 1]
    BY <1>11, <1>3 DEF Reverse
  <2>3. Len(c) = n /\ c[n] = way[1].ansibleHost /\ (\A i \in 1..(n - 1) : c[i] = Reverse(a)[i])
        /\ c = [i \in 1..n |-> c[i]]
    <3>1. way[1].ansibleHost \in T BY <1>0, <1>10
    <3> HIDE DEF Reverse
    <3> QED BY <2>1, <2>2, <3>1, <1>3
  <2>4. Reverse(b) = [i \in 1..n |-> b[n - i + 1]] BY <1>11 DEF Reverse
  <2>5. ASSUME NEW i \in 1..n PROVE b[n - i + 1] = c[i]
    <3>1. CASE i = n
      <4>1. n - i + 1 = 1 BY <3>1, <1>3
      <4> QED BY <4>1, <3>1, <1>13, <2>3
    <3>2. CASE i # n
      <4>1. i \in 1..(n - 1) /\ n - i \in 1..(n - 1) /\ (n - 1) - i + 1 = n - i BY <3>2, <1>3
      <4> QED BY <4>1, <1>12, <2>2, <2>3
    <3> QED BY <3>1, <3>2
  <2>6. [i \in 1..n |-> b[n - i + 1]] = [i \in 1..n |-> c[i]] BY <2>5
  <2> QED BY <2>1, <2>3, <2>4, <2>6
<1>15. HopsOf(way) = g \o Reverse(a) BY <1>2, <1>7, <1>9 DEF HopsOf
<1>16. HopsOf(v) = g \o Reverse(b)
  <2>1. Len(v) = n + 1 /\ (n + 1) - 1 = n BY <1>3
  <2> QED BY <2>1, <1>4, <1>8, <1>9 DEF HopsOf
<1>17. g \in Seq(T) /\ Reverse(a) \in Seq(T) /\ way[1].ansibleHost \in T
  <2>1. way[n] \in hs BY <1>0, <1>2
  <2>2. g \in Seq(T)
    <3>1. PICK y : y = The(The(way[n].jumpHost).address) OBVIOUS
    <3>2. y \in T BY <3>1, <2>1, <1>10
    <3>3. <<y>> \in Seq(T) /\ <<>> \in Seq(T) BY <3>2
    <3>4. g = <<>> \/ g = <<y>> BY <3>1, <1>9 DEF Gateway
    <3> QED BY <3>3, <3>4
  <2>3. Reverse(a) \in Seq(T) BY <1>11, <1>3 DEF Reverse
  <2> QED BY <2>2, <2>3, <1>0, <1>10
<1>18. g \o Append(Reverse(a), way[1].ansibleHost) = Append(g \o Reverse(a), way[1].ansibleHost)
  <2> HIDE DEF Reverse
  <2> QED BY <1>17
<1> QED BY <1>1, <1>3, <1>6, <1>14, <1>15, <1>16, <1>18

(* The one host of a way that goes no further. *)
LEMMA ShortWay ==
  ASSUME NEW hs, NEW h \in hs, Direct(h)
  PROVE  IsWay(hs, <<h>>) /\ <<h>>[1] = h /\ HopsOf(<<h>>) = Gateway(h)
<1>1. PICK v : v = <<h>> OBVIOUS
<1>2. v \in Seq(hs) /\ Len(v) = 1 /\ v[1] = h BY <1>1
<1>3. IsWay(hs, v) BY <1>2 DEF IsWay
<1>4. [i \in 1..0 |-> v[i + 1].ansibleHost] = <<>> OBVIOUS
<1>5. Reverse(<<>>) = <<>> BY DEF Reverse
<1>6. HopsOf(v) = Gateway(h) \o <<>>
  <2>1. Len(v) - 1 = 0 BY <1>2
  <2> QED BY <2>1, <1>2, <1>4, <1>5 DEF HopsOf
<1>7. Gateway(h) \o <<>> = Gateway(h)
  <2>1. CASE h.jumpHost = {}
    <3>1. Gateway(h) = <<>> BY <2>1 DEF Gateway
    <3> QED BY <3>1
  <2>2. CASE h.jumpHost # {}
    <3>1. PICK y : y = The(The(h.jumpHost).address) OBVIOUS
    <3>2. Gateway(h) = <<y>> BY <2>2, <3>1 DEF Gateway
    <3>3. <<y>> \o <<>> = <<y>> OBVIOUS
    <3> QED BY <3>2, <3>3
  <2> QED BY <2>1, <2>2
<1> QED BY <1>1, <1>2, <1>3, <1>6, <1>7

(* What the body does, in the terms of ways. *)
LEMMA ChainBody ==
  ASSUME NEW hs, NEW f, NEW at
  PROVE  /\ ChainAt(hs, f, at).ok \/ ChainAt(hs, f, at) = Failed
         /\ ChainAt(hs, f, at).ok => (Direct(at[1]) \/ (Goes(hs, at) /\ f[Onward(hs, at)].ok))
         /\ ChainAt(hs, f, at).ok /\ Direct(at[1]) => ChainAt(hs, f, at) = Hops(Gateway(at[1]))
         /\ ~Direct(at[1]) /\ Goes(hs, at) /\ f[Onward(hs, at)].ok =>
              ChainAt(hs, f, at) = Hops(Append(f[Onward(hs, at)].hops, The(Through(hs, at[1])).ansibleHost))
         /\ Direct(at[1]) /\ refKey(at[1]) \notin at[2] => ChainAt(hs, f, at).ok
<1>1. PICK h : h = at[1] OBVIOUS
<1>2. PICK visited : visited = at[2] OBVIOUS
<1>3. \A hops : Hops(hops).ok /\ Hops(hops).hops = hops BY DEF Hops
<1>4. ~Failed.ok BY DEF Failed
<1>5. CASE h.jumpHost = {}
  <2>1. ChainAt(hs, f, at) = Hops(<<>>) BY <1>1, <1>5 DEF ChainAt
  <2>2. Direct(h) /\ Gateway(h) = <<>> BY <1>5 DEF Direct, Gateway
  <2> QED BY <1>1, <1>3, <2>1, <2>2
<1>6. CASE h.jumpHost # {} /\ refKey(h) \in visited
  <2>1. ChainAt(hs, f, at) = Failed BY <1>1, <1>2, <1>6 DEF ChainAt
  <2>2. ~Goes(hs, at) BY <1>1, <1>2, <1>6 DEF Goes
  <2> QED BY <1>1, <1>2, <1>4, <1>6, <2>1, <2>2
<1>7. CASE h.jumpHost # {} /\ refKey(h) \notin visited /\ The(h.jumpHost).address # {}
  <2>1. ChainAt(hs, f, at) = Hops(<<The(The(h.jumpHost).address)>>) BY <1>1, <1>2, <1>7 DEF ChainAt
  <2>2. Direct(h) /\ Gateway(h) = <<The(The(h.jumpHost).address)>> BY <1>7 DEF Direct, Gateway
  <2> QED BY <1>1, <1>3, <2>1, <2>2
<1>8. CASE h.jumpHost # {} /\ refKey(h) \notin visited /\ The(h.jumpHost).address = {}
  <2>1. ~Direct(h) BY <1>8 DEF Direct
  <2>2. PICK jumps : jumps = Through(hs, h) OBVIOUS
  <2>3. CASE jumps = {}
    <3>1. ChainAt(hs, f, at) = Failed BY <1>1, <1>2, <1>8, <2>2, <2>3 DEF ChainAt, Through
    <3>2. ~Goes(hs, at) BY <1>1, <2>2, <2>3 DEF Goes
    <3> QED BY <1>1, <1>4, <2>1, <3>1, <3>2
  <2>4. CASE jumps # {}
    <3>1. PICK upstream : upstream = f[Onward(hs, at)] OBVIOUS
    <3>2. Goes(hs, at) BY <1>1, <1>2, <1>8, <2>2, <2>4 DEF Goes
    <3>3. ChainAt(hs, f, at) = IF upstream.ok THEN Hops(AppendHop(upstream.hops, The(jumps).ansibleHost)) ELSE Failed
      BY <1>1, <1>2, <1>8, <2>2, <2>4, <3>1 DEF ChainAt, Through, Onward
    <3>4. AppendHop(upstream.hops, The(jumps).ansibleHost) = Append(upstream.hops, The(jumps).ansibleHost) BY DEF AppendHop
    <3> QED BY <1>1, <1>3, <1>4, <2>1, <2>2, <3>1, <3>2, <3>3, <3>4
  <2> QED BY <2>3, <2>4
<1> QED BY <1>5, <1>6, <1>7, <1>8

(* A chain that is found is that of a way. *)
LEMMA ChainIsWay ==
  ASSUME NEW hs, IsFiniteSet(hs), NEW f, Solves(hs, f)
  PROVE  \A at \in Places(hs) : f[at].ok =>
           \E way : IsWay(hs, way) /\ way[1] = at[1] /\ f[at] = Hops(HopsOf(way))
<1> DEFINE Found(at) == \E way : IsWay(hs, way) /\ way[1] = at[1] /\ f[at] = Hops(HopsOf(way))
<1> DEFINE S == {n \in Nat : \A at \in Places(hs) : Left(hs, at) < n /\ f[at].ok => Found(at)}
<1>0. \A at \in Places(hs) : Left(hs, at) \in Nat
  <2>1. TAKE at \in Places(hs)
  <2>2. IsFiniteSet(Keys(hs) \ at[2]) BY KeysFinite, FS_Difference
  <2> QED BY <2>2, FS_CardinalityType DEF Left
<1>1. 0 \in S
  <2>1. \A at \in Places(hs) : ~(Left(hs, at) < 0) BY <1>0
  <2> HIDE DEF Found
  <2> QED BY <2>1
<1>2. ASSUME NEW n \in S PROVE n + 1 \in S
  <2>1. ASSUME NEW at \in Places(hs), Left(hs, at) < n + 1, f[at].ok PROVE Found(at)
    <3>1. f[at] = ChainAt(hs, f, at) /\ at[1] \in hs BY DEF Solves, Places
    <3>2. CASE Direct(at[1])
      <4>1. f[at] = Hops(Gateway(at[1])) BY <2>1, <3>1, <3>2, ChainBody
      <4> QED BY <3>1, <3>2, <4>1, ShortWay
    <3>3. CASE ~Direct(at[1])
      <4>1. PICK b : b = Onward(hs, at) OBVIOUS
      <4>2. Goes(hs, at) /\ f[b].ok BY <2>1, <3>1, <3>3, <4>1, ChainBody
      <4>3. f[at] = Hops(Append(f[b].hops, The(Through(hs, at[1])).ansibleHost)) BY <3>1, <3>3, <4>1, <4>2, ChainBody
      <4>4. b \in Places(hs) BY <4>1, <4>2, OnwardPlace
      <4>5. Left(hs, b) < Left(hs, at) BY <4>1, <4>2, OnwardLess
      <4>6. Left(hs, b) < n BY <4>4, <4>5, <2>1, <1>0
      <4>7. Found(b) BY <4>2, <4>4, <4>6
      <4>8. PICK way : IsWay(hs, way) /\ way[1] = b[1] /\ f[b] = Hops(HopsOf(way)) BY <4>7
      <4>9. way[1] = The(Through(hs, at[1])) BY <4>1, <4>8 DEF Onward
      <4>10. way[1] \in Through(hs, at[1]) BY <4>2, <4>9, ChooseMember DEF Goes
      <4>11. /\ IsWay(hs, <<at[1]>> \o way) /\ (<<at[1]>> \o way)[1] = at[1]
             /\ HopsOf(<<at[1]>> \o way) = Append(HopsOf(way), way[1].ansibleHost)
        BY <3>1, <3>3, <4>8, <4>10, HopsExtend
      <4>12. f[b].hops = HopsOf(way) BY <4>8 DEF Hops
      <4>13. f[at] = Hops(HopsOf(<<at[1]>> \o way)) BY <4>3, <4>9, <4>11, <4>12
      <4> QED BY <4>11, <4>13
    <3> QED BY <3>2, <3>3
  <2> HIDE DEF Found
  <2> QED BY <2>1
<1>3. S = Nat
  <2>1. S \in SUBSET Nat OBVIOUS
  <2> HIDE DEF S
  <2> QED BY <1>1, <1>2, <2>1, NatSets
<1>4. ASSUME NEW at \in Places(hs), f[at].ok PROVE Found(at)
  <2>1. Left(hs, at) + 1 \in S /\ Left(hs, at) < Left(hs, at) + 1 BY <1>0, <1>3
  <2> HIDE DEF Found
  <2> QED BY <2>1, <1>4
<1> QED BY <1>4

(* Where there is a way a chain is found: no host is met twice. *)
LEMMA WayIsChain ==
  ASSUME NEW hs, IsFiniteSet(hs), Unique(hs), NEW f, Solves(hs, f), NEW w, IsWay(hs, w)
  PROVE  f[<<w[1], {}>>].ok
<1> DEFINE Avoids(way, V) == \A i \in 1..Len(way) : refKey(way[i]) \notin V
<1> DEFINE S == {n \in Nat : \A way : IsWay(hs, way) /\ Len(way) = n =>
                               \A V \in SUBSET Keys(hs) : Avoids(way, V) => f[<<way[1], V>>].ok}
<1>1. 0 \in S BY DEF IsWay
<1>2. ASSUME NEW n \in S PROVE n + 1 \in S
  <2>1. ASSUME NEW way, IsWay(hs, way), Len(way) = n + 1, NEW V \in SUBSET Keys(hs), Avoids(way, V)
        PROVE  f[<<way[1], V>>].ok
    <3>1. PICK at : at = <<way[1], V>> OBVIOUS
    <3>0. way \in Seq(hs) /\ n \in Nat BY <2>1 DEF IsWay
    <3>2. at[1] = way[1] /\ at[2] = V /\ way[1] \in hs /\ at \in Places(hs)
      BY <3>0, <3>1, <2>1 DEF Places
    <3>3. f[at] = ChainAt(hs, f, at) BY <3>2 DEF Solves
    <3>4. refKey(way[1]) \notin V BY <2>1, <3>0
    <3>5. CASE Direct(way[1]) BY <3>1, <3>2, <3>3, <3>4, <3>5, ChainBody
    <3>6. CASE ~Direct(way[1])
      <4>1. n # 0
        <5>1. Direct(way[Len(way)]) BY <2>1 DEF IsWay
        <5> QED BY <5>1, <3>6, <2>1
      <4>2. 2 \in 2..Len(way) /\ 2 - 1 = 1 /\ 2 \in 1..Len(way) BY <4>1, <2>1, <3>0
      <4>3. way[2] \in Through(hs, way[1]) BY <4>2, <2>1 DEF IsWay
      <4>4. The(Through(hs, way[1])) = way[2]
        <5>1. The(Through(hs, way[1])) \in Through(hs, way[1]) BY <4>3, ChooseMember
        <5> QED BY <4>3, <5>1, OneThrough
      <4>5. Goes(hs, at) BY <3>2, <3>4, <4>3 DEF Goes
      <4>6. PICK U : U = V \cup {refKey(way[1])} OBVIOUS
      <4>7. Onward(hs, at) = <<way[2], U>> BY <3>2, <4>4, <4>6 DEF Onward
      <4>8. U \in SUBSET Keys(hs) BY <3>2, <4>6 DEF Keys
      <4>9. PICK rest : rest = Rest(way, 2) OBVIOUS
      <4>10. /\ IsWay(hs, rest) /\ Len(rest) = n /\ rest[1] = way[2]
             /\ \A i \in 1..n : rest[i] = way[i + 1]
        <5>0. \A k \in 1..Len(way) :
                /\ IsWay(hs, Rest(way, k)) /\ Len(Rest(way, k)) = Len(way) - k + 1
                /\ Rest(way, k)[1] = way[k]
                /\ \A i \in 1..(Len(way) - k + 1) : Rest(way, k)[i] = way[i + k - 1]
          <6>1. TAKE k \in 1..Len(way)
          <6>2. IsWay(hs, way) BY <2>1
          <6> HIDE DEF Rest
          <6> QED BY <6>2, RestIsWay
        <5>1. /\ IsWay(hs, Rest(way, 2)) /\ Len(Rest(way, 2)) = Len(way) - 2 + 1
              /\ Rest(way, 2)[1] = way[2]
              /\ \A i \in 1..(Len(way) - 2 + 1) : Rest(way, 2)[i] = way[i + 2 - 1]
          BY <4>2, <5>0
        <5>2. Len(way) - 2 + 1 = n /\ \A i \in 1..n : i + 2 - 1 = i + 1 BY <2>1, <3>0
        <5> HIDE DEF Rest
        <5> QED BY <4>9, <5>1, <5>2
      <4>11. ASSUME NEW i \in 1..n PROVE refKey(rest[i]) \notin U
        <5>1. rest[i] = way[i + 1] /\ i + 1 \in 1..Len(way) /\ i + 1 # 1 /\ 1 \in 1..Len(way)
          BY <4>10, <2>1, <3>0
        <5>2. refKey(way[i + 1]) \notin V BY <5>1, <2>1
        <5>3. way[i + 1] # way[1] BY <5>1, <2>1, NoCircle
        <5>4. way[i + 1] \in hs BY <5>1, <3>0
        <5>5. refKey(way[i + 1]) # refKey(way[1]) BY <5>3, <5>4, <3>2 DEF Unique
        <5> QED BY <5>1, <5>2, <5>5, <4>6
      <4>12. f[<<way[2], U>>].ok BY <4>8, <4>10, <4>11
      <4>13. f[Onward(hs, at)].ok BY <4>7, <4>12
      <4>14. ChainAt(hs, f, at) = Hops(Append(f[Onward(hs, at)].hops, The(Through(hs, at[1])).ansibleHost))
        BY <3>2, <3>6, <4>5, <4>13, ChainBody
      <4> QED BY <3>1, <3>3, <4>14 DEF Hops
    <3> QED BY <3>5, <3>6
  <2> HIDE DEF Avoids
  <2>2. n + 1 \in Nat OBVIOUS
  <2> QED BY <2>1, <2>2
<1>3. S = Nat
  <2>1. S \in SUBSET Nat OBVIOUS
  <2> HIDE DEF S
  <2> QED BY <1>1, <1>2, <2>1, NatSets
<1>4. Len(w) \in S
  <2>1. Len(w) \in Nat BY DEF IsWay
  <2> QED BY <2>1, <1>3
<1>5. Avoids(w, {}) OBVIOUS
<1> HIDE DEF Avoids
<1>6. {} \in SUBSET Keys(hs) OBVIOUS
<1> QED BY <1>4, <1>5, <1>6

LEMMA WaysAreWays ==
  ASSUME NEW hs, IsFiniteSet(hs), Unique(hs), NEW h \in hs, NEW way
  PROVE  way \in Ways(hs, h) <=> IsWay(hs, way) /\ way[1] = h
<1>0. Cardinality(hs) \in Nat BY FS_CardinalityType
<1>1. ASSUME way \in Ways(hs, h) PROVE IsWay(hs, way) /\ way[1] = h
  <2>1. PICK n \in 1..Cardinality(hs) : way \in [1..n -> hs] BY <1>1 DEF Ways
  <2>2. n \in Nat \ {0} BY <1>0
  <2>3. way \in Seq(hs) /\ Len(way) = n BY <2>1, <2>2
  <2> QED BY <1>1, <2>2, <2>3 DEF Ways, IsWay
<1>2. ASSUME IsWay(hs, way), way[1] = h PROVE way \in Ways(hs, h)
  <2>1. way \in Seq(hs) /\ Len(way) \in Nat \ {0} BY <1>2 DEF IsWay
  <2>2. PICK n : n = Len(way) OBVIOUS
  <2>3. way \in [1..n -> hs] BY <2>1, <2>2
  <2>4. \A i, j \in 1..n : way[i] = way[j] => i = j BY <1>2, <2>2, NoCircle
  <2>5. way \in Injection(1..n, hs) BY <2>3, <2>4 DEF Injection, IsInjective
  <2>6. n <= Cardinality(hs)
    <3>1. IsFiniteSet(1..n) /\ Cardinality(1..n) = n
      <4>1. 1 \in Int /\ n \in Int BY <2>1, <2>2
      <4>2. IsFiniteSet(1..n) /\ Cardinality(1..n) = IF 1 > n THEN 0 ELSE n - 1 + 1 BY <4>1, FS_Interval
      <4> QED BY <4>2, <2>1, <2>2
    <3>2. Cardinality(1..n) <= Cardinality(hs) BY <2>5, <3>1, FS_Injection
    <3> QED BY <3>1, <3>2
  <2>7. n \in 1..Cardinality(hs) BY <2>1, <2>2, <2>6, <1>0
  <2>8. way \in UNION {[1..m -> hs] : m \in 1..Cardinality(hs)} BY <2>3, <2>7
  <2> QED BY <1>2, <2>8 DEF Ways, IsWay
<1> QED BY <1>1, <1>2

(* For any hosts: resolveJumpChain returns the hops of the way, if there is one. *)
LEMMA ChainConnects ==
  ASSUME NEW hs, IsFiniteSet(hs), Unique(hs), NEW h \in hs
  PROVE  resolveJumpChain(hs, h) =
           IF Ways(hs, h) = {} THEN Failed ELSE Hops(HopsOf(The(Ways(hs, h))))
<1>1. PICK f : Solves(hs, f) /\ resolveJumpChain(hs, h) = f[<<h, {}>>] BY ChainSolved
<1>2. PICK at : at = <<h, {}>> OBVIOUS
<1>3. at \in Places(hs) /\ at[1] = h BY <1>2 DEF Places
<1>4. f[at].ok \/ f[at] = Failed BY <1>1, <1>3, ChainBody DEF Solves
<1>5. ~Failed.ok BY DEF Failed
<1>6. CASE f[at].ok
  <2>1. PICK way : IsWay(hs, way) /\ way[1] = h /\ f[at] = Hops(HopsOf(way)) BY <1>1, <1>3, <1>6, ChainIsWay
  <2>2. way \in Ways(hs, h) BY <2>1, WaysAreWays
  <2>3. PICK w : w = The(Ways(hs, h)) OBVIOUS
  <2>4. w \in Ways(hs, h) BY <2>2, <2>3, ChooseMember
  <2>5. IsWay(hs, w) /\ w[1] = h BY <2>4, WaysAreWays
  <2>6. w = way BY <2>1, <2>5, OneWay
  <2> QED BY <1>1, <1>2, <2>1, <2>2, <2>3, <2>6
<1>7. CASE ~f[at].ok
  <2>1. ASSUME NEW way \in Ways(hs, h) PROVE FALSE
    <3>1. IsWay(hs, way) /\ way[1] = h BY <2>1, WaysAreWays
    <3> QED BY <3>1, <1>1, <1>2, <1>7, WayIsChain
  <2>2. Ways(hs, h) = {} BY <2>1
  <2> QED BY <1>1, <1>2, <1>4, <1>7, <2>2
<1> QED BY <1>6, <1>7

-----------------------------------------------------------------------------
(***************************************************************************)
(* Lists (permission-engine.ts, planList and executeListPlan).             *)
(***************************************************************************)

(* What a call of a plan lists.                                            *)
LEMMA CallMatches ==
  ASSUME NEW string, NEW asked, NEW labels
  PROVE  ServerMatches(andSelectors(string, asked), labels)
           <=> ServerMatches(string, labels) /\ ServerMatches(asked, labels)
BY DEF ServerMatches, andSelectors

LEMMA StringMatches ==
  ASSUME NEW selector, NEW labels
  PROVE  ServerMatches(labelSelectorToString(selector), labels) <=> labelSelectorMatches(selector, labels)
BY DEF ServerMatches, labelSelectorToString, labelSelectorMatches

LEMMA ReadBackMatches ==
  ASSUME NEW asked, ReadBack(asked), NEW labels
  PROVE  labelSelectorMatches(parseLabelSelectorString(asked), labels) <=> ServerMatches(asked, labels)
<1>1. \A r \in asked : Pieces(r) = r BY DEF ReadBack, Pieces
<1>2. {Pieces(r) : r \in asked} = asked BY <1>1
<1> QED BY <1>2 DEF parseLabelSelectorString, labelSelectorMatches, ServerMatches

(* A call lists what lies in its namespace and matches. *)
Reaches(entry, o) ==
  entry.namespace \in {NoNamespace, o.namespace} /\ ServerMatches(entry.labelSelector, o.labels)

(* What a grant is for. *)
Covers(p, o) == namespaceMatches(p, o.namespace) /\ labelSelectorMatches(p.labelSelector, o.labels)

LEMMA NoRequirement == \A labels : ServerMatches({}, labels) /\ labelSelectorMatches({}, labels)
BY DEF ServerMatches, labelSelectorMatches

(* One namespace's grants, collapsed, reach what one of them is for. *)
LEMMA CollapsedReaches ==
  ASSUME NEW grants, NEW namespace, NEW o, namespace \in {NoNamespace, o.namespace}
  PROVE  (\E entry \in Collapsed(grants, namespace) : Reaches(entry, o))
           <=> \E p \in grants : labelSelectorMatches(p.labelSelector, o.labels)
<1>1. CASE \E p \in grants : p.labelSelector = {}
  <2>1. Collapsed(grants, namespace) = {Entry(namespace, {})} BY <1>1 DEF Collapsed
  <2>2. Reaches(Entry(namespace, {}), o) BY NoRequirement DEF Reaches, Entry
  <2> QED BY <1>1, <2>1, <2>2, NoRequirement
<1>2. CASE ~ \E p \in grants : p.labelSelector = {}
  <2>1. Collapsed(grants, namespace) = {Entry(namespace, labelSelectorToString(p.labelSelector)) : p \in grants}
    BY <1>2 DEF Collapsed
  <2>2. \A p \in grants : Reaches(Entry(namespace, labelSelectorToString(p.labelSelector)), o)
                            <=> labelSelectorMatches(p.labelSelector, o.labels)
    BY StringMatches DEF Reaches, Entry
  <2> QED BY <2>1, <2>2
<1> QED BY <1>1, <1>2

(* A fan-out over namespaces reaches what one of the grants covers. *)
LEMMA EverywhereReaches ==
  ASSUME NEW grants, \A p \in grants : NoNamespace \notin p.namespaces,
         NEW o, o.namespace # NoNamespace
  PROVE  (\E entry \in Everywhere(grants) : Reaches(entry, o)) <=> \E p \in grants : Covers(p, o)
<1>1. CASE \E p \in grants : p.namespaces = {} /\ p.labelSelector = {}
  <2>1. Everywhere(grants) = {Entry(NoNamespace, {})} BY <1>1 DEF Everywhere
  <2>2. Reaches(Entry(NoNamespace, {}), o) BY NoRequirement DEF Reaches, Entry
  <2> QED BY <1>1, <2>1, <2>2, NoRequirement DEF Covers, namespaceMatches
<1>2. CASE ~ \E p \in grants : p.namespaces = {} /\ p.labelSelector = {}
  <2> DEFINE Of(p) == {Entry(ns, labelSelectorToString(p.labelSelector)) :
                         ns \in IF p.namespaces = {} THEN {NoNamespace} ELSE p.namespaces}
  <2>1. Everywhere(grants) = UNION {Of(p) : p \in grants} BY <1>2 DEF Everywhere
  <2>2. ASSUME NEW p \in grants
        PROVE  (\E entry \in Of(p) : Reaches(entry, o)) <=> Covers(p, o)
    <3>1. \A ns : Reaches(Entry(ns, labelSelectorToString(p.labelSelector)), o)
                    <=> ns \in {NoNamespace, o.namespace} /\ labelSelectorMatches(p.labelSelector, o.labels)
      BY StringMatches DEF Reaches, Entry
    <3>2. CASE p.namespaces = {} BY <3>1, <3>2 DEF Covers, namespaceMatches
    <3>3. CASE p.namespaces # {} BY <3>1, <3>3 DEF Covers, namespaceMatches
    <3> QED BY <3>2, <3>3
  <2> HIDE DEF Of
  <2> QED BY <2>1, <2>2
<1> QED BY <1>1, <1>2

(* The calls of a plan reach what the user may list. *)
LEMMA PlanReaches ==
  ASSUME NEW perms, \A p \in perms : NoNamespace \notin p.namespaces,
         NEW listed, NEW requested, NEW o,
         o.kind = listed, requested \in {NoNamespace, o.namespace},
         (o.namespace = NoNamespace) <=> (Scope(listed) = "Cluster")
  PROVE  (\E entry \in planList(perms, listed, Scope(listed), "list", requested) : Reaches(entry, o))
           <=> canAct(perms, o.kind, o.namespace, o.labels, "list")
<1> DEFINE applicable == {p \in perms : matchesType(p, listed) /\ matchesAction(p, "list")}
<1>1. canAct(perms, o.kind, o.namespace, o.labels, "list") <=> \E p \in applicable : Covers(p, o)
  BY DEF canAct, Covers
<1>2. \A p \in applicable : NoNamespace \notin p.namespaces OBVIOUS
<1>3. CASE Scope(listed) = "Cluster"
  <2>1. planList(perms, listed, Scope(listed), "list", requested) = Collapsed(applicable, NoNamespace)
    BY <1>3 DEF planList
  <2>2. \A p \in applicable : Covers(p, o) <=> labelSelectorMatches(p.labelSelector, o.labels)
    BY <1>3 DEF Covers, namespaceMatches
  <2> HIDE DEF applicable
  <2> QED BY <1>1, <2>1, <2>2, CollapsedReaches
<1>4. CASE Scope(listed) # "Cluster" /\ requested # NoNamespace
  <2>1. planList(perms, listed, Scope(listed), "list", requested)
          = Collapsed(InScope(applicable, requested), requested)
    BY <1>4 DEF planList
  <2>2. requested = o.namespace BY <1>4
  <2>3. \A p \in applicable : Covers(p, o) <=> /\ p \in InScope(applicable, requested)
                                               /\ labelSelectorMatches(p.labelSelector, o.labels)
    BY <1>4, <2>2 DEF Covers, namespaceMatches, InScope
  <2>4. InScope(applicable, requested) \subseteq applicable BY DEF InScope
  <2> HIDE DEF applicable
  <2> QED BY <1>1, <2>1, <2>2, <2>3, <2>4, CollapsedReaches
<1>5. CASE Scope(listed) # "Cluster" /\ requested = NoNamespace
  <2>1. planList(perms, listed, Scope(listed), "list", requested) = Everywhere(applicable)
    BY <1>5 DEF planList
  <2> HIDE DEF applicable
  <2> QED BY <1>1, <1>2, <1>5, <2>1, EverywhereReaches
<1> QED BY <1>3, <1>4, <1>5

(* Two grants for the same objects, of which the first is to watch them.    *)
SameReach(q, p) ==
  /\ q.type = p.type /\ q.namespaces = p.namespaces /\ q.labelSelector = p.labelSelector
  /\ matchesAction(q, "watch")

(* For any objects, grants and selector: the list is what the watch relays. *)
LEMMA ListAgreesWithWatch ==
  ASSUME NEW hs, Objects(hs), NEW perms, InNamespaces(perms),
         NEW listed, NEW requested, Scope(listed) = "Cluster" => requested = Nowhere,
         NEW asked, ReadBack(asked)
  PROVE  executeListPlan(hs, listed, planList(perms, listed, Scope(listed), "list", requested), asked)
           = {h \in hs : /\ h.kind = listed /\ requested \in {Nowhere, h.namespace}
                         /\ WatchFilter(ToWatch(perms), asked, h)}
<1> DEFINE plan == planList(perms, listed, Scope(listed), "list", requested)
<1> DEFINE all == executeListPlan(hs, listed, plan, asked)
<1>0. /\ \A p \in perms : matchesAction(p, "list") =>
             \E q \in ToWatch(perms) : SameReach(q, p)
      /\ \A q \in ToWatch(perms) : \E p \in perms : matchesAction(p, "list") /\ SameReach(q, p)
  <2> DEFINE Watching(p) == [type |-> p.type, namespaces |-> p.namespaces,
                             labelSelector |-> p.labelSelector, actions |-> {"watch"}]
  <2>1. ASSUME NEW p PROVE SameReach(Watching(p), p) BY DEF SameReach, matchesAction
  <2>2. ToWatch(perms) = {Watching(p) : p \in {q \in perms : matchesAction(q, "list")}}
    BY DEF ToWatch
  <2> HIDE DEF Watching
  <2> QED BY <2>1, <2>2
<1>1. \A p \in perms : NoNamespace \notin p.namespaces BY DEF InNamespaces, Nowhere, NoNamespace
<1>2. ASSUME NEW h \in hs, h.kind = listed
      PROVE  h \in all <=> (\E entry \in plan : Reaches(entry, h)) /\ ServerMatches(asked, h.labels)
  BY <1>2, CallMatches DEF executeListPlan, ListOne, Reaches
<1>3. \A h \in all : h \in hs /\ h.kind = listed BY DEF executeListPlan, ListOne
<1>4. ASSUME NEW h \in hs
      PROVE  canAct(perms, h.kind, h.namespace, h.labels, "list")
               <=> canAct(ToWatch(perms), h.kind, h.namespace, h.labels, "watch")
  BY <1>0 DEF canAct, SameReach, matchesType, namespaceMatches
<1>5. ASSUME NEW h \in hs, h.kind = listed, requested \in {NoNamespace, h.namespace}
      PROVE  h \in all <=> WatchFilter(ToWatch(perms), asked, h)
  <2>1. (h.namespace = NoNamespace) <=> (Scope(listed) = "Cluster")
    BY <1>5 DEF Objects, Nowhere, NoNamespace
  <2>2. (\E entry \in plan : Reaches(entry, h)) <=> canAct(perms, h.kind, h.namespace, h.labels, "list")
    BY <1>1, <1>5, <2>1, PlanReaches
  <2> HIDE DEF plan, all
  <2> QED BY <1>2, <1>4, <1>5, <2>2, ReadBackMatches DEF WatchFilter
<1>6. ASSUME NEW h \in all PROVE requested \in {NoNamespace, h.namespace}
  <2>1. PICK entry \in plan : entry.namespace \in {NoNamespace, h.namespace}
    BY DEF executeListPlan, ListOne
  <2>2. CASE Scope(listed) = "Cluster" BY <2>2 DEF Nowhere, NoNamespace
  <2>3. CASE Scope(listed) # "Cluster" /\ requested # NoNamespace
    <3>1. \A grants : \A e \in Collapsed(grants, requested) : e.namespace = requested
      BY DEF Collapsed, Entry
    <3>2. entry.namespace = requested BY <2>3, <3>1 DEF planList
    <3> QED BY <2>1, <2>3, <3>2
  <2> QED BY <2>2, <2>3
<1>7. Nowhere = NoNamespace BY DEF Nowhere, NoNamespace
<1> HIDE DEF all
<1>8. all = {h \in hs : /\ h.kind = listed /\ requested \in {Nowhere, h.namespace}
                        /\ WatchFilter(ToWatch(perms), asked, h)}
  BY <1>3, <1>5, <1>6, <1>7
<1> QED BY <1>8 DEF all

-----------------------------------------------------------------------------
(***************************************************************************)
(* Inventories (inventory-resolve.ts): what resolveInventoryGroups returns *)
(* is what shardHosts is made for.                                         *)
(***************************************************************************)

(* A finite set is listed as a sequence.                                   *)
LEMMA SetListed ==
  ASSUME NEW S, IsFiniteSet(S)
  PROVE  SetToSeq(S) \in Seq(S)
<1>1. PICK n \in Nat : ExistsBijection(1..n, S) BY FS_NatBijection
<1>2. Cardinality(S) = n BY <1>1, FS_CountingElements
<1>3. PICK f : f \in Bijection(1..n, S) BY <1>1 DEF ExistsBijection
<1>4. f \in [1..Cardinality(S) -> S] /\ IsInjective(f)
  BY <1>2, <1>3 DEF Bijection, Injection
<1>5. SetToSeq(S) \in [1..Cardinality(S) -> S] BY <1>4 DEF SetToSeq
<1> QED BY <1>2, <1>5

(* One source lists hosts there are.                                       *)
LEMMA SourceListed ==
  ASSUME NEW hs, IsFiniteSet(hs), NEW source, NEW namespace
  PROVE  ListSource(hs, source, namespace) \in Seq(hs)
<1> DEFINE ns == IF source.kind # "AnsibleHost" THEN Nowhere
                 ELSE IF source.namespace # Nowhere THEN source.namespace
                 ELSE namespace
<1>1. PICK S : S = {h \in hs : /\ h.kind = source.kind /\ h.namespace = ns
                             /\ ServerMatches(labelSelectorToString(source.labelSelector), h.labels)}
  OBVIOUS
<1>2. S \subseteq hs BY <1>1
<1>3. IsFiniteSet(S) BY <1>2, FS_Subset
<1>4. SetToSeq(S) \in Seq(S) BY <1>3, SetListed
<1>5. ListSource(hs, source, namespace) = SetToSeq(S) BY <1>1 DEF ListSource
<1>6. \A s \in Seq(S) : s \in Seq(hs) BY <1>2
<1> QED BY <1>4, <1>5, <1>6

(* A group has hosts there are.                                            *)
LEMMA GroupListed ==
  ASSUME NEW T, NEW lists \in Seq(Seq(T))
  PROVE  GroupHosts(lists) \in Seq(T)
<1>1. PICK all : all = FlattenSeq(lists) OBVIOUS
<1>2. all \in Seq(T) BY <1>1, FlattenType
<1>3. GroupHosts(lists) = Distinct(all) BY <1>1 DEF GroupHosts, The
<1> DEFINE First_(i) == \A j \in 1..(i - 1) : refKey(all[j]) # refKey(all[i])
<1>4. PICK s : s = [i \in DOMAIN all |-> IF all[i].enabled /\ First_(i) THEN <<all[i]>> ELSE <<>>] OBVIOUS
<1>5. Distinct(all) = FlattenSeq(s) BY <1>4 DEF Distinct
<1>6. \A i \in DOMAIN all : <<all[i]>> \in Seq(T) /\ <<>> \in Seq(T) BY <1>2
<1> HIDE DEF First_
<1>7. s \in [1..Len(all) -> Seq(T)] BY <1>2, <1>4, <1>6
<1>8. Len(all) \in Nat BY <1>2
<1>9. PICK U : U = Seq(T) OBVIOUS
<1>10. s \in Seq(U) BY <1>7, <1>8, <1>9
<1>11. FlattenSeq(s) \in Seq(T) BY <1>9, <1>10, FlattenType
<1> QED BY <1>3, <1>5, <1>11

-----------------------------------------------------------------------------
(***************************************************************************)
(* The reference controllers (host-, playbook-, sshkey- and inventory-     *)
(* controller.ts): what each variable holds.  A status is of a generation  *)
(* the object has had, a reconcile's copy is no newer than the object, and *)
(* it has looked up no more than its spec lists.                           *)
(***************************************************************************)

Status(ready, reason, generation, result) ==
  [ready |-> ready, reason |-> reason, generation |-> generation, result |-> result]

(* An object of the kind, whose status is of one of its generations up to g. *)
IsObject(o, g) ==
  /\ o = [spec |-> o.spec, generation |-> o.generation, status |-> o.status]
  /\ o.status = Status(o.status.ready, o.status.reason, o.status.generation, o.status.result)
  /\ o.spec \in Specs[kind] /\ o.generation \in 1..g
  /\ o.status.generation \in 0..o.generation

WorldInv ==
  /\ kind \in Kinds /\ hosts \in HostSets[kind] /\ files \in FileSets[kind] /\ edits \in 0..MaxEdits
ObjectInv == IsObject(obj, edits + 1) /\ IsObject(copy, obj.generation)
QueueInv == unseen \in BOOLEAN /\ armed \in BOOLEAN

WorkerInv(w) ==
  /\ IsObject(snap[w], obj.generation) /\ IsSequence(found[w])
  /\ Len(found[w]) <= Len(Lookups(snap[w].spec))
  /\ pc[w] = "idle" => found[w] = <<>>

LocalInv ==
  /\ pc \in [Workers -> {"idle", "look", "ready"}]
  /\ DOMAIN snap = Workers /\ DOMAIN found = Workers
  /\ \A w \in Workers : WorkerInv(w)

TypeInv == WorldInv /\ ObjectInv /\ QueueInv /\ LocalInv

(* What is looked up is a sequence.                                        *)
LEMMA LookupsLength ==
  ASSUME kind \in Kinds, NEW spec \in Specs[kind]
  PROVE  Len(Lookups(spec)) \in Nat
<1>1. kind \in {"Host", "Playbook", "SSHKey", "Inventory"} /\ IsSpec(kind, spec)
  BY ControllersAssumption
<1>2. CASE kind = "Host"
  <2>1. spec.hostRef \in Seq(ToSet(spec.hostRef)) BY <1>1, <1>2 DEF IsSpec, IsSequence
  <2>2. Lookups(spec) = spec.hostRef BY <1>2 DEF Lookups
  <2> QED BY <2>1, <2>2
<1>3. CASE kind \in {"Playbook", "SSHKey"}
  <2>1. spec.refs \in Seq(ToSet(spec.refs)) BY <1>1, <1>3 DEF IsSpec, IsSequence
  <2>2. Lookups(spec) = spec.refs BY <1>3 DEF Lookups
  <2> QED BY <2>1, <2>2
<1>4. CASE kind = "Inventory"
  <2>1. PICK groups : groups = spec.groups OBVIOUS
  <2>2. groups \in Seq(ToSet(groups)) /\ \A i \in DOMAIN groups : IsSequence(groups[i].hostSources)
    BY <1>1, <1>4, <2>1 DEF IsSpec, IsSequence
  <2>3. PICK n \in Nat : n = Len(groups) BY <2>2
  <2>4. DOMAIN groups = 1..n BY <2>2, <2>3
  <2>5. PICK T : T = UNION {ToSet(groups[i].hostSources) : i \in 1..n} OBVIOUS
  <2>6. PICK s : s = [i \in DOMAIN groups |-> groups[i].hostSources] OBVIOUS
  <2>7. ASSUME NEW i \in 1..n PROVE groups[i].hostSources \in Seq(T)
    <3>1. PICK x : x = groups[i].hostSources OBVIOUS
    <3>2. x \in Seq(ToSet(x)) BY <2>2, <2>4, <3>1 DEF IsSequence
    <3>3. ToSet(x) \subseteq T BY <2>5, <3>1
    <3>4. x \in Seq(T) BY <3>2, <3>3
    <3> QED BY <3>1, <3>4
  <2>8. PICK U : U = Seq(T) OBVIOUS
  <2>9. s \in Seq(U) BY <2>3, <2>4, <2>6, <2>7, <2>8
  <2>10. FlattenSeq(s) \in Seq(T) BY <2>8, <2>9, FlattenType
  <2>11. Lookups(spec) = FlattenSeq(s) BY <1>4, <2>1, <2>6 DEF Lookups
  <2>12. PICK f : f = FlattenSeq(s) OBVIOUS
  <2>13. Len(f) \in Nat BY <2>10, <2>12
  <2> QED BY <2>11, <2>12, <2>13
<1> QED BY <1>1, <1>2, <1>3, <1>4

LEMMA OneMoreAnswer ==
  ASSUME NEW s, IsSequence(s), NEW x
  PROVE  IsSequence(Append(s, x)) /\ Len(Append(s, x)) = Len(s) + 1 /\ Len(s) \in Nat
<1>1. PICK T : T = ToSet(s) \cup {x} OBVIOUS
<1>2. s \in Seq(T) /\ x \in T BY <1>1 DEF IsSequence
<1>3. PICK t : t = Append(s, x) OBVIOUS
<1>4. t \in Seq(T) /\ Len(t) = Len(s) + 1 /\ Len(s) \in Nat BY <1>2, <1>3
<1>5. t \in [1..Len(t) -> ToSet(t)] /\ Len(t) \in Nat BY <1>4 DEF ToSet
<1>6. t \in Seq(ToSet(t))
  <2>1. PICK R : R = ToSet(t) OBVIOUS
  <2>2. t \in Seq(R) BY <1>5, <2>1
  <2> QED BY <2>1, <2>2
<1> QED BY <1>3, <1>4, <1>6 DEF IsSequence

LEMMA InitTyped == Init => TypeInv
<1> SUFFICES ASSUME Init PROVE TypeInv OBVIOUS
<1>1. WorldInv BY ControllersAssumption DEF Init, WorldInv
<1>2. PICK spec \in Specs[kind] : obj = NewObject(spec) BY DEF Init
<1>3. IsObject(obj, 1) /\ obj.generation = 1
  BY <1>2 DEF IsObject, NewObject, NewStatus, Status
<1>4. edits + 1 = 1 BY DEF Init
<1>5. ObjectInv BY <1>3, <1>4 DEF Init, ObjectInv
<1>6. QueueInv BY DEF Init, QueueInv
<1>7. \A w \in Workers : WorkerInv(w)
  <2> TAKE w \in Workers
  <2>1. snap[w] = obj /\ found[w] = <<>> BY DEF Init
  <2>2. IsSequence(<<>>) /\ Len(<<>>) = 0 BY DEF IsSequence, ToSet
  <2>3. Len(Lookups(snap[w].spec)) \in Nat BY <1>1, <1>3, <2>1, LookupsLength DEF IsObject, WorldInv
  <2> QED BY <1>3, <2>1, <2>2, <2>3 DEF WorkerInv
<1>8. LocalInv BY <1>7 DEF Init, LocalInv
<1> QED BY <1>1, <1>5, <1>6, <1>8 DEF TypeInv

LEMMA SamePatched ==
  ASSUME NEW o, NEW g, IsObject(o, g)
  PROVE  /\ \A result : IsObject([o EXCEPT !.status.result = result], g)
         /\ \A verdict, generation : generation \in 0..o.generation =>
              IsObject([o EXCEPT !.status = Condition(@, verdict, generation)], g)
         /\ \A result : [o EXCEPT !.status.result = result].generation = o.generation
         /\ \A status : [o EXCEPT !.status = status].generation = o.generation
<1>1. PICK s : s = o.status OBVIOUS
<1>2. o = [spec |-> o.spec, generation |-> o.generation, status |-> s] BY <1>1 DEF IsObject
<1>3. s = Status(s.ready, s.reason, s.generation, s.result) BY <1>1 DEF IsObject
<1>4. ASSUME NEW result PROVE IsObject([o EXCEPT !.status.result = result], g)
  <2>1. PICK t : t = [s EXCEPT !.result = result] OBVIOUS
  <2>2. t = Status(s.ready, s.reason, s.generation, result) BY <1>3, <2>1 DEF Status
  <2>3. PICK n : n = [o EXCEPT !.status.result = result] OBVIOUS
  <2>4. n = [spec |-> o.spec, generation |-> o.generation, status |-> t] BY <1>1, <1>2, <2>1, <2>3
  <2>5. /\ n.spec = o.spec /\ n.generation = o.generation /\ n.status = t
        /\ t.generation = s.generation /\ t = Status(t.ready, t.reason, t.generation, t.result)
    BY <2>2, <2>4 DEF Status
  <2>6. IsObject(n, g) BY <1>1, <2>4, <2>5 DEF IsObject
  <2> QED BY <2>3, <2>6
<1>5. ASSUME NEW verdict, NEW generation \in 0..o.generation
      PROVE  IsObject([o EXCEPT !.status = Condition(@, verdict, generation)], g)
  <2>1. PICK t : t = Condition(s, verdict, generation) OBVIOUS
  <2>2. t = Status(verdict.ready, verdict.reason, generation, s.result) BY <1>3, <2>1 DEF Status, Condition
  <2>3. PICK n : n = [o EXCEPT !.status = Condition(@, verdict, generation)] OBVIOUS
  <2>4. n = [spec |-> o.spec, generation |-> o.generation, status |-> t] BY <1>1, <1>2, <2>1, <2>3
  <2>5. /\ n.spec = o.spec /\ n.generation = o.generation /\ n.status = t
        /\ t.generation = generation /\ t = Status(t.ready, t.reason, t.generation, t.result)
    BY <2>2, <2>4 DEF Status
  <2>6. IsObject(n, g) BY <2>4, <2>5 DEF IsObject
  <2> QED BY <2>3, <2>6
<1>6. /\ \A result : [o EXCEPT !.status.result = result].generation = o.generation
      /\ \A status : [o EXCEPT !.status = status].generation = o.generation
  BY <1>2
<1> QED BY <1>4, <1>5, <1>6

(* A write keeps the object what it is, of the same generation.            *)
LEMMA WriteTyped ==
  ASSUME TypeInv, UNCHANGED worldVars, copy' = copy, armed' \in BOOLEAN,
         NEW new, IsObject(new, edits + 1), new.generation = obj.generation, NEW differs \in SUBSET BOOLEAN,
         Write(new, differs) \/ Write(obj, {FALSE})
  PROVE  WorldInv' /\ ObjectInv' /\ QueueInv' /\ obj'.generation = obj.generation
<1>1. WorldInv' BY DEF TypeInv, WorldInv, worldVars
<1>2. obj' = new \/ obj' = obj BY DEF Write
<1>3. IsObject(obj', edits + 1) /\ obj'.generation = obj.generation BY <1>2 DEF TypeInv, ObjectInv
<1>4. kind' = kind /\ edits' = edits BY DEF worldVars
<1>5. ObjectInv' BY <1>3, <1>4 DEF TypeInv, ObjectInv, IsObject
<1>6. QueueInv' BY DEF TypeInv, QueueInv, Write
<1> QED BY <1>1, <1>3, <1>5, <1>6

(* A reconcile moves on by itself.                                         *)
Elsewhere(w) ==
  \A v \in Workers \ {w} : pc'[v] = pc[v] /\ snap'[v] = snap[v] /\ found'[v] = found[v]

LEMMA WorkerKept ==
  ASSUME NEW v \in Workers, WorkerInv(v), kind' = kind, obj.generation \in Nat,
         obj'.generation \in Nat, obj.generation <= obj'.generation,
         pc'[v] = pc[v], snap'[v] = snap[v], found'[v] = found[v]
  PROVE  WorkerInv(v)'
<1>1. IsObject(snap[v], obj'.generation)
  <2>1. snap[v].generation \in 1..obj.generation BY DEF WorkerInv, IsObject
  <2>2. snap[v].generation \in 1..obj'.generation BY <2>1
  <2> QED BY <2>2 DEF WorkerInv, IsObject
<1> QED BY <1>1 DEF WorkerInv, IsObject, Lookups

LEMMA LocalKept ==
  ASSUME TypeInv, kind' = kind, obj'.generation \in Nat, obj.generation <= obj'.generation,
         NEW w \in Workers, pc' \in [Workers -> {"idle", "look", "ready"}],
         DOMAIN snap' = Workers, DOMAIN found' = Workers, Elsewhere(w), WorkerInv(w)'
  PROVE  LocalInv'
<1>1. obj.generation \in Nat BY DEF TypeInv, WorldInv, ObjectInv, IsObject
<1>2. ASSUME NEW v \in Workers PROVE WorkerInv(v)'
  <2>1. CASE v = w BY <2>1
  <2>2. CASE v # w
    <3>1. WorkerInv(v) BY DEF TypeInv, LocalInv
    <3> QED BY <1>1, <2>2, <3>1, WorkerKept DEF Elsewhere
  <2> QED BY <2>1, <2>2
<1> QED BY <1>2 DEF LocalInv

LEMMA LocalStays ==
  ASSUME TypeInv, kind' = kind, obj'.generation \in Nat, obj.generation <= obj'.generation, UNCHANGED localVars
  PROVE  LocalInv'
<1>1. obj.generation \in Nat BY DEF TypeInv, WorldInv, ObjectInv, IsObject
<1>2. ASSUME NEW v \in Workers PROVE WorkerInv(v)'
  <2>1. WorkerInv(v) BY DEF TypeInv, LocalInv
  <2> QED BY <1>1, <2>1, WorkerKept DEF localVars
<1> QED BY <1>2 DEF TypeInv, LocalInv, localVars

LEMMA ReturnTyped ==
  ASSUME TypeInv, kind' = kind, obj'.generation = obj.generation, NEW w \in Workers, Return(w)
  PROVE  LocalInv'
<1>1. obj.generation \in Nat BY DEF TypeInv, WorldInv, ObjectInv, IsObject
<1>2. /\ pc' = [pc EXCEPT ![w] = "idle"] /\ snap' = [snap EXCEPT ![w] = copy]
      /\ found' = [found EXCEPT ![w] = <<>>]
  BY DEF Return
<1>3. /\ pc \in [Workers -> {"idle", "look", "ready"}] /\ DOMAIN snap = Workers /\ DOMAIN found = Workers
  BY DEF TypeInv, LocalInv
<1>4. Elsewhere(w) BY <1>2, <1>3 DEF Elsewhere
<1>5. pc'[w] = "idle" /\ snap'[w] = copy /\ found'[w] = <<>> BY <1>2, <1>3
<1>6. WorkerInv(w)'
  <2>1. IsObject(copy, obj.generation) /\ kind \in Kinds BY DEF TypeInv, ObjectInv, WorldInv
  <2>2. IsObject(snap[w], obj.generation)' BY <2>1, <1>5 DEF IsObject
  <2>3. Len(Lookups(copy.spec)) \in Nat BY <2>1, LookupsLength DEF IsObject
  <2>4. Len(Lookups(snap[w].spec))' \in Nat BY <2>3, <1>5 DEF Lookups
  <2>5. IsSequence(<<>>) /\ Len(<<>>) = 0 BY DEF IsSequence, ToSet
  <2> QED BY <1>5, <2>2, <2>4, <2>5 DEF WorkerInv
<1>7. /\ pc' \in [Workers -> {"idle", "look", "ready"}] /\ DOMAIN snap' = Workers /\ DOMAIN found' = Workers
  BY <1>2, <1>3
<1> QED BY <1>1, <1>4, <1>6, <1>7, LocalKept

(* A patch that goes on, or that fails and is repeated.                    *)
LEMMA PatchTyped ==
  ASSUME TypeInv, NEW w \in Workers,
         NEW new, IsObject(new, edits + 1), new.generation = obj.generation, NEW differs \in SUBSET BOOLEAN,
         \/ /\ Write(new, differs) /\ UNCHANGED <<worldVars, copy, armed>>
            /\ Return(w) \/ (pc' = [pc EXCEPT ![w] = "ready"] /\ UNCHANGED <<snap, found>> /\ pc[w] # "idle")
         \/ /\ Write(new, differs) \/ Write(obj, {FALSE})
            /\ Return(w) /\ armed' = TRUE /\ UNCHANGED <<worldVars, copy>>
  PROVE  TypeInv'
<1>1. /\ Write(new, differs) \/ Write(obj, {FALSE})
      /\ UNCHANGED worldVars /\ copy' = copy /\ armed' \in BOOLEAN
  BY DEF TypeInv, QueueInv
<1>2. WorldInv' /\ ObjectInv' /\ QueueInv' /\ obj'.generation = obj.generation BY <1>1, WriteTyped
<1>3. kind' = kind BY <1>1 DEF worldVars
<1>4. CASE Return(w) BY <1>2, <1>3, <1>4, ReturnTyped DEF TypeInv
<1>5. CASE pc' = [pc EXCEPT ![w] = "ready"] /\ UNCHANGED <<snap, found>> /\ pc[w] # "idle"
  <2>1. /\ pc \in [Workers -> {"idle", "look", "ready"}] /\ DOMAIN snap = Workers /\ DOMAIN found = Workers
        /\ WorkerInv(w)
    BY DEF TypeInv, LocalInv
  <2>2. obj.generation \in Nat BY DEF TypeInv, WorldInv, ObjectInv, IsObject
  <2>3. Elsewhere(w) /\ pc'[w] = "ready" BY <1>5, <2>1 DEF Elsewhere
  <2>4. WorkerInv(w)' BY <1>2, <1>3, <1>5, <2>1, <2>3 DEF WorkerInv, IsObject, Lookups
  <2>5. pc' \in [Workers -> {"idle", "look", "ready"}] BY <1>5, <2>1
  <2>6. LocalInv' BY <1>2, <1>3, <1>5, <2>1, <2>2, <2>3, <2>4, <2>5, LocalKept
  <2> QED BY <1>2, <2>6 DEF TypeInv
<1> QED BY <1>4, <1>5

LEMMA FireTimerTyped ==
  ASSUME TypeInv, NEW w \in Workers, FireTimer(w)
  PROVE  TypeInv'
<1>1. /\ pc[w] = "idle" /\ pc' = [pc EXCEPT ![w] = "look"] /\ snap' = [snap EXCEPT ![w] = copy]
      /\ armed' = FALSE /\ UNCHANGED <<worldVars, obj, copy, unseen, found, faults>>
  BY DEF FireTimer
<1>2. kind' = kind BY <1>1 DEF worldVars
<1>3. obj.generation \in Nat BY DEF TypeInv, WorldInv, ObjectInv, IsObject
<1>4. /\ pc \in [Workers -> {"idle", "look", "ready"}] /\ DOMAIN snap = Workers /\ DOMAIN found = Workers
      /\ WorkerInv(w)
  BY DEF TypeInv, LocalInv
<1>5. Elsewhere(w) /\ pc'[w] = "look" /\ snap'[w] = copy /\ found'[w] = <<>>
  BY <1>1, <1>4 DEF Elsewhere, WorkerInv
<1>6. WorkerInv(w)'
  <2>1. IsObject(copy, obj.generation) /\ kind \in Kinds BY DEF TypeInv, ObjectInv, WorldInv
  <2>2. IsObject(snap[w], obj.generation)' BY <2>1, <1>1, <1>2, <1>5 DEF IsObject
  <2>3. Len(Lookups(copy.spec)) \in Nat BY <2>1, LookupsLength DEF IsObject
  <2>4. Len(Lookups(snap[w].spec))' \in Nat BY <2>3, <1>2, <1>5 DEF Lookups
  <2>5. IsSequence(<<>>) /\ Len(<<>>) = 0 BY DEF IsSequence, ToSet
  <2> QED BY <1>5, <2>2, <2>4, <2>5 DEF WorkerInv
<1>7. pc' \in [Workers -> {"idle", "look", "ready"}] /\ DOMAIN snap' = Workers /\ DOMAIN found' = Workers
  BY <1>1, <1>4
<1>8. LocalInv' BY <1>1, <1>2, <1>3, <1>5, <1>6, <1>7, LocalKept
<1>9. WorldInv' /\ ObjectInv' /\ QueueInv'
  BY <1>1 DEF TypeInv, WorldInv, ObjectInv, QueueInv, IsObject, worldVars
<1> QED BY <1>8, <1>9 DEF TypeInv

LEMMA LookTyped ==
  ASSUME TypeInv, NEW w \in Workers, Look(w)
  PROVE  TypeInv'
<1>1. /\ pc[w] = "look" /\ ~Enough(snap[w].spec, found[w])
      /\ UNCHANGED <<worldVars, obj, queueVars, pc, snap>>
  BY DEF Look
<1>2. PICK x : found' = [found EXCEPT ![w] = Append(@, x)] BY DEF Look
<1>3. kind' = kind BY <1>1 DEF worldVars
<1>4. obj.generation \in Nat BY DEF TypeInv, WorldInv, ObjectInv, IsObject
<1>5. /\ pc \in [Workers -> {"idle", "look", "ready"}] /\ DOMAIN snap = Workers /\ DOMAIN found = Workers
      /\ WorkerInv(w)
  BY DEF TypeInv, LocalInv
<1>6. Elsewhere(w) /\ found'[w] = Append(found[w], x) /\ snap'[w] = snap[w] /\ pc'[w] = "look"
  BY <1>1, <1>2, <1>5 DEF Elsewhere
<1>7. WorkerInv(w)'
  <2>1. IsSequence(found'[w]) /\ Len(found'[w]) = Len(found[w]) + 1 /\ Len(found[w]) \in Nat
    BY <1>5, <1>6, OneMoreAnswer DEF WorkerInv
  <2>2. Len(found[w]) # Len(Lookups(snap[w].spec)) BY <1>1 DEF Enough
  <2>3. Len(Lookups(snap[w].spec)) \in Nat
    BY <1>5, LookupsLength DEF WorkerInv, IsObject, TypeInv, WorldInv
  <2>4. Len(found'[w]) <= Len(Lookups(snap[w].spec)) BY <1>5, <2>1, <2>2, <2>3 DEF WorkerInv
  <2> QED BY <1>1, <1>3, <1>5, <1>6, <2>1, <2>4 DEF WorkerInv, IsObject, Lookups
<1>8. LocalInv'
  <2>1. DOMAIN snap' = Workers /\ DOMAIN found' = Workers /\ pc' \in [Workers -> {"idle", "look", "ready"}]
    BY <1>1, <1>2, <1>5
  <2> QED BY <1>1, <1>3, <1>4, <1>6, <1>7, <2>1, LocalKept
<1>9. WorldInv' /\ ObjectInv' /\ QueueInv'
  BY <1>1 DEF TypeInv, WorldInv, ObjectInv, QueueInv, IsObject, worldVars, queueVars
<1> QED BY <1>8, <1>9 DEF TypeInv

LEMMA PatchResultTyped ==
  ASSUME TypeInv, NEW w \in Workers, PatchResult(w)
  PROVE  TypeInv'
<1>1. pc[w] = "look" BY DEF PatchResult
<1>2. PICK result : Patch(w, [obj EXCEPT !.status.result = Merged(@, result)], {FALSE},
                          pc' = [pc EXCEPT ![w] = "ready"] /\ UNCHANGED <<snap, found>>)
  BY DEF PatchResult
<1>3. PICK merged : merged = Merged(obj.status.result, result) OBVIOUS
<1>4. PICK new : new = [obj EXCEPT !.status.result = merged] OBVIOUS
<1>5. [obj EXCEPT !.status.result = Merged(@, result)] = new BY <1>3, <1>4
<1>6. IsObject(new, edits + 1) /\ new.generation = obj.generation
  BY <1>4, SamePatched DEF TypeInv, ObjectInv
<1>7. Patch(w, new, {FALSE}, pc' = [pc EXCEPT ![w] = "ready"] /\ UNCHANGED <<snap, found>>)
  BY <1>2, <1>5 DEF Patch, Write
<1>8. \/ /\ Write(new, {FALSE}) /\ UNCHANGED <<worldVars, copy, armed>>
         /\ pc' = [pc EXCEPT ![w] = "ready"] /\ UNCHANGED <<snap, found>>
      \/ /\ Write(new, {FALSE}) \/ Write(obj, {FALSE})
         /\ Return(w) /\ armed' = TRUE /\ UNCHANGED <<worldVars, copy>>
  BY <1>7 DEF Patch
<1>9. {FALSE} \in SUBSET BOOLEAN OBVIOUS
<1>10. pc[w] # "idle" BY <1>1
<1> QED BY <1>6, <1>8, <1>9, <1>10, PatchTyped

LEMMA PatchReadyTyped ==
  ASSUME TypeInv, NEW w \in Workers, PatchReady(w)
  PROVE  TypeInv'
<1>0. obj.generation \in Nat /\ WorkerInv(w) BY DEF TypeInv, WorldInv, ObjectInv, IsObject, LocalInv
<1>1. PICK verdict, existing :
        \/ Return(w) /\ UNCHANGED <<worldVars, obj, queueVars, faults>>
        \/ Patch(w, [obj EXCEPT !.status = Condition(@, verdict, snap[w].generation)],
                 NewTime(existing, verdict), Return(w))
  BY DEF PatchReady
<1>2. CASE Return(w) /\ UNCHANGED <<worldVars, obj, queueVars, faults>>
  <2>1. kind' = kind /\ obj' = obj BY <1>2 DEF worldVars
  <2>2. LocalInv' BY <1>2, <2>1, ReturnTyped
  <2>3. WorldInv' /\ ObjectInv' /\ QueueInv'
    BY <1>2 DEF TypeInv, WorldInv, ObjectInv, QueueInv, IsObject, worldVars, queueVars
  <2> QED BY <2>2, <2>3 DEF TypeInv
<1>3. CASE Patch(w, [obj EXCEPT !.status = Condition(@, verdict, snap[w].generation)],
                 NewTime(existing, verdict), Return(w))
  <2>1. PICK g : g = snap[w].generation OBVIOUS
  <2>2. g \in 0..obj.generation BY <1>0, <2>1 DEF WorkerInv, IsObject
  <2>3. PICK new : new = [obj EXCEPT !.status = Condition(@, verdict, g)] OBVIOUS
  <2>4. PICK status : status = Condition(obj.status, verdict, g) OBVIOUS
  <2>5. new = [obj EXCEPT !.status = status] BY <2>3, <2>4
  <2>6. IsObject(new, edits + 1) /\ new.generation = obj.generation
    <3>1. IsObject(obj, edits + 1) BY DEF TypeInv, ObjectInv
    <3>2. IsObject(new, edits + 1) BY <2>2, <2>3, <3>1, SamePatched
    <3>3. new.generation = obj.generation BY <2>5, <3>1, SamePatched
    <3> QED BY <3>2, <3>3
  <2>7. PICK differs : differs = NewTime(existing, verdict) OBVIOUS
  <2>8. differs \in SUBSET BOOLEAN BY <2>7 DEF NewTime
  <2>9. Patch(w, new, differs, Return(w)) BY <1>3, <2>1, <2>3, <2>7 DEF Patch, Write
  <2>10. \/ /\ Write(new, differs) /\ UNCHANGED <<worldVars, copy, armed>> /\ Return(w)
         \/ /\ Write(new, differs) \/ Write(obj, {FALSE})
            /\ Return(w) /\ armed' = TRUE /\ UNCHANGED <<worldVars, copy>>
    BY <2>9 DEF Patch
  <2> QED BY <2>6, <2>8, <2>10, PatchTyped
<1> QED BY <1>1, <1>2, <1>3

(* The environment.                                                        *)
LEMMA WorldTyped ==
  ASSUME TypeInv, Deliver \/ Resync \/ EditSpec \/ EditWorld
  PROVE  TypeInv'
<1>0. obj.generation \in Nat /\ edits \in Nat BY DEF TypeInv, WorldInv, ObjectInv, IsObject
<1>1. CASE Deliver \/ Resync
  <2>1. /\ copy' = obj /\ unseen' = FALSE /\ armed' = TRUE
        /\ UNCHANGED <<worldVars, obj, localVars, faults>>
    BY <1>1 DEF Deliver, Resync
  <2>2. kind' = kind /\ obj' = obj BY <2>1 DEF worldVars
  <2>3. LocalInv' BY <1>0, <2>1, <2>2, LocalStays
  <2>4. WorldInv' BY <2>1 DEF TypeInv, WorldInv, worldVars
  <2>5. ObjectInv' BY <2>1, <1>0 DEF TypeInv, ObjectInv, IsObject, worldVars
  <2>6. QueueInv' BY <2>1 DEF QueueInv
  <2> QED BY <2>3, <2>4, <2>5, <2>6 DEF TypeInv
<1>2. CASE EditSpec
  <2>1. /\ edits < MaxEdits /\ edits' = edits + 1
        /\ UNCHANGED <<kind, hosts, files, copy, armed, localVars, faults>>
    BY <1>2 DEF EditSpec
  <2>2. PICK spec \in Specs[kind] : Write([obj EXCEPT !.spec = spec, !.generation = @ + 1], {FALSE})
    BY <1>2 DEF EditSpec
  <2>3. WorldInv' BY <2>1, <1>0, ControllersAssumption DEF TypeInv, WorldInv
  <2>4. IsObject(obj, edits + 1) /\ IsObject(copy, obj.generation) BY DEF TypeInv, ObjectInv
  <2>5. PICK n : n = obj.generation + 1 OBVIOUS
  <2>6. PICK s : s = obj.status OBVIOUS
  <2>7. obj' = [spec |-> spec, generation |-> n, status |-> s]
    BY <2>2, <2>4, <2>5, <2>6 DEF Write, IsObject
  <2>8. n \in 1..(edits + 2) /\ obj.generation <= n /\ n \in Nat BY <1>0, <2>4, <2>5 DEF IsObject
  <2>9. s = Status(s.ready, s.reason, s.generation, s.result) /\ s.generation \in 0..obj.generation
    BY <2>4, <2>6 DEF IsObject
  <2>10. s.generation \in 0..n BY <1>0, <2>8, <2>9
  <2>11. (edits' + 1) = edits + 2 BY <1>0, <2>1
  <2>12. IsObject(obj, edits + 1)' BY <2>1, <2>7, <2>8, <2>9, <2>10, <2>11 DEF IsObject
  <2>13. copy.generation \in 1..n BY <1>0, <2>4, <2>8 DEF IsObject
  <2>14. IsObject(copy, obj.generation)' BY <2>1, <2>4, <2>7, <2>13 DEF IsObject
  <2>15. QueueInv' BY <2>1, <2>2 DEF TypeInv, QueueInv, Write
  <2>16. LocalInv' BY <2>1, <2>7, <2>8, LocalStays
  <2> QED BY <2>3, <2>12, <2>14, <2>15, <2>16 DEF TypeInv, ObjectInv
<1>3. CASE EditWorld
  <2>1. /\ edits < MaxEdits /\ edits' = edits + 1
        /\ hosts' \in HostSets[kind] /\ files' \in FileSets[kind]
        /\ UNCHANGED <<kind, obj, queueVars, localVars, faults>>
    BY <1>3 DEF EditWorld
  <2>2. WorldInv' BY <2>1, <1>0, ControllersAssumption DEF TypeInv, WorldInv
  <2>3. LocalInv' BY <1>0, <2>1, LocalStays
  <2>4. obj.generation \in 1..(edits' + 1)
    <3>1. obj.generation \in 1..(edits + 1) BY DEF TypeInv, ObjectInv, IsObject
    <3> QED BY <3>1, <2>1, <1>0
  <2>5. ObjectInv' BY <2>1, <2>4 DEF TypeInv, ObjectInv, IsObject, queueVars
  <2>6. QueueInv' BY <2>1 DEF TypeInv, QueueInv, queueVars
  <2> QED BY <2>2, <2>3, <2>5, <2>6 DEF TypeInv
<1> QED BY <1>1, <1>2, <1>3

LEMMA StepTyped == TypeInv /\ [Next]_vars => TypeInv'
<1> SUFFICES ASSUME TypeInv, [Next]_vars PROVE TypeInv' OBVIOUS
<1>1. CASE Deliver \/ Resync \/ EditSpec \/ EditWorld BY <1>1, WorldTyped
<1>2. ASSUME NEW w \in Workers, FireTimer(w) PROVE TypeInv' BY <1>2, FireTimerTyped
<1>3. ASSUME NEW w \in Workers, Reconcile(w) PROVE TypeInv'
  BY <1>3, LookTyped, PatchResultTyped, PatchReadyTyped DEF Reconcile
<1>4. CASE UNCHANGED vars
  <2>1. UNCHANGED <<worldVars, obj, queueVars, localVars>> BY <1>4 DEF vars
  <2>2. kind' = kind /\ obj' = obj /\ edits' = edits /\ copy' = copy
    BY <2>1 DEF worldVars, queueVars
  <2>3. obj.generation \in Nat BY DEF TypeInv, WorldInv, ObjectInv, IsObject
  <2>4. LocalInv' BY <2>1, <2>2, <2>3, LocalStays
  <2>5. WorldInv' /\ QueueInv' BY <2>1 DEF TypeInv, WorldInv, QueueInv, worldVars, queueVars
  <2>6. ObjectInv' BY <2>2 DEF TypeInv, ObjectInv, IsObject
  <2> QED BY <2>4, <2>5, <2>6 DEF TypeInv
<1> QED BY <1>1, <1>2, <1>3, <1>4 DEF Next

-----------------------------------------------------------------------------
(* A host as shardHosts sees it, of any host there may be. *)
ShardHostSet == {ShardHost(h) : h \in UNION HostSets["Inventory"]}

LEMMA GroupsListed ==
  ASSUME kind = "Inventory", kind \in Kinds, obj.spec \in Specs[kind], NEW hs \in HostSets[kind]
  PROVE  ShardGroups(hs) \in Seq(Seq(ShardHostSet))
<1>0. PICK T : T = ShardHostSet OBVIOUS
<1>1. PICK specGroups : specGroups = obj.spec.groups OBVIOUS
<1>2. /\ specGroups \in Seq(ToSet(specGroups))
      /\ \A i \in DOMAIN specGroups : IsSequence(specGroups[i].hostSources)
  <2>1. IsSpec(kind, obj.spec) BY ControllersAssumption
  <2> QED BY <1>1, <2>1 DEF IsSpec, IsSequence
<1>3. PICK n \in Nat : n = Len(specGroups) BY <1>2
<1>4. DOMAIN specGroups = 1..n BY <1>2, <1>3
<1>5. IsFiniteSet(hs) BY ResolversAssumption DEF Objects
<1>6. PICK groups : groups = resolveInventoryGroups(hs, specGroups, Owner) OBVIOUS
<1>7. DOMAIN groups = 1..n BY <1>4, <1>6 DEF resolveInventoryGroups
<1>8. ASSUME NEW i \in 1..n PROVE groups[i] \in Seq(hs)
  <2>1. PICK sources : sources = specGroups[i].hostSources OBVIOUS
  <2>2. sources \in Seq(ToSet(sources)) BY <1>2, <1>4, <2>1 DEF IsSequence
  <2>3. PICK m \in Nat : m = Len(sources) BY <2>2
  <2>4. DOMAIN sources = 1..m BY <2>2, <2>3
  <2>5. PICK lists : lists = [j \in DOMAIN sources |-> ListSource(hs, sources[j], Owner)] OBVIOUS
  <2>6. \A j \in 1..m : ListSource(hs, sources[j], Owner) \in Seq(hs) BY <1>5, SourceListed
  <2>7. PICK U : U = Seq(hs) OBVIOUS
  <2>8. lists \in Seq(U) BY <2>3, <2>4, <2>5, <2>6, <2>7
  <2>9. GroupHosts(lists) \in Seq(hs) BY <2>7, <2>8, GroupListed
  <2>10. groups[i] = GroupHosts(lists) BY <1>4, <1>6, <2>1, <2>5 DEF resolveInventoryGroups
  <2> QED BY <2>9, <2>10
<1>9. PICK g : g = ShardGroups(hs) OBVIOUS
<1>10. g = [i \in DOMAIN groups |-> [j \in DOMAIN groups[i] |-> ShardHost(groups[i][j])]]
  BY <1>1, <1>6, <1>9 DEF ShardGroups
<1>11. ASSUME NEW i \in 1..n PROVE g[i] \in Seq(T)
  <2>1. PICK hosts_ \in Seq(hs) : hosts_ = groups[i] BY <1>8
  <2>2. g[i] = [j \in DOMAIN hosts_ |-> ShardHost(hosts_[j])] BY <1>7, <1>10, <2>1
  <2>3. PICK m \in Nat : m = Len(hosts_) OBVIOUS
  <2>4. DOMAIN hosts_ = 1..m /\ \A j \in 1..m : hosts_[j] \in hs BY <2>3
  <2>5. \A h \in hs : ShardHost(h) \in T BY <1>0 DEF ShardHostSet
  <2>6. g[i] \in [1..m -> T] BY <2>2, <2>4, <2>5
  <2> QED BY <2>6
<1>12. PICK U : U = Seq(T) OBVIOUS
<1>13. DOMAIN g = 1..n /\ g = [i \in 1..n |-> g[i]] BY <1>7, <1>10
<1>14. g \in Seq(U) BY <1>11, <1>12, <1>13
<1> QED BY <1>0, <1>9, <1>12, <1>14

LEMMA ShardHostsNamed == Named(ShardHostSet)
BY ResolversAssumption DEF ShardHostSet

-----------------------------------------------------------------------------
(* The theorems. *)
(* The object, its cached copy, the copies of the reconciles and what they  *)
(* have looked up keep their types and their generations their order,       *)
(* whatever is edited, delivered late or fails.                             *)
THEOREM TypeInvariant == Spec => []TypeInv
<1>1. Init => TypeInv BY InitTyped
<1>2. TypeInv /\ [Next]_vars => TypeInv' BY StepTyped
<1> QED BY <1>1, <1>2, PTL DEF Spec

(* Every variable has its type, and the observedGeneration a reconcile      *)
(* writes (base-reconciler.ts) is never ahead of the object's generation.   *)
THEOREM TypeCorrect == Spec => []TypeOK
<1>1. TypeInv => TypeOK
  <2> SUFFICES ASSUME TypeInv PROVE TypeOK OBVIOUS
  <2>1. edits \in 0..MaxEdits /\ MaxEdits \in Nat BY ControllersAssumption DEF TypeInv, WorldInv
  <2>2. ASSUME NEW o, NEW g \in 1..(MaxEdits + 1), IsObject(o, g)
        PROVE  /\ o.spec \in Specs[kind] /\ o.generation \in 1..(MaxEdits + 1)
               /\ o.status.generation \in 0..o.generation
    <3>1. o.generation \in 1..g BY <2>2 DEF IsObject
    <3>2. o.generation \in 1..(MaxEdits + 1) BY <2>1, <3>1
    <3> QED BY <2>2, <3>2 DEF IsObject
  <2>3. edits + 1 \in 1..(MaxEdits + 1) /\ obj.generation \in 1..(MaxEdits + 1)
    <3>1. edits + 1 \in 1..(MaxEdits + 1) BY <2>1
    <3>2. IsObject(obj, edits + 1) BY DEF TypeInv, ObjectInv
    <3> QED BY <3>1, <3>2, <2>2
  <2>4. \A o \in {obj, copy} \cup Range(snap) : \E g \in 1..(MaxEdits + 1) : IsObject(o, g)
    <3>1. \A o \in {obj, copy} : \E g \in 1..(MaxEdits + 1) : IsObject(o, g)
      BY <2>3 DEF TypeInv, ObjectInv
    <3>2. \A w \in Workers : IsObject(snap[w], obj.generation) BY DEF TypeInv, LocalInv, WorkerInv
    <3>3. \A o \in Range(snap) : \E w \in Workers : o = snap[w] BY DEF TypeInv, LocalInv, Range
    <3> QED BY <2>3, <3>1, <3>2, <3>3
  <2>5. \A o \in {obj, copy} \cup Range(snap) :
          o.spec \in Specs[kind] /\ o.generation \in 1..(MaxEdits + 1)
          /\ o.status.generation \in 0..o.generation
    BY <2>2, <2>4
  <2>6. \A w \in Workers : Len(found[w]) <= Len(Lookups(snap[w].spec))
    BY DEF TypeInv, LocalInv, WorkerInv
  <2> QED BY <2>5, <2>6 DEF TypeInv, WorldInv, QueueInv, LocalInv, TypeOK
<1> QED BY <1>1, TypeInvariant, PTL

(* resolveJumpChain (object-ref.ts) finds the one way from a host to where  *)
(* the network is direct, outermost hop first, and fails when that way is   *)
(* circular or leads nowhere.                                               *)
THEOREM ChainsConnect == Spec => []JumpChainConnects
<1>1. JumpChainConnects
  <2>1. SUFFICES ASSUME NEW hs \in Chains, NEW h \in hs
                 PROVE  resolveJumpChain(hs, h) =
                          IF Ways(hs, h) = {} THEN Failed ELSE Hops(HopsOf(The(Ways(hs, h))))
    BY DEF JumpChainConnects, HopsOf
  <2>2. IsFiniteSet(hs) /\ Unique(hs) BY ResolversAssumption DEF Objects, Unique
  <2> QED BY <2>2, ChainConnects
<1> QED BY <1>1, PTL

(* shardHosts (host-sharding.ts) cuts the inventory into shards that are    *)
(* not empty, not too large and leave no host out or in two of them; and    *)
(* limitForHostNames finds of a shard, in whatever the inventory has become,*)
(* its own hosts that are left.                                             *)
THEOREM ShardsApart == Spec => []ShardsStayApart
<1>1. TypeInv => ShardsStayApart
  <2>1. SUFFICES ASSUME TypeInv, kind = "Inventory", NEW amount \in Amounts
                 PROVE  LET groups == ShardGroups(hosts)
                            shards == ShardHosts(groups, amount)
                        IN /\ FlattenSeq([k \in DOMAIN shards |-> shards[k].hostNames])
                                = LET d == DistinctHosts(Flatten(groups)) IN [i \in DOMAIN d |-> d[i].name]
                           /\ \A k \in DOMAIN shards : Len(shards[k].hostNames) \in 1..amount
                           /\ \A later \in HostSets[kind], k \in DOMAIN shards :
                                LimitForHostNames(ShardGroups(later), shards[k].hostNames) =
                                  shards[k].limit \cap {h.inv : h \in ToSet(Flatten(ShardGroups(later)))}
    BY DEF ShardsStayApart
  <2>2. amount \in Nat \ {0} BY ResolversAssumption
  <2>3. kind \in Kinds /\ hosts \in HostSets[kind] /\ obj.spec \in Specs[kind]
    BY <2>1 DEF TypeInv, WorldInv, ObjectInv, IsObject
  <2>4. PICK g : g = ShardGroups(hosts) OBVIOUS
  <2>5. g \in Seq(Seq(ShardHostSet)) BY <2>1, <2>3, <2>4, GroupsListed
  <2>6. PICK d : d = Listed(g) OBVIOUS
  <2>7. PICK s : s = ShardHosts(g, amount) OBVIOUS
  <2>8. /\ FlattenSeq([k \in DOMAIN s |-> s[k].hostNames]) = [i \in DOMAIN d |-> d[i].name]
        /\ \A k \in DOMAIN s : Len(s[k].hostNames) \in 1..amount
    BY <2>2, <2>5, <2>6, <2>7, ShardNamesJoin
  <2>9. ASSUME NEW later \in HostSets[kind], NEW k \in DOMAIN s
        PROVE  LimitForHostNames(ShardGroups(later), s[k].hostNames) =
                 s[k].limit \cap {h.inv : h \in ToSet(Flatten(ShardGroups(later)))}
    <3>1. PICK f : f = ShardGroups(later) OBVIOUS
    <3>2. f \in Seq(Seq(ShardHostSet)) BY <2>1, <2>3, <3>1, GroupsListed
    <3>3. k \in DOMAIN ShardHosts(g, amount) BY <2>7
    <3>4. LimitForHostNames(f, ShardHosts(g, amount)[k].hostNames) =
            ShardHosts(g, amount)[k].limit \cap {h.inv : h \in ToSet(Flatten(f))}
      BY <2>2, <2>5, <3>2, <3>3, ShardHostsNamed, ShardIsLeft
    <3> QED BY <3>1, <3>4, <2>7
  <2> QED BY <2>4, <2>6, <2>7, <2>8, <2>9 DEF Listed
<1> QED BY <1>1, TypeInvariant, PTL

(* planList and executeListPlan (permission-engine.ts) list, for any grants,*)
(* what the watch of the same user relays, although a list takes one        *)
(* selector.                                                                *)
THEOREM ListsAgree == Spec => []ListShowsAllowed
<1>1. TypeInv => ListShowsAllowed
  <2>1. SUFFICES ASSUME TypeInv, kind = "Inventory",
                        NEW perms \in Users, NEW list \in Lists, NEW asked \in Asked
                 PROVE  executeListPlan(hosts, list[1], planList(perms, list[1], list[2], "list", list[3]), asked)
                          = {h \in hosts : /\ h.kind = list[1] /\ list[3] \in {Nowhere, h.namespace}
                                           /\ WatchFilter(ToWatch(perms), asked, h)}
    BY DEF ListShowsAllowed
  <2>2. PICK hs : hs = hosts OBVIOUS
  <2>3. Objects(hs) BY <2>1, <2>2, ResolversAssumption DEF TypeInv, WorldInv
  <2>4. InNamespaces(perms) BY ResolversAssumption
  <2>5. list[2] = Scope(list[1]) /\ (list[2] = "Cluster" => list[3] = Nowhere) BY ResolversAssumption
  <2>6. ReadBack(asked) BY ResolversAssumption
  <2>7. Scope(list[1]) = "Cluster" => list[3] = Nowhere BY <2>5
  <2>8. executeListPlan(hs, list[1], planList(perms, list[1], Scope(list[1]), "list", list[3]), asked)
          = {h \in hs : /\ h.kind = list[1] /\ list[3] \in {Nowhere, h.namespace}
                        /\ WatchFilter(ToWatch(perms), asked, h)}
    BY <2>3, <2>4, <2>6, <2>7, ListAgreesWithWatch
  <2> QED BY <2>2, <2>5, <2>8
<1> QED BY <1>1, TypeInvariant, PTL
============================================================================
