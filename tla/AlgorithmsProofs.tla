--------------------------- MODULE AlgorithmsProofs ---------------------------
(***************************************************************************)
(* The algorithms against their reference definitions, for inputs of every *)
(* size: the signature loop of ValidatorSet::verify_quorum, the published  *)
(* profiles and the examples.                                              *)
(***************************************************************************)
EXTENDS VerifyQuorum, MaskProfiles, Synthesis,
        FiniteSetTheorems, TLAPS

(***************************************************************************)
(* Counting.  A finite set that is totally ordered is numbered by how many *)
(* elements are at or below each: what sorting a list or dropping elements *)
(* from it comes to, without an induction over the list.                   *)
(***************************************************************************)
TotalOrder(S, L) ==
    /\ \A x \in S : <<x, x>> \in L
    /\ \A x, y \in S : <<x, y>> \in L \/ <<y, x>> \in L
    /\ \A x, y \in S : <<x, y>> \in L /\ <<y, x>> \in L => x = y
    /\ \A x, y, z \in S : <<x, y>> \in L /\ <<y, z>> \in L => <<x, z>> \in L

Below(S, L, x) == {y \in S : <<y, x>> \in L}

\* The elements at or below x are finitely many, x among them.
LEMMA BelowCount ==
    ASSUME NEW S, IsFiniteSet(S), NEW L, TotalOrder(S, L), NEW x \in S
    PROVE  /\ IsFiniteSet(Below(S, L, x))
           /\ Cardinality(Below(S, L, x)) \in 1..Cardinality(S)
           /\ Cardinality(S) \in Nat
<1>1. Below(S, L, x) \in SUBSET S
  BY DEF Below
<1>2. IsFiniteSet(Below(S, L, x)) /\ Cardinality(Below(S, L, x)) <= Cardinality(S)
  BY <1>1, FS_Subset
<1>3. Cardinality(Below(S, L, x)) \in Nat /\ Cardinality(S) \in Nat
  BY <1>2, FS_CardinalityType
<1>4. x \in Below(S, L, x)
  BY DEF Below, TotalOrder
<1>5. Cardinality(Below(S, L, x)) # 0
  BY <1>2, <1>4, FS_EmptySet
<1> QED BY <1>2, <1>3, <1>5

\* The numbering respects the order.
LEMMA BelowOrder ==
    ASSUME NEW S, IsFiniteSet(S), NEW L, TotalOrder(S, L), NEW x \in S, NEW y \in S
    PROVE  <<x, y>> \in L <=>
               Cardinality(Below(S, L, x)) <= Cardinality(Below(S, L, y))
<1>1. ASSUME NEW u \in S, NEW v \in S, <<u, v>> \in L
      PROVE  /\ Cardinality(Below(S, L, u)) <= Cardinality(Below(S, L, v))
             /\ Cardinality(Below(S, L, u)) = Cardinality(Below(S, L, v)) => u = v
  <2>1. Below(S, L, u) \in SUBSET Below(S, L, v)
    BY <1>1 DEF Below, TotalOrder
  <2>2. IsFiniteSet(Below(S, L, v))
    BY BelowCount
  <2>3. /\ Cardinality(Below(S, L, u)) <= Cardinality(Below(S, L, v))
        /\ Cardinality(Below(S, L, v)) = Cardinality(Below(S, L, u)) =>
              Below(S, L, v) = Below(S, L, u)
    BY <2>1, <2>2, FS_Subset
  <2>4. Below(S, L, v) = Below(S, L, u) => <<v, u>> \in L
    <3>1. v \in Below(S, L, v)
      BY DEF Below, TotalOrder
    <3> QED BY <3>1 DEF Below
  <2> QED BY <1>1, <2>3, <2>4 DEF TotalOrder
<1>2. /\ Cardinality(Below(S, L, x)) \in Nat
      /\ Cardinality(Below(S, L, y)) \in Nat
  BY BelowCount
<1>3. CASE <<x, y>> \in L
  BY <1>1, <1>3
<1>4. CASE <<x, y>> \notin L
  <2>1. <<y, x>> \in L /\ x # y
    BY <1>4 DEF TotalOrder
  <2> QED BY <1>1, <1>2, <1>4, <2>1
<1> QED BY <1>3, <1>4

\* No two elements have the same number.
LEMMA BelowInjective ==
    ASSUME NEW S, IsFiniteSet(S), NEW L, TotalOrder(S, L), NEW x \in S, NEW y \in S,
           Cardinality(Below(S, L, x)) = Cardinality(Below(S, L, y))
    PROVE  x = y
<1>1. Cardinality(Below(S, L, x)) \in Nat /\ Cardinality(Below(S, L, y)) \in Nat
  BY BelowCount
<1>2. <<x, y>> \in L /\ <<y, x>> \in L
  BY <1>1, BelowOrder
<1> QED BY <1>2 DEF TotalOrder

\* Every number up to that of the elements is the number of one of them.
LEMMA BelowOnto ==
    ASSUME NEW S, IsFiniteSet(S), NEW L, TotalOrder(S, L), NEW r \in 1..Cardinality(S)
    PROVE  \E x \in S : Cardinality(Below(S, L, x)) = r
<1> DEFINE f == [x \in S |-> Cardinality(Below(S, L, x))]
           C == Cardinality(S)
<1>1. \A x \in S : f[x] = Cardinality(Below(S, L, x)) /\ f[x] \in 1..C
  BY BelowCount
<1>2. C \in Nat
  BY FS_CardinalityType
<1>3. f \in [S -> 1..C]
  BY <1>1
<1>4. \A x, y \in S : f[x] = f[y] => x = y
  BY <1>1, BelowInjective
<1>5. f \in Injection(S, 1..C)
  BY <1>3, <1>4 DEF Injection, IsInjective
<1>6. IsFiniteSet(1..C) /\ Cardinality(1..C) = C
  BY <1>2, FS_Interval
<1>7. f \in Surjection(S, 1..C)
  BY <1>5, <1>6, FS_Injection
<1>8. \E x \in S : f[x] = r
  BY <1>7 DEF Surjection
<1> QED BY <1>1, <1>8

\* The usual order of the natural numbers.
LEMMA NatOrder ==
    ASSUME NEW S \in SUBSET Nat, NEW L, L = {p \in S \X S : p[1] <= p[2]}
    PROVE  TotalOrder(S, L) /\ \A x \in S : Below(S, L, x) = {y \in S : y <= x}
<1>1. \A x, y \in S : <<x, y>> \in L <=> x <= y
  OBVIOUS
<1>2. TotalOrder(S, L)
  BY <1>1 DEF TotalOrder
<1> QED BY <1>1, <1>2 DEF Below

\* A set of positions has a first one.
LEMMA FirstExists ==
    ASSUME NEW S \in SUBSET Nat, IsFiniteSet(S), S # {}
    PROVE  \E k \in S : \A m \in S : k <= m
<1>1. PICK L : L = {p \in S \X S : p[1] <= p[2]}
  OBVIOUS
<1>2. TotalOrder(S, L)
  BY <1>1, NatOrder
<1>3. Cardinality(S) \in Nat /\ Cardinality(S) # 0
  BY FS_CardinalityType, FS_EmptySet
<1>4. PICK k \in S : Cardinality(Below(S, L, k)) = 1
  <2>1. 1 \in 1..Cardinality(S)
    BY <1>3
  <2> QED BY <1>2, <2>1, BelowOnto
<1>5. \A m \in S : <<k, m>> \in L
  <2> TAKE m \in S
  <2>1. Cardinality(Below(S, L, m)) \in 1..Cardinality(S)
    BY <1>2, BelowCount
  <2> QED BY <1>2, <1>3, <1>4, <2>1, BelowOrder
<1> QED BY <1>1, <1>5

(***************************************************************************)
(* The signature loop.  Weights are counted in units, <<node, j>> for the  *)
(* validator set of a list and <<position, j>> for the list itself.        *)
(***************************************************************************)
First(v) == CHOOSE k \in Positions(v) : \A m \in Positions(v) : k <= m

\* get finds the first entry of a node that has one.
LEMMA GetFirst ==
    ASSUME entries \in Seq(ValidatorEntry), NEW v, Positions(v) # {}
    PROVE  /\ First(v) \in 1..Len(entries)
           /\ entries[First(v)].node_id = v
           /\ get(v) = entries[First(v)]
           /\ get(v) \in ValidatorEntry
<1>1. Positions(v) \in SUBSET (1..Len(entries)) /\ Len(entries) \in Nat
  BY DEF Positions
<1>2. IsFiniteSet(1..Len(entries))
  BY <1>1, FS_Interval
<1>3. IsFiniteSet(Positions(v)) /\ Positions(v) \in SUBSET Nat
  BY <1>1, <1>2, FS_Subset
<1>4. \E k \in Positions(v) : \A m \in Positions(v) : k <= m
  BY <1>3, FirstExists
<1>5. First(v) \in Positions(v)
  BY <1>4 DEF First
<1>6. get(v) = entries[First(v)]
  BY DEF get, First
<1>7. First(v) \in 1..Len(entries) /\ entries[First(v)].node_id = v
  BY <1>5 DEF Positions
<1>8. entries[First(v)] \in ValidatorEntry
  BY <1>7
<1> QED BY <1>6, <1>7, <1>8

\* The validator set of a list: the nodes that have an entry, with what get finds.
LEMMA AsSetType ==
    ASSUME entries \in Seq(ValidatorEntry)
    PROVE  /\ AsSet \in ValidatorSet
           /\ \A v : v \in Members(AsSet) <=> Positions(v) # {}
           /\ \A v \in Members(AsSet) :
                 /\ AsSet.entries[v] = get(v).weight
                 /\ AsSet.entries[v] \in 0..MaxWeight
<1> DEFINE M == {entries[k].node_id : k \in DOMAIN entries}
<1>1. \A v : v \in M <=> Positions(v) # {}
  BY DEF Positions
<1>2. AsSet = NewSet(0, [v \in M |-> get(v).weight])
  BY DEF AsSet
<1> HIDE DEF M
<1>3. \A v \in M : get(v) \in ValidatorEntry
  BY <1>1, GetFirst
<1>4. \A v \in M : get(v).weight \in 0..MaxWeight
  BY <1>3 DEF ValidatorEntry
<1>5. M \in SUBSET NodeId
  <2>1. \A k \in DOMAIN entries : entries[k] \in ValidatorEntry
    OBVIOUS
  <2>2. \A k \in DOMAIN entries : entries[k].node_id \in NodeId
    BY <2>1 DEF ValidatorEntry
  <2> QED BY <2>2 DEF M
<1>6. [v \in M |-> get(v).weight] \in Entries
  BY <1>4, <1>5 DEF Entries
<1>7. AsSet \in ValidatorSet
  BY <1>2, <1>6 DEF ValidatorSet, SetHash, NewSet, compute_set_hash
<1>8. Members(AsSet) = M /\ \A v \in M : AsSet.entries[v] = get(v).weight
  BY <1>2 DEF Members, NewSet
<1> QED BY <1>1, <1>4, <1>7, <1>8

\* A block of w units under a name that has none yet adds w.
LEMMA BlockCount ==
    ASSUME NEW A, IsFiniteSet(A), NEW x, NEW w \in Nat, \A u \in A : u[1] # x
    PROVE  /\ IsFiniteSet(A \cup ({x} \X (1..w)))
           /\ Cardinality(A \cup ({x} \X (1..w))) = Cardinality(A) + w
<1> DEFINE B == {x} \X (1..w)
<1>1. IsFiniteSet(1..w) /\ Cardinality(1..w) = w
  BY FS_Interval
<1>2. IsFiniteSet({x}) /\ Cardinality({x}) = 1
  BY FS_Singleton
<1>3. IsFiniteSet(B) /\ Cardinality(B) = 1 * w
  BY <1>1, <1>2, FS_Product
<1>4. A \cap B = {}
  OBVIOUS
<1>5. Cardinality(A \cap B) = 0
  BY <1>4, FS_EmptySet
<1>6. Cardinality(A) \in Nat
  BY FS_CardinalityType
<1> HIDE DEF B
<1>7. /\ IsFiniteSet(A \cup B)
      /\ Cardinality(A \cup B) = Cardinality(A) + Cardinality(B) - Cardinality(A \cap B)
  BY <1>3, FS_Union
<1>8. Cardinality(A \cup B) = Cardinality(A) + w
  BY <1>3, <1>5, <1>6, <1>7
<1> QED BY <1>7, <1>8 DEF B

\* The units of a validator set are finite in number.
LEMMA UnitsFinite ==
    ASSUME NEW vs \in ValidatorSet, NEW S \in SUBSET Members(vs)
    PROVE  IsFiniteSet(Units(vs, S)) /\ WeightOf(vs, S) \in Nat
<1>1. Members(vs) \in SUBSET NodeId
  BY DEF ValidatorSet, Entries, Members
<1>2. IsFiniteSet(S)
  BY <1>1, NodeIdAssumption, FS_Subset
<1>3. IsFiniteSet(1..MaxWeight)
  BY MaxWeightAssumption, FS_Interval
<1>4. IsFiniteSet(S \X (1..MaxWeight))
  BY <1>2, <1>3, FS_Product
<1>5. IsFiniteSet(Units(vs, S))
  BY <1>4, FS_Subset DEF Units
<1> QED BY <1>5, FS_CardinalityType DEF WeightOf

\* One more signer adds its weight.
LEMMA WeightAdd ==
    ASSUME NEW vs \in ValidatorSet, NEW S \in SUBSET Members(vs),
           NEW v \in Members(vs), v \notin S
    PROVE  WeightOf(vs, S \cup {v}) = WeightOf(vs, S) + vs.entries[v]
<1> DEFINE w == vs.entries[v]
<1>1. w \in 0..MaxWeight /\ w \in Nat
  BY MaxWeightAssumption DEF ValidatorSet, Entries, Members
<1>2. 1..w = {j \in 1..MaxWeight : j <= w}
  BY <1>1, MaxWeightAssumption
<1>3. Units(vs, S \cup {v}) = Units(vs, S) \cup ({v} \X (1..w))
  <2>1. ASSUME NEW u \in Units(vs, S \cup {v})
        PROVE  u \in Units(vs, S) \cup ({v} \X (1..w))
    <3>1. PICK x \in S \cup {v}, j \in 1..MaxWeight : u = <<x, j>>
      BY DEF Units
    <3>2. j <= vs.entries[x]
      BY <3>1 DEF Units
    <3>3. CASE x \in S
      BY <3>1, <3>2, <3>3 DEF Units
    <3>4. CASE x = v
      <4>1. j \in 1..w
        BY <3>2, <3>4, <1>1
      <4> QED BY <3>1, <3>4, <4>1
    <3> QED BY <3>3, <3>4
  <2>2. ASSUME NEW u \in Units(vs, S) \cup ({v} \X (1..w))
        PROVE  u \in Units(vs, S \cup {v})
    <3>1. CASE u \in Units(vs, S)
      BY <3>1 DEF Units
    <3>2. CASE u \in {v} \X (1..w)
      BY <3>2, <1>2 DEF Units
    <3> QED BY <3>1, <3>2
  <2> QED BY <2>1, <2>2
<1>4. \A u \in Units(vs, S) : u[1] # v
  BY DEF Units
<1>5. IsFiniteSet(Units(vs, S))
  BY UnitsFinite
<1> HIDE DEF w
<1>6. Cardinality(Units(vs, S) \cup ({v} \X (1..w))) = Cardinality(Units(vs, S)) + w
  BY <1>1, <1>4, <1>5, BlockCount
<1> QED BY <1>3, <1>6 DEF WeightOf, w

\* The units of the first entries are finite in number, and one more entry adds
\* its weight.
LEMMA ListedNext ==
    ASSUME entries \in Seq(ValidatorEntry), NEW len \in 0..Len(entries)
    PROVE  /\ IsFiniteSet(Listed(len))
           /\ Cardinality(Listed(len)) \in Nat
           /\ Cardinality(Listed(len)) <= TrueTotal
           /\ TrueTotal \in Nat
           /\ len < Len(entries) =>
                 Cardinality(Listed(len + 1)) =
                     Cardinality(Listed(len)) + entries[len + 1].weight
<1>1. \A m \in 0..Len(entries) : IsFiniteSet(Listed(m))
  <2> TAKE m \in 0..Len(entries)
  <2>1. IsFiniteSet(1..m) /\ IsFiniteSet(1..MaxWeight)
    BY MaxWeightAssumption, FS_Interval
  <2>2. IsFiniteSet((1..m) \X (1..MaxWeight))
    BY <2>1, FS_Product
  <2> QED BY <2>2, FS_Subset DEF Listed
<1>2. Len(entries) \in 0..Len(entries)
  OBVIOUS
<1>3. Listed(len) \in SUBSET Listed(Len(entries))
  BY DEF Listed
<1>4. /\ Cardinality(Listed(len)) <= TrueTotal
      /\ Cardinality(Listed(len)) \in Nat /\ TrueTotal \in Nat
  BY <1>1, <1>2, <1>3, FS_Subset, FS_CardinalityType DEF TrueTotal
<1>5. ASSUME len < Len(entries)
      PROVE  Cardinality(Listed(len + 1)) =
                 Cardinality(Listed(len)) + entries[len + 1].weight
  <2> DEFINE w == entries[len + 1].weight
             x == len + 1
  <2>1. x \in 1..Len(entries) /\ x \in Nat
    BY <1>5
  <2>2. w \in 0..MaxWeight /\ w \in Nat
    <3>1. entries[x] \in ValidatorEntry
      BY <2>1
    <3> QED BY <3>1, MaxWeightAssumption DEF ValidatorEntry
  <2>3. 1..w = {j \in 1..MaxWeight : j <= w}
    BY <2>2, MaxWeightAssumption
  <2>4. 1..x = (1..len) \cup {x}
    OBVIOUS
  <2>5. Listed(x) = Listed(len) \cup ({x} \X (1..w))
    <3>1. ASSUME NEW u \in Listed(x)
          PROVE  u \in Listed(len) \cup ({x} \X (1..w))
      <4>1. PICK k \in 1..x, j \in 1..MaxWeight : u = <<k, j>>
        BY DEF Listed
      <4>2. j <= entries[k].weight
        BY <4>1 DEF Listed
      <4>3. CASE k \in 1..len
        BY <4>1, <4>2, <4>3 DEF Listed
      <4>4. CASE k = x
        <5>1. j \in 1..w
          BY <4>2, <4>4, <2>2
        <5> QED BY <4>1, <4>4, <5>1
      <4> QED BY <2>4, <4>3, <4>4
    <3>2. ASSUME NEW u \in Listed(len) \cup ({x} \X (1..w))
          PROVE  u \in Listed(x)
      <4>1. CASE u \in Listed(len)
        BY <4>1, <2>4 DEF Listed
      <4>2. CASE u \in {x} \X (1..w)
        BY <4>2, <2>3, <2>4 DEF Listed
      <4> QED BY <4>1, <4>2
    <3> QED BY <3>1, <3>2
  <2>6. \A u \in Listed(len) : u[1] # x
    BY DEF Listed
  <2> HIDE DEF w, x
  <2>7. Cardinality(Listed(len) \cup ({x} \X (1..w))) = Cardinality(Listed(len)) + w
    BY <1>1, <2>2, <2>6, BlockCount
  <2> QED BY <2>5, <2>7 DEF w, x
<1> QED BY <1>1, <1>4, <1>5

\* A signer's units are units of its first entry: signers weigh at most what the
\* list does, and all of it when no node is listed twice.
LEMMA WeightWithinList ==
    ASSUME entries \in Seq(ValidatorEntry), NEW S \in SUBSET Members(AsSet)
    PROVE  /\ WeightOf(AsSet, S) <= TrueTotal
           /\ Distinct => total_weight(AsSet) = TrueTotal
<1> DEFINE T == Listed(Len(entries))
           U(X) == Units(AsSet, X)
           f(X) == [u \in U(X) |-> <<First(u[1]), u[2]>>]
<1>1. /\ AsSet \in ValidatorSet
      /\ \A v : v \in Members(AsSet) <=> Positions(v) # {}
      /\ \A v \in Members(AsSet) : AsSet.entries[v] = get(v).weight
  BY AsSetType
<1>2. \A v \in Members(AsSet) :
         /\ First(v) \in 1..Len(entries)
         /\ entries[First(v)].node_id = v
         /\ entries[First(v)].weight = AsSet.entries[v]
  BY <1>1, GetFirst
<1>3. IsFiniteSet(T) /\ TrueTotal = Cardinality(T)
  BY ListedNext DEF TrueTotal
<1>4. ASSUME NEW X \in SUBSET Members(AsSet)
      PROVE  f(X) \in Injection(U(X), T)
  <2>1. \A u \in U(X) : /\ u = <<u[1], u[2]>> /\ u[1] \in X /\ u[2] \in 1..MaxWeight
                         /\ u[2] <= AsSet.entries[u[1]]
    BY DEF Units
  <2>2. \A u \in U(X) : <<First(u[1]), u[2]>> \in T
    BY <2>1, <1>2 DEF Listed
  <2>3. \A u, z \in U(X) : First(u[1]) = First(z[1]) /\ u[2] = z[2] => u = z
    BY <2>1, <1>2
  <2> HIDE DEF U, T
  <2>4. f(X) \in [U(X) -> T]
    BY <2>2
  <2>5. \A u, z \in U(X) : f(X)[u] = f(X)[z] => u = z
    BY <2>3
  <2> QED BY <2>4, <2>5 DEF Injection, IsInjective
<1>5. \A X \in SUBSET Members(AsSet) : WeightOf(AsSet, X) <= TrueTotal
  BY <1>3, <1>4, FS_Injection DEF WeightOf
<1>6. ASSUME Distinct PROVE total_weight(AsSet) = TrueTotal
  <2> DEFINE M == Members(AsSet)
  <2>1. ASSUME NEW t \in T
        PROVE  \E u \in U(M) : f(M)[u] = t
    <3>1. PICK k \in 1..Len(entries), j \in 1..MaxWeight : t = <<k, j>>
      BY DEF Listed
    <3>2. j <= entries[k].weight
      BY <3>1 DEF Listed
    <3> DEFINE v == entries[k].node_id
    <3>3. Positions(v) # {}
      BY DEF Positions
    <3>4. v \in M
      BY <1>1, <3>3
    <3>5. First(v) = k
      BY <1>2, <1>6, <3>4 DEF Distinct
    <3>6. AsSet.entries[v] = entries[k].weight
      BY <1>2, <3>4, <3>5
    <3>7. <<v, j>> \in U(M)
      BY <3>2, <3>4, <3>6 DEF Units
    <3>8. f(M)[<<v, j>>] = t
      BY <3>1, <3>5, <3>7
    <3> QED BY <3>7, <3>8
  <2>2. f(M) \in Injection(U(M), T)
    BY <1>4
  <2> HIDE DEF f, U, T, M
  <2>3. f(M) \in Surjection(U(M), T)
    BY <2>1, <2>2 DEF Surjection, Injection
  <2>4. Cardinality(U(M)) = Cardinality(T)
    BY <1>3, <2>2, <2>3, FS_Injection
  <2> QED BY <1>3, <2>4 DEF total_weight, WeightOf, U, M
<1> QED BY <1>5, <1>6

\* Sums that fit are not changed by the wrapping.
LEMMA WrapFits ==
    /\ \A x \in Nat : Wrap(x) \in Nat
    /\ \A x \in Nat : x < Modulus => Wrap(x) = x
  BY ModulusAssumption DEF Wrap

(***************************************************************************)
(* The inductive invariant: what the loop has seen is the prefix that it   *)
(* read, all of it genuine and known; the sums are those of the prefixes;  *)
(* and a refusal has its reason in the list.                               *)
(***************************************************************************)
Results == {"running", "Ok", "InsufficientQuorum", "UnknownValidator", "InvalidSignature"}

LoopType ==
    /\ entries \in Seq(ValidatorEntry)
    /\ signatures \in Seq(Signature)
    /\ position \in 1..(Len(signatures) + 1)
    /\ seen \in SUBSET NodeId
    /\ weight_accumulated \in Nat
    /\ summed \in 0..Len(entries)
    /\ total \in Nat
    /\ result \in Results

ReadSoFar == {signatures[k].signer : k \in 1..(position - 1)}

Prefix ==
    result \in {"running", "Ok", "InsufficientQuorum"} =>
        /\ seen = ReadSoFar
        /\ seen \subseteq Members(AsSet)
        /\ seen \subseteq Genuine
        /\ Fits => weight_accumulated = WeightOf(AsSet, seen)

Summed == Fits => total = Cardinality(Listed(summed))

Decided ==
    /\ result \in {"Ok", "InsufficientQuorum"} =>
          /\ position = Len(signatures) + 1
          /\ summed = Len(entries)
          /\ result = "Ok" <=> weight_accumulated >= list_quorum_threshold
    /\ result = "UnknownValidator" => ~(Claimed \subseteq Members(AsSet))
    /\ result = "InvalidSignature" => ~(Claimed \subseteq Genuine)

LoopInv == LoopType /\ Prefix /\ Summed /\ Decided

\* What is fixed while the loop runs.
LEMMA LoopFixed ==
    ASSUME entries' = entries, signatures' = signatures
    PROVE  /\ \A v : Positions(v)' = Positions(v) /\ get(v)' = get(v)
           /\ AsSet' = AsSet /\ Members(AsSet)' = Members(AsSet)
           /\ Claimed' = Claimed /\ Genuine' = Genuine
           /\ TrueTotal' = TrueTotal /\ (Fits' <=> Fits) /\ (Distinct' <=> Distinct)
<1>1. \A v : Positions(v)' = Positions(v)
  BY DEF Positions
<1>2. \A v : get(v)' = get(v)
  BY DEF get, Positions
<1>3. AsSet' = AsSet
  BY DEF AsSet, get, Positions
<1>4. Members(AsSet)' = Members(AsSet)
  BY <1>3 DEF Members
<1>5. Claimed' = Claimed
  BY DEF Claimed
<1>6. Genuine' = Genuine
  BY DEF Genuine, Claimed, IsFirst
<1>7. TrueTotal' = TrueTotal /\ (Fits' <=> Fits)
  BY DEF TrueTotal, Listed, Fits
<1>8. Distinct' <=> Distinct
  BY DEF Distinct
<1> QED BY <1>1, <1>2, <1>3, <1>4, <1>5, <1>6, <1>7, <1>8

\* The signer at the loop's position is one of those claimed, and the prefix read
\* so far grows by it.
LEMMA SignerClaimed ==
    ASSUME LoopInv, Running
    PROVE  /\ position \in DOMAIN signatures
           /\ signer \in Claimed
           /\ signer \in NodeId
           /\ {signatures[k].signer : k \in 1..position} = seen \cup {signer}
           /\ signer \notin seen => IsFirst(position)
<1>1. position \in 1..Len(signatures) /\ position \in Nat /\ Len(signatures) \in Nat
  BY DEF LoopInv, LoopType, Running
<1>2. signatures[position] \in Signature
  BY <1>1 DEF LoopInv, LoopType
<1>3. signer \in Claimed /\ signer \in NodeId
  BY <1>1, <1>2 DEF signer, Claimed, Signature, LoopInv, LoopType
<1>4. seen = {signatures[k].signer : k \in 1..(position - 1)}
  BY DEF LoopInv, Prefix, ReadSoFar, Running
<1>5. 1..position = (1..(position - 1)) \cup {position}
  BY <1>1
<1>6. {signatures[k].signer : k \in 1..position} = seen \cup {signer}
  BY <1>4, <1>5 DEF signer
<1>7. signer \notin seen => IsFirst(position)
  BY <1>4 DEF IsFirst, signer
<1>8. position \in DOMAIN signatures
  BY <1>1 DEF LoopInv, LoopType
<1> QED BY <1>3, <1>6, <1>7, <1>8

\* The loop starts with nothing read.
LEMMA LoopInitInv == LoopInit => LoopInv
<1> SUFFICES ASSUME LoopInit PROVE LoopInv
  OBVIOUS
<1>1. entries \in Seq(ValidatorEntry)
  BY EntryListsAssumption DEF LoopInit
<1>2. signatures \in Seq(Signature)
  BY MaxSignaturesAssumption DEF LoopInit
<1>3. LoopType
  BY <1>1, <1>2 DEF LoopInit, LoopType, Results
<1>4. ReadSoFar = {} /\ WeightOf(AsSet, {}) = 0
  <2>1. Units(AsSet, {}) = {}
    BY DEF Units
  <2> QED BY <2>1, FS_EmptySet DEF LoopInit, ReadSoFar, WeightOf
<1>5. Prefix
  BY <1>4 DEF LoopInit, Prefix
<1>6. Listed(0) = {}
  BY DEF Listed
<1>7. Summed
  BY <1>6, FS_EmptySet DEF LoopInit, Summed
<1> QED BY <1>3, <1>5, <1>7 DEF LoopInit, LoopInv, Decided

\* A repeated signer is passed over.
LEMMA SkipDuplicateInv == ASSUME LoopInv, SkipDuplicate PROVE LoopInv'
<1>1. /\ position \in DOMAIN signatures
      /\ {signatures[k].signer : k \in 1..position} = seen
  BY SignerClaimed DEF SkipDuplicate
<1>2. position \in Nat /\ position + 1 \in 1..(Len(signatures) + 1)
  BY <1>1 DEF LoopInv, LoopType
<1>3. LoopType'
  BY <1>2 DEF LoopInv, LoopType, SkipDuplicate
<1>4. ReadSoFar' = seen
  <2>1. signatures' = signatures /\ position' - 1 = position
    BY <1>2 DEF SkipDuplicate
  <2>2. \A v : v \in ReadSoFar' <=> \E k \in 1..position : v = signatures[k].signer
    BY <2>1 DEF ReadSoFar
  <2> QED BY <1>1, <2>2
<1>5. /\ AsSet' = AsSet /\ Members(AsSet)' = Members(AsSet)
      /\ Claimed' = Claimed /\ Genuine' = Genuine /\ (Fits' <=> Fits)
  BY LoopFixed DEF SkipDuplicate
<1>6. WeightOf(AsSet, seen)' = WeightOf(AsSet, seen)
  BY <1>5 DEF SkipDuplicate, WeightOf, Units
<1>7. Prefix'
  BY <1>4, <1>5, <1>6 DEF LoopInv, Prefix, ReadSoFar, SkipDuplicate, Running
<1>8. Summed'
  BY <1>5 DEF LoopInv, Summed, SkipDuplicate, Listed
<1>9. Decided'
  BY DEF Decided, SkipDuplicate, Running
<1> QED BY <1>3, <1>7, <1>8, <1>9 DEF LoopInv

\* A signer that is known and genuine counts with its weight.
LEMMA CountSignerInv == ASSUME LoopInv, CountSigner PROVE LoopInv'
<1>0. Running /\ result = "running" /\ result' = "running"
  BY DEF CountSigner, Running
<1>1. /\ position \in DOMAIN signatures /\ signer \in Claimed /\ signer \in NodeId
      /\ {signatures[k].signer : k \in 1..position} = seen \cup {signer}
      /\ IsFirst(position)
  BY <1>0, SignerClaimed DEF CountSigner
<1>2. position \in Nat /\ position + 1 \in 1..(Len(signatures) + 1)
  BY <1>1 DEF LoopInv, LoopType
<1>3. entries \in Seq(ValidatorEntry) /\ Positions(signer) # {}
  BY DEF LoopInv, LoopType, CountSigner
<1>4. get(signer) \in ValidatorEntry
  BY <1>3, GetFirst
<1>5. get(signer).weight \in Nat
  BY <1>4, MaxWeightAssumption DEF ValidatorEntry
<1>6. /\ signer \in Members(AsSet) /\ AsSet \in ValidatorSet
      /\ AsSet.entries[signer] = get(signer).weight
  BY <1>3, AsSetType
<1>7. signer \in Genuine
  BY <1>1 DEF Genuine, CountSigner, signer
<1>8. seen \in SUBSET Members(AsSet) /\ seen \subseteq Genuine
      /\ (Fits => weight_accumulated = WeightOf(AsSet, seen))
  BY <1>0 DEF LoopInv, Prefix
<1>9. seen \cup {signer} \in SUBSET Members(AsSet)
  BY <1>6, <1>8
<1>10. WeightOf(AsSet, seen \cup {signer}) = WeightOf(AsSet, seen) + get(signer).weight
  BY <1>6, <1>8, WeightAdd DEF CountSigner
<1>11. /\ WeightOf(AsSet, seen \cup {signer}) <= TrueTotal
       /\ WeightOf(AsSet, seen \cup {signer}) \in Nat
       /\ TrueTotal \in Nat
  <2>1. Len(entries) \in 0..Len(entries)
    BY <1>3
  <2> QED BY <1>3, <1>6, <1>9, <2>1, WeightWithinList, UnitsFinite, ListedNext
<1>12. /\ Fits => weight_accumulated' = WeightOf(AsSet, seen \cup {signer})
       /\ weight_accumulated' \in Nat
  <2>1. weight_accumulated \in Nat
    BY DEF LoopInv, LoopType
  <2>2. weight_accumulated' = Wrap(weight_accumulated + get(signer).weight)
    BY DEF CountSigner
  <2>3. weight_accumulated' \in Nat
    BY <1>5, <2>1, <2>2, WrapFits
  <2>4. ASSUME Fits
        PROVE  weight_accumulated' = WeightOf(AsSet, seen \cup {signer})
    <3>1. WeightOf(AsSet, seen \cup {signer}) < Modulus
      BY <1>11, <2>4, ModulusAssumption DEF Fits
    <3> QED BY <1>8, <1>10, <1>11, <2>2, <2>4, <3>1, WrapFits
  <2> QED BY <2>3, <2>4
<1>13. LoopType'
  BY <1>1, <1>2, <1>12 DEF LoopInv, LoopType, CountSigner
<1>14. /\ AsSet' = AsSet /\ Members(AsSet)' = Members(AsSet)
       /\ Claimed' = Claimed /\ Genuine' = Genuine /\ (Fits' <=> Fits)
  BY LoopFixed DEF CountSigner
<1>15. seen' = seen \cup {signer}
  BY DEF CountSigner
<1>16. ReadSoFar' = seen'
  <2>1. signatures' = signatures /\ position' - 1 = position
    BY <1>2 DEF CountSigner
  <2>2. \A v : v \in ReadSoFar' <=> \E k \in 1..position : v = signatures[k].signer
    BY <2>1 DEF ReadSoFar
  <2> QED BY <1>1, <1>15, <2>2
<1>17. WeightOf(AsSet, seen)' = WeightOf(AsSet, seen \cup {signer})
  BY <1>14, <1>15 DEF WeightOf, Units
<1>18. Prefix'
  BY <1>7, <1>8, <1>9, <1>12, <1>14, <1>15, <1>16, <1>17 DEF Prefix, ReadSoFar
<1>19. Summed'
  BY <1>14 DEF LoopInv, Summed, CountSigner, Listed
<1>20. Decided'
  BY <1>0 DEF Decided
<1> QED BY <1>13, <1>18, <1>19, <1>20 DEF LoopInv

\* A signer that is unknown, or whose first signature is not genuine, is the
\* reason for a refusal.
LEMMA RejectSignerInv == ASSUME LoopInv, RejectSigner PROVE LoopInv'
<1>0. Running /\ result = "running"
  BY DEF RejectSigner, Running
<1>1. /\ position \in DOMAIN signatures /\ signer \in Claimed /\ signer \in NodeId
      /\ IsFirst(position)
  BY <1>0, SignerClaimed DEF RejectSigner
<1>2. LoopType'
  BY <1>1 DEF LoopInv, LoopType, RejectSigner, Results
<1>3. /\ Members(AsSet)' = Members(AsSet)
      /\ Claimed' = Claimed /\ Genuine' = Genuine /\ (Fits' <=> Fits)
  BY LoopFixed DEF RejectSigner
<1>4. result' \in {"UnknownValidator", "InvalidSignature"}
  BY DEF RejectSigner
<1>5. result' = "UnknownValidator" => signer \notin Members(AsSet)
  <2>1. result' = "UnknownValidator" => Positions(signer) = {}
    BY DEF RejectSigner
  <2> QED BY <2>1, AsSetType DEF LoopInv, LoopType
<1>6. result' = "InvalidSignature" => signer \notin Genuine
  <2>1. result' = "InvalidSignature" => ~signatures[position].good
    BY DEF RejectSigner
  <2>2. \A k \in DOMAIN signatures :
           signatures[k].signer = signer /\ IsFirst(k) => k = position
    <3> SUFFICES ASSUME NEW k \in DOMAIN signatures,
                        signatures[k].signer = signer, IsFirst(k)
                 PROVE  k = position
      OBVIOUS
    <3>1. k \in Nat /\ position \in Nat /\ k >= 1 /\ position >= 1
      BY <1>1 DEF LoopInv, LoopType
    <3>2. ~(k < position)
      BY <1>1, <3>1 DEF IsFirst, signer
    <3>3. ~(position < k)
      BY <1>1, <3>1 DEF IsFirst, signer
    <3> QED BY <3>1, <3>2, <3>3
  <2> QED BY <2>1, <2>2 DEF Genuine
<1>7. Prefix'
  BY <1>4 DEF Prefix
<1>8. Summed'
  BY <1>3 DEF LoopInv, Summed, RejectSigner, Listed
<1>9. Decided'
  BY <1>1, <1>3, <1>4, <1>5, <1>6 DEF Decided
<1> QED BY <1>2, <1>7, <1>8, <1>9 DEF LoopInv

\* One more entry is added to the total.
LEMMA AddWeightInv == ASSUME LoopInv, AddWeight PROVE LoopInv'
<1>0. result = "running" /\ result' = "running"
  BY DEF AddWeight
<1>1. /\ entries \in Seq(ValidatorEntry) /\ total \in Nat
      /\ summed \in 0..Len(entries) /\ summed < Len(entries)
      /\ summed + 1 \in 0..Len(entries)
  BY DEF LoopInv, LoopType, AddWeight
<1>2. entries[summed + 1] \in ValidatorEntry
  BY <1>1
<1>3. entries[summed + 1].weight \in Nat
  BY <1>2, MaxWeightAssumption DEF ValidatorEntry
<1>4. /\ Cardinality(Listed(summed + 1)) =
             Cardinality(Listed(summed)) + entries[summed + 1].weight
      /\ Cardinality(Listed(summed + 1)) <= TrueTotal
      /\ Cardinality(Listed(summed + 1)) \in Nat /\ TrueTotal \in Nat
  BY <1>1, ListedNext
<1>5. total' = Wrap(total + entries[summed + 1].weight)
  BY DEF AddWeight
<1>6. total' \in Nat
  BY <1>1, <1>3, <1>5, WrapFits
<1>7. ASSUME Fits PROVE total' = Cardinality(Listed(summed + 1))
  <2>1. total = Cardinality(Listed(summed))
    BY <1>7 DEF LoopInv, Summed
  <2>2. Cardinality(Listed(summed + 1)) < Modulus
    BY <1>4, <1>7, ModulusAssumption DEF Fits
  <2> QED BY <1>4, <1>5, <2>1, <2>2, WrapFits
<1>8. LoopType'
  BY <1>1, <1>6 DEF LoopInv, LoopType, AddWeight
<1>9. /\ AsSet' = AsSet /\ Members(AsSet)' = Members(AsSet)
      /\ Genuine' = Genuine /\ (Fits' <=> Fits)
  BY LoopFixed DEF AddWeight
<1>10. WeightOf(AsSet, seen)' = WeightOf(AsSet, seen)
  BY <1>9 DEF AddWeight, WeightOf, Units
<1>11. Prefix'
  BY <1>9, <1>10 DEF LoopInv, Prefix, ReadSoFar, AddWeight
<1>12. Cardinality(Listed(summed))' = Cardinality(Listed(summed + 1))
  BY DEF AddWeight, Listed
<1>13. Summed'
  BY <1>7, <1>9, <1>12 DEF Summed
<1>14. Decided'
  BY <1>0 DEF Decided
<1> QED BY <1>8, <1>11, <1>13, <1>14 DEF LoopInv

\* The comparison with the threshold decides.
LEMMA ConcludeInv == ASSUME LoopInv, Conclude PROVE LoopInv'
<1>1. /\ position = Len(signatures) + 1 /\ summed = Len(entries)
      /\ weight_accumulated \in Nat /\ total \in Nat
  BY DEF LoopInv, LoopType, Conclude
<1>2. list_quorum_threshold \in Nat /\ list_quorum_threshold' = list_quorum_threshold
  <2>1. 2 * total \in Nat
    BY <1>1
  <2>2. Wrap(2 * total) \in Nat
    BY <2>1, WrapFits
  <2>3. Wrap(2 * total) \div 3 + 1 \in Nat
    BY <2>2
  <2> QED BY <2>3, WrapFits DEF list_quorum_threshold, Conclude, Wrap
<1>3. LoopType'
  BY DEF LoopInv, LoopType, Conclude, Results
<1>4. /\ AsSet' = AsSet /\ Members(AsSet)' = Members(AsSet)
      /\ Genuine' = Genuine /\ (Fits' <=> Fits)
  BY LoopFixed DEF Conclude
<1>5. WeightOf(AsSet, seen)' = WeightOf(AsSet, seen)
  BY <1>4 DEF Conclude, WeightOf, Units
<1>6. Prefix'
  BY <1>4, <1>5 DEF LoopInv, Prefix, ReadSoFar, Conclude
<1>7. Summed'
  BY <1>4 DEF LoopInv, Summed, Conclude, Listed
<1>8. result' \in {"Ok", "InsufficientQuorum"}
      /\ (result' = "Ok" <=> weight_accumulated >= list_quorum_threshold)
  BY <1>1, <1>2 DEF Conclude
<1>9. Decided'
  BY <1>1, <1>2, <1>8 DEF Decided, Conclude
<1> QED BY <1>3, <1>6, <1>7, <1>9 DEF LoopInv

\* No step of the loop breaks the invariant.
LEMMA LoopNextInv == LoopInv /\ [LoopNext]_loopVars => LoopInv'
<1> SUFFICES ASSUME LoopInv, [LoopNext]_loopVars PROVE LoopInv'
  OBVIOUS
<1>1. CASE UNCHANGED loopVars
  <2>1. /\ AsSet' = AsSet /\ Members(AsSet)' = Members(AsSet)
        /\ Claimed' = Claimed /\ Genuine' = Genuine /\ (Fits' <=> Fits)
    BY <1>1, LoopFixed DEF loopVars
  <2>2. WeightOf(AsSet, seen)' = WeightOf(AsSet, seen)
    BY <1>1, <2>1 DEF loopVars, WeightOf, Units
  <2>3. LoopType' /\ Prefix'
    BY <1>1, <2>1, <2>2 DEF loopVars, LoopInv, LoopType, Prefix, ReadSoFar
  <2>4. Summed' /\ Decided'
    BY <1>1, <2>1 DEF loopVars, LoopInv, Summed, Listed, Decided,
                      list_quorum_threshold, Wrap
  <2> QED BY <2>3, <2>4 DEF LoopInv
<1> QED BY <1>1, SkipDuplicateInv, CountSignerInv, RejectSignerInv, AddWeightInv,
           ConcludeInv DEF LoopNext

\* The invariant is what the loop is for.
LEMMA LoopInvDecides == LoopInv => LoopDecidesQuorum
<1> SUFFICES ASSUME LoopInv, Fits
             PROVE  /\ Distinct /\ result # "running" =>
                          (result = "Ok" <=> verify_quorum(AsSet, Claimed, Genuine))
                    /\ result = "Ok" => 3 * WeightOf(AsSet, Claimed) > 2 * TrueTotal
  BY DEF LoopDecidesQuorum
<1>1. entries \in Seq(ValidatorEntry) /\ Len(entries) \in 0..Len(entries)
  BY DEF LoopInv, LoopType
<1>2. TrueTotal \in Nat
  BY <1>1, ListedNext
<1>3. CASE result \in {"Ok", "InsufficientQuorum"}
  <2>1. /\ position = Len(signatures) + 1 /\ summed = Len(entries)
        /\ result = "Ok" <=> weight_accumulated >= list_quorum_threshold
    BY <1>3 DEF LoopInv, Decided
  <2>2. Claimed = seen
    <3>1. signatures \in Seq(Signature) /\ Len(signatures) + 1 - 1 = Len(signatures)
      BY DEF LoopInv, LoopType
    <3>2. seen = {signatures[k].signer : k \in 1..Len(signatures)}
      BY <1>3, <2>1, <3>1 DEF LoopInv, Prefix, ReadSoFar
    <3>3. DOMAIN signatures = 1..Len(signatures)
      BY <3>1
    <3> QED BY <3>2, <3>3 DEF Claimed
  <2>3. Claimed \subseteq Members(AsSet) /\ Claimed \subseteq Genuine
        /\ weight_accumulated = WeightOf(AsSet, Claimed)
    BY <1>3, <2>2 DEF LoopInv, Prefix
  <2>4. total = TrueTotal
    BY <2>1 DEF LoopInv, Summed, TrueTotal
  <2>5. list_quorum_threshold = (2 * TrueTotal) \div 3 + 1
    <3>1. 2 * TrueTotal \in Nat /\ 2 * TrueTotal < Modulus
      BY <1>2 DEF Fits
    <3>2. Wrap(2 * TrueTotal) = 2 * TrueTotal
      BY <3>1, WrapFits
    <3>3. (2 * TrueTotal) \div 3 + 1 \in Nat /\ (2 * TrueTotal) \div 3 + 1 < Modulus
      BY <1>2, <3>1, ModulusAssumption
    <3>4. Wrap((2 * TrueTotal) \div 3 + 1) = (2 * TrueTotal) \div 3 + 1
      BY <3>3, WrapFits
    <3> QED BY <2>4, <3>2, <3>4 DEF list_quorum_threshold
  <2>6. WeightOf(AsSet, Claimed) \in Nat
    BY <1>1, <2>3, AsSetType, UnitsFinite
  <2>7. ASSUME Distinct
        PROVE  result = "Ok" <=> verify_quorum(AsSet, Claimed, Genuine)
    <3>1. {} \in SUBSET Members(AsSet)
      OBVIOUS
    <3>2. total_weight(AsSet) = TrueTotal
      BY <1>1, <2>7, <3>1, WeightWithinList
    <3> QED BY <2>1, <2>3, <2>5, <3>2 DEF verify_quorum, quorum_threshold
  <2>8. result = "Ok" => 3 * WeightOf(AsSet, Claimed) > 2 * TrueTotal
    BY <1>2, <2>1, <2>3, <2>5, <2>6
  <2> QED BY <2>7, <2>8
<1>4. CASE result \in {"UnknownValidator", "InvalidSignature"}
  BY <1>4 DEF LoopInv, Decided, verify_quorum
<1>5. CASE result = "running"
  BY <1>5
<1> QED BY <1>3, <1>4, <1>5 DEF LoopInv, LoopType, Results

\* ValidatorSet::verify_quorum, run over any list of signatures and any list of
\* entries whose doubled weight fits in a u64, decides the set-level rule that the
\* finality proofs use.
THEOREM LoopDecides == LoopSpec => []LoopDecidesQuorum
  BY LoopInitInv, LoopNextInv, LoopInvDecides, PTL DEF LoopSpec

(***************************************************************************)
(* Examples.                                                               *)
(***************************************************************************)

\* A function on an initial segment of the numbers is a list.
LEMMA FunctionIsSeq ==
    ASSUME NEW S, NEW m \in Nat, NEW list \in [1..m -> S]
    PROVE  list \in Seq(S) /\ Len(list) = m /\ DOMAIN list = 1..m
  OBVIOUS

\* After len bytes there are K of the marker, and they are the only ones.
EndsMarked(bytes, len, K) ==
    /\ DOMAIN bytes = 1..(len + K)
    /\ \A i \in 1..(len + K) : bytes[i] = "m" <=> i > len

\* Reading bytes that end with a marker as UTF-8 replaces or joins some of the
\* bytes before the marker, and leaves the marker whole at the end.
LEMMA MarkerStays ==
    ASSUME NEW len \in Nat, NEW K \in Nat, NEW bytes, EndsMarked(bytes, len, K),
           NEW t, t = from_utf8_lossy(bytes)
    PROVE  Len(t) - K \in Nat /\ EndsMarked(t, Len(t) - K, K)
<1> DEFINE Swallowed(i) == i > 1 /\ bytes[i] = "c" /\ bytes[i - 1] = "l"
           Shown(i) == IF bytes[i] \in {"a", "m"} THEN bytes[i]
                       ELSE IF bytes[i] = "l" /\ i < Len(bytes) /\ bytes[i + 1] = "c"
                         THEN "x"
                       ELSE "?"
           rest == {i \in DOMAIN bytes : ~Swallowed(i)}
           high == (len + 1)..(len + K)
           C == Cardinality(rest)
           Num(i) == Cardinality({x \in rest : x <= i})
           At(j) == CHOOSE i \in rest : Num(i) = j
<1>1. t = [j \in 1..C |-> Shown(At(j))]
  BY DEF from_utf8_lossy
<1>2. /\ DOMAIN bytes = 1..(len + K)
      /\ \A i \in DOMAIN bytes : bytes[i] = "m" <=> i \in high
  BY DEF EndsMarked
<1>3. \A i \in DOMAIN bytes : /\ Shown(i) = "m" <=> i \in high
                              /\ Shown(i) \in {"a", "m", "x", "?"}
  BY <1>2
<1>4. /\ rest \in SUBSET (1..(len + K)) /\ rest \in SUBSET Nat
      /\ high \in SUBSET rest
  <2>1. \A i \in high : i \in DOMAIN bytes /\ bytes[i] = "m"
    BY <1>2
  <2>2. \A i \in high : ~Swallowed(i)
    BY <2>1
  <2> QED BY <1>2, <2>1, <2>2
<1>5. IsFiniteSet(rest) /\ C \in Nat
  <2>1. IsFiniteSet(1..(len + K))
    BY FS_Interval
  <2> QED BY <1>4, <2>1, FS_Subset, FS_CardinalityType
<1>6. PICK L : L = {q \in rest \X rest : q[1] <= q[2]}
  OBVIOUS
<1> HIDE DEF Swallowed, Shown, rest, high, C, Num, At
<1>7. TotalOrder(rest, L) /\ \A i \in rest : Num(i) = Cardinality(Below(rest, L, i))
  <2>1. \A i \in rest : Below(rest, L, i) = {x \in rest : x <= i}
    BY <1>4, <1>6, NatOrder
  <2>2. TotalOrder(rest, L)
    BY <1>4, <1>6, NatOrder
  <2> QED BY <2>1, <2>2, Zenon DEF Num
<1>8. \A j \in 1..C : At(j) \in rest /\ Num(At(j)) = j
  <2> TAKE j \in 1..C
  <2>1. \E i \in rest : Num(i) = j
    BY <1>5, <1>7, BelowOnto DEF C
  <2> QED BY <2>1 DEF At
<1>9. /\ IsFiniteSet(rest \ high) /\ K <= C
      /\ Cardinality(rest \ high) = C - K
  <2>1. IsFiniteSet(high) /\ Cardinality(high) = K
    <3>1. len + 1 \in Int /\ len + K \in Int
      OBVIOUS
    <3>2. /\ IsFiniteSet((len + 1)..(len + K))
          /\ Cardinality((len + 1)..(len + K)) =
                IF len + 1 > len + K THEN 0 ELSE (len + K) - (len + 1) + 1
      BY <3>1, FS_Interval
    <3> QED BY <3>2 DEF high
  <2>2. rest \cap high = high
    BY <1>4
  <2>3. IsFiniteSet(rest \ high) /\ Cardinality(rest \ high) = C - K
    <3>1. /\ IsFiniteSet(rest \ high)
          /\ Cardinality(rest \ high) = Cardinality(rest) - Cardinality(rest \cap high)
      BY <1>5, FS_Difference
    <3> QED BY <2>1, <2>2, <3>1 DEF C
  <2>4. Cardinality(rest \ high) \in Nat
    BY <2>3, FS_CardinalityType
  <2> QED BY <1>5, <2>3, <2>4
<1>10. \A i \in rest : i \in high <=> Num(i) > C - K
  <2> TAKE i \in rest
  <2> DEFINE B == {x \in rest : x <= i}
  <2>1. IsFiniteSet(B) /\ Num(i) = Cardinality(B) /\ Num(i) \in Nat
    BY <1>5, FS_Subset, FS_CardinalityType DEF Num
  <2>2. i \in Nat
    BY <1>4
  <2>3. ASSUME i \in high PROVE Num(i) > C - K
    <3>1. (rest \ high) \cup {i} \in SUBSET B
      BY <1>4, <2>2, <2>3 DEF high
    <3>2. Cardinality((rest \ high) \cup {i}) = (C - K) + 1
      BY <1>9, <2>3, FS_AddElement
    <3>3. Cardinality((rest \ high) \cup {i}) <= Cardinality(B)
      BY <2>1, <3>1, FS_Subset
    <3> QED BY <1>5, <2>1, <3>2, <3>3
  <2>4. ASSUME i \notin high PROVE Num(i) <= C - K
    <3>1. B \in SUBSET (rest \ high)
      BY <1>4, <2>2, <2>4 DEF high
    <3> QED BY <1>9, <2>1, <3>1, FS_Subset
  <2> QED BY <1>5, <2>1, <2>3, <2>4
<1>11. \A j \in 1..C : t[j] = "m" <=> j > C - K
  <2> TAKE j \in 1..C
  <2>1. t[j] = Shown(At(j)) /\ At(j) \in rest /\ Num(At(j)) = j
    BY <1>1, <1>8
  <2>2. At(j) \in DOMAIN bytes
    BY <1>2, <1>4, <2>1
  <2> QED BY <1>3, <1>10, <2>1, <2>2
<1>12. DOMAIN t = 1..C /\ Len(t) = C
  <2>1. \A j \in 1..C : Shown(At(j)) \in {"a", "m", "x", "?"}
    BY <1>2, <1>3, <1>4, <1>8
  <2>2. t \in [1..C -> {"a", "m", "x", "?"}]
    BY <1>1, <2>1
  <2> QED BY <1>5, <2>2, FunctionIsSeq
<1>13. C - K \in Nat /\ (C - K) + K = C
  BY <1>5, <1>9
<1> QED BY <1>11, <1>12, <1>13 DEF EndsMarked

(***************************************************************************)
(* The inductive invariant: the adjustment is over once the stage says so, *)
(* with the count that it ended with, and what was read has its marker.    *)
(***************************************************************************)
SynthInv ==
    /\ n \in Lengths /\ ratio \in Ratios
    /\ ones \in Nat /\ guard \in Nat
    /\ stage # "drawn" => Finished
    /\ stage = "read" /\ n >= Marker =>
          Marks = (Len(text) - Marker + 1)..Len(text)

\* The numbers of bits are natural numbers, and so is the wanted number of ones.
LEMMA BitsType ==
    ASSUME n \in Lengths, ratio \in Ratios
    PROVE  /\ n \in Nat /\ StreamLength \in Nat /\ total_bits \in Nat
           /\ n >= Marker => n - StreamLength = Marker
           /\ ratio # NoRatio =>
                 /\ ratio \in Nat /\ want \in Nat
                 /\ 200 * want <= 2 * ratio * total_bits + 100
                 /\ 200 * want + 100 >= 2 * ratio * total_bits
<1>1. n \in Nat /\ Marker \in Nat /\ ByteBits \in Nat
  BY LengthsAssumption, BytesAssumption
<1>2. StreamLength \in Nat /\ (n >= Marker => n - StreamLength = Marker)
  BY <1>1 DEF StreamLength
<1>3. total_bits \in Nat
  BY <1>1, <1>2 DEF total_bits
<1>4. ratio # NoRatio => ratio \in Nat
  BY RatiosAssumption
<1>5. ASSUME ratio # NoRatio
      PROVE  /\ want \in Nat
             /\ 200 * want <= 2 * ratio * total_bits + 100
             /\ 200 * want + 100 >= 2 * ratio * total_bits
  <2> DEFINE x == 2 * ratio * total_bits + 100
  <2>1. x \in Nat /\ 2 * ratio * total_bits = x - 100
    BY <1>3, <1>4, <1>5
  <2>2. want = x \div 200
    BY DEF want
  <2> HIDE DEF x
  <2>3. x \div 200 \in Nat /\ 200 * (x \div 200) <= x /\ x < 200 * (x \div 200) + 200
    BY <2>1
  <2> QED BY <2>1, <2>2, <2>3
<1> QED BY <1>1, <1>2, <1>3, <1>4, <1>5

\* An example starts with no bit tried.
LEMMA SynthInitInv == SynthInit => SynthInv
<1> SUFFICES ASSUME SynthInit PROVE SynthInv
  OBVIOUS
<1>1. total_bits \in Nat
  BY BitsType DEF SynthInit
<1> QED BY <1>1 DEF SynthInit, SynthInv

\* No step of the synthesis breaks the invariant.
LEMMA SynthNextInv == SynthInv /\ [SynthNext]_synthVars => SynthInv'
<1> SUFFICES ASSUME SynthInv, [SynthNext]_synthVars PROVE SynthInv'
  OBVIOUS
<1>1. CASE flip_bit
  <2>1. ratio # NoRatio /\ ones \in Nat /\ guard \in Nat
    BY <1>1 DEF flip_bit, Finished, SynthInv
  <2>2. want \in Nat
    BY <2>1, BitsType DEF SynthInv
  <2>3. ones' \in Nat /\ guard' \in Nat
    BY <1>1, <2>1, <2>2 DEF flip_bit
  <2> QED BY <1>1, <2>3 DEF flip_bit, SynthInv
<1>2. CASE adjusted
  <2>1. Finished'
    BY <1>2 DEF adjusted, Finished, want, total_bits, StreamLength
  <2> QED BY <1>2, <2>1 DEF adjusted, SynthInv
<1>3. CASE synth_response_text
  <2>1. Finished'
    <3>1. Finished
      BY <1>3 DEF synth_response_text, SynthInv
    <3> QED BY <1>3, <3>1 DEF synth_response_text, Finished, want, total_bits, StreamLength
  <2>2. PICK stream \in [1..StreamLength -> {"a", "l", "c"}] :
           text' = from_utf8_lossy([i \in 1..n |-> IF i <= StreamLength THEN stream[i]
                                                                     ELSE "m"])
    BY <1>3 DEF synth_response_text
  <2>3. ASSUME n >= Marker
        PROVE  Marks' = (Len(text') - Marker + 1)..Len(text')
    <3>1. /\ n = StreamLength + Marker /\ n \in Nat
          /\ StreamLength \in Nat /\ Marker \in Nat
      BY <2>3, BitsType, BytesAssumption DEF SynthInv
    <3>2. PICK bytes : bytes = [i \in 1..n |-> IF i <= StreamLength THEN stream[i] ELSE "m"]
      OBVIOUS
    <3>3. DOMAIN bytes = 1..(StreamLength + Marker)
      BY <3>1, <3>2
    <3>4. EndsMarked(bytes, StreamLength, Marker)
      BY <3>1, <3>2, <3>3 DEF EndsMarked
    <3>5. PICK t : t = from_utf8_lossy(bytes)
      OBVIOUS
    <3>6. text' = t
      BY <2>2, <3>2, <3>5
    <3>7. Len(t) - Marker \in Nat /\ EndsMarked(t, Len(t) - Marker, Marker)
      BY <3>1, <3>4, <3>5, MarkerStays
    <3>8. Len(t) \in Nat /\ (Len(t) - Marker) + Marker = Len(t)
      BY <3>1, <3>7
    <3>9. {p \in DOMAIN t : t[p] = "m"} = (Len(t) - Marker + 1)..Len(t)
      BY <3>1, <3>7, <3>8 DEF EndsMarked
    <3> QED BY <3>6, <3>9 DEF Marks
  <2> QED BY <1>3, <2>1, <2>3 DEF synth_response_text, SynthInv
<1>4. CASE UNCHANGED synthVars
  BY <1>4 DEF synthVars, SynthInv, Marks, Finished, want, total_bits, StreamLength
<1> QED BY <1>1, <1>2, <1>3, <1>4 DEF SynthNext

\* Whatever bytes are drawn: an example whose adjustment did not run out of draws
\* has the observed share of ones to the nearest bit (adjust_ones_ratio), and its
\* text ends with the whole marker when there is room (synth_response_text).
THEOREM ExampleFits == SynthSpec => []ExampleFitsVariant
<1>1. SynthInv => ExampleFitsVariant
  <2> SUFFICES ASSUME SynthInv PROVE ExampleFitsVariant
    OBVIOUS
  <2>1. ASSUME stage # "drawn", ratio # NoRatio, guard < 4 * total_bits
        PROVE  ones = want
    <3>1. guard \in Nat /\ total_bits \in Nat
      BY BitsType DEF SynthInv
    <3> QED BY <2>1, <3>1 DEF SynthInv, Finished
  <2> QED BY <2>1, BitsType DEF SynthInv, ExampleFitsVariant
<1> QED BY <1>1, SynthInitInv, SynthNextInv, PTL DEF SynthSpec

(***************************************************************************)
(* Profiles.  A list of measurements is a function from the positions of   *)
(* the samples that have one.                                              *)
(***************************************************************************)
Measured(list) ==
    /\ IsFiniteSet(DOMAIN list)
    /\ DOMAIN list \in SUBSET Nat
    /\ list \in [DOMAIN list -> Nat]

\* The order in which sorting puts the positions.
SortOrder(list) ==
    {q \in (DOMAIN list) \X (DOMAIN list) :
        list[q[1]] < list[q[2]] \/ (list[q[1]] = list[q[2]] /\ q[1] <= q[2])}

\* It is total, and the rank of a position is its number in it.
LEMMA SortTotal ==
    ASSUME NEW list, Measured(list)
    PROVE  /\ TotalOrder(DOMAIN list, SortOrder(list))
           /\ \A i \in DOMAIN list :
                 Rank(list, i) = Cardinality(Below(DOMAIN list, SortOrder(list), i))
<1> DEFINE D == DOMAIN list
           L == SortOrder(list)
<1>1. \A x, y \in D : <<x, y>> \in L <=>
         list[x] < list[y] \/ (list[x] = list[y] /\ x <= y)
  BY DEF SortOrder
<1>2. \A x \in D : x \in Nat /\ list[x] \in Nat
  BY DEF Measured
<1> HIDE DEF D, L
<1>3. \A x \in D : <<x, x>> \in L
  BY <1>1, <1>2
<1>4. \A x, y \in D : <<x, y>> \in L \/ <<y, x>> \in L
  <2> TAKE x, y \in D
  <2>1. x \in Nat /\ y \in Nat /\ list[x] \in Nat /\ list[y] \in Nat
    BY <1>2
  <2> QED BY <1>1, <2>1
<1>5. \A x, y \in D : <<x, y>> \in L /\ <<y, x>> \in L => x = y
  BY <1>1, <1>2
<1>6. \A x, y, z \in D : <<x, y>> \in L /\ <<y, z>> \in L => <<x, z>> \in L
  <2> TAKE x, y, z \in D
  <2>1. /\ x \in Nat /\ y \in Nat /\ z \in Nat
        /\ list[x] \in Nat /\ list[y] \in Nat /\ list[z] \in Nat
    BY <1>2
  <2> QED BY <1>1, <2>1
<1>7. TotalOrder(D, L)
  BY <1>3, <1>4, <1>5, <1>6, Zenon DEF TotalOrder
<1>8. ASSUME NEW i \in D PROVE Rank(list, i) = Cardinality(Below(D, L, i))
  <2>1. Below(D, L, i) = {j \in D : list[j] < list[i] \/ (list[j] = list[i] /\ j <= i)}
    BY <1>1 DEF Below
  <2> QED BY <2>1 DEF Rank, D
<1> QED BY <1>7, <1>8 DEF D, L

\* The position that sorting puts at place r.
Placed(list, r) == CHOOSE i \in DOMAIN list : Rank(list, i) = r

\* There is one, and its measurement stands at place r of the sorted list.
LEMMA PlacedRank ==
    ASSUME NEW list, Measured(list), NEW r \in 1..Cardinality(DOMAIN list)
    PROVE  /\ Placed(list, r) \in DOMAIN list
           /\ Rank(list, Placed(list, r)) = r
           /\ Sorted(list)[r] = list[Placed(list, r)]
           /\ Sorted(list)[r] \in Nat
<1>1. IsFiniteSet(DOMAIN list)
  BY DEF Measured
<1>2. \E i \in DOMAIN list :
         Cardinality(Below(DOMAIN list, SortOrder(list), i)) = r
  BY <1>1, SortTotal, BelowOnto
<1>3. \E i \in DOMAIN list : Rank(list, i) = r
  BY <1>2, SortTotal
<1>4. Placed(list, r) \in DOMAIN list /\ Rank(list, Placed(list, r)) = r
  BY <1>3 DEF Placed
<1>5. Sorted(list)[r] = list[Placed(list, r)]
  BY DEF Sorted, Placed
<1> QED BY <1>4, <1>5 DEF Measured

\* A sorted list is as long as the list and rises.
LEMMA SortedRises ==
    ASSUME NEW list, Measured(list)
    PROVE  /\ Cardinality(DOMAIN list) \in Nat
           /\ Sorted(list) \in Seq(Nat)
           /\ Len(Sorted(list)) = Cardinality(DOMAIN list)
           /\ \A r, q \in 1..Cardinality(DOMAIN list) :
                 r <= q => Sorted(list)[r] <= Sorted(list)[q]
<1> DEFINE D == DOMAIN list
           N == Cardinality(D)
           s == Sorted(list)
<1>1. N \in Nat /\ IsFiniteSet(D)
  BY FS_CardinalityType DEF Measured
<1>2. s = [r \in 1..N |-> list[Placed(list, r)]]
  BY DEF Sorted, Placed
<1>3. \A r \in 1..N : list[Placed(list, r)] \in Nat
  BY PlacedRank
<1>4. s \in [1..N -> Nat]
  BY <1>2, <1>3
<1>5. s \in Seq(Nat) /\ Len(s) = N
  BY <1>1, <1>4, FunctionIsSeq
<1>6. ASSUME NEW r \in 1..N, NEW q \in 1..N, r <= q
      PROVE  s[r] <= s[q]
  <2> DEFINE x == Placed(list, r)
             y == Placed(list, q)
             L == SortOrder(list)
  <2>1. x \in D /\ y \in D /\ Rank(list, x) = r /\ Rank(list, y) = q
        /\ s[r] = list[x] /\ s[q] = list[y]
    BY PlacedRank
  <2>2. Cardinality(Below(D, L, x)) = r /\ Cardinality(Below(D, L, y)) = q
        /\ TotalOrder(D, L)
    BY <2>1, SortTotal
  <2> HIDE DEF x, y, L, s
  <2>3. <<x, y>> \in L
    BY <1>1, <1>6, <2>1, <2>2, BelowOrder
  <2>4. list[x] \in Nat /\ list[y] \in Nat
    BY <2>1 DEF Measured
  <2> QED BY <2>1, <2>3, <2>4 DEF L, SortOrder
<1> QED BY <1>1, <1>5, <1>6

\* At least r measurements are at or below what stands at place r, and at least
\* those from place r on at or above.
LEMMA SortedCounts ==
    ASSUME NEW list, Measured(list), NEW r \in 1..Cardinality(DOMAIN list),
           NEW A, NEW B, IsFiniteSet(A), IsFiniteSet(B),
           \A i \in DOMAIN list : list[i] <= Sorted(list)[r] => i \in A,
           \A i \in DOMAIN list : list[i] >= Sorted(list)[r] => i \in B
    PROVE  /\ Cardinality(A) >= r
           /\ Cardinality(B) >= Cardinality(DOMAIN list) - r + 1
           /\ Cardinality(A) \in Nat /\ Cardinality(B) \in Nat
<1> DEFINE D == DOMAIN list
           N == Cardinality(D)
           x == Placed(list, r)
           L == SortOrder(list)
           W == Below(D, L, x)
<1>1. N \in Nat /\ IsFiniteSet(D) /\ r \in 1..N
  BY FS_CardinalityType DEF Measured
<1>2. x \in D /\ Rank(list, x) = r /\ Sorted(list)[r] = list[x]
  BY PlacedRank
<1>3. TotalOrder(D, L) /\ Cardinality(W) = r
  BY <1>2, SortTotal
<1>4. \A i \in D : list[i] \in Nat /\ i \in Nat
  BY DEF Measured
<1>5. \A i \in D : i \in W <=> list[i] < list[x] \/ (list[i] = list[x] /\ i <= x)
  BY <1>2 DEF Below, SortOrder
<1>6. W \in SUBSET D /\ x \in W
  BY <1>2, <1>4, <1>5 DEF Below
<1> HIDE DEF D, x, L, W
<1>7. W \in SUBSET A
  BY <1>2, <1>4, <1>5, <1>6 DEF D
<1>8. (D \ W) \cup {x} \in SUBSET B
  BY <1>2, <1>4, <1>5, <1>6 DEF D
<1>9. IsFiniteSet(D \ W) /\ Cardinality(D \ W) = N - r
  <2>1. D \cap W = W
    BY <1>6
  <2>2. /\ IsFiniteSet(D \ W)
        /\ Cardinality(D \ W) = Cardinality(D) - Cardinality(D \cap W)
    BY <1>1, FS_Difference
  <2> QED BY <1>3, <2>1, <2>2
<1>10. Cardinality((D \ W) \cup {x}) = (N - r) + 1
  BY <1>6, <1>9, FS_AddElement
<1>11. Cardinality(W) <= Cardinality(A)
  BY <1>7, FS_Subset
<1>12. Cardinality((D \ W) \cup {x}) <= Cardinality(B)
  BY <1>8, FS_Subset
<1>13. Cardinality(A) \in Nat /\ Cardinality(B) \in Nat
  BY FS_CardinalityType
<1> QED BY <1>1, <1>3, <1>10, <1>11, <1>12, <1>13 DEF D

\* Where percentile p of a list of m + 1 falls: between the places Lo and Hi,
\* counted from 1, and how far along.
Lo(m, p) == (m * p) \div 100 + 1
Along(m, p) == (m * p) % 100
Hi(m, p) == IF Along(m, p) = 0 THEN Lo(m, p) ELSE Lo(m, p) + 1

\* Both are places of the list, and m * p is split between them.
LEMMA PlacesType ==
    ASSUME NEW m \in Nat, NEW p \in 0..100
    PROVE  /\ Lo(m, p) \in 1..(m + 1) /\ Hi(m, p) \in 1..(m + 1)
           /\ Along(m, p) \in 0..99 /\ m * p \in Nat
           /\ m * p = 100 * (Lo(m, p) - 1) + Along(m, p)
           /\ m * (100 - p) = 100 * m - m * p
<1> DEFINE k == m * p
<1>1. k \in Nat /\ k <= 100 * m /\ m * (100 - p) = 100 * m - k
  OBVIOUS
<1>2. Lo(m, p) = k \div 100 + 1 /\ Along(m, p) = k % 100
  BY DEF Lo, Along
<1> HIDE DEF k
<1>3. k \div 100 \in Nat /\ k % 100 \in 0..99 /\ k = 100 * (k \div 100) + (k % 100)
  BY <1>1
<1>4. Lo(m, p) \in 1..(m + 1) /\ Along(m, p) \in 0..99
      /\ k = 100 * (Lo(m, p) - 1) + Along(m, p)
  BY <1>1, <1>2, <1>3
<1>5. Hi(m, p) \in 1..(m + 1)
  BY <1>1, <1>4 DEF Hi
<1> QED BY <1>1, <1>4, <1>5 DEF k

\* The value of a percentile, between its two neighbours.
LEMMA PercentileBetween ==
    ASSUME NEW list, Measured(list), DOMAIN list # {}, NEW p \in 0..100,
           NEW m, m = Cardinality(DOMAIN list) - 1
    PROVE  /\ m \in Nat
           /\ percentile(Sorted(list), p) \in Nat
           /\ 100 * Sorted(list)[Lo(m, p)] <= percentile(Sorted(list), p)
           /\ percentile(Sorted(list), p) <= 100 * Sorted(list)[Hi(m, p)]
           /\ percentile(Sorted(list), p) =
                 Sorted(list)[Lo(m, p)] * (100 - Along(m, p))
                     + Sorted(list)[Hi(m, p)] * Along(m, p)
           /\ Sorted(list)[Lo(m, p)] \in Nat /\ Sorted(list)[Hi(m, p)] \in Nat
           /\ Sorted(list)[Lo(m, p)] <= Sorted(list)[Hi(m, p)]
<1>1. Cardinality(DOMAIN list) \in Nat /\ Cardinality(DOMAIN list) # 0
  BY FS_CardinalityType, FS_EmptySet DEF Measured
<1>2. m \in Nat /\ Cardinality(DOMAIN list) = m + 1
  BY <1>1
<1>3. PICK s : s = Sorted(list)
  OBVIOUS
<1>4. /\ s \in Seq(Nat) /\ Len(s) = m + 1
      /\ \A r, q \in 1..(m + 1) : r <= q => s[r] <= s[q]
  BY <1>2, <1>3, SortedRises
<1>5. PICK lo, hi, w : lo = Lo(m, p) /\ hi = Hi(m, p) /\ w = Along(m, p)
  OBVIOUS
<1>6. /\ lo \in 1..(m + 1) /\ hi \in 1..(m + 1) /\ w \in 0..99
      /\ hi = IF w = 0 THEN lo ELSE lo + 1
  BY <1>2, <1>5, PlacesType DEF Hi
<1>7. s[lo] \in Nat /\ s[hi] \in Nat /\ s[lo] <= s[hi]
  BY <1>2, <1>4, <1>6
<1>8. percentile(s, p) = IF w = 0 THEN 100 * s[lo]
                                  ELSE s[lo] * (100 - w) + s[lo + 1] * w
  <2>1. Len(s) - 1 = m /\ Len(s) # 0
    BY <1>2, <1>4
  <2>2. lo = (m * p) \div 100 + 1 /\ w = (m * p) % 100
    BY <1>5 DEF Lo, Along
  <2>3. (m * p) \div 100 + 2 = lo + 1
    <3>1. m * p \in Nat
      BY <1>2, PlacesType
    <3>2. (m * p) \div 100 \in Nat
      BY <3>1
    <3> QED BY <2>2, <3>2
  <2> QED BY <2>1, <2>2, <2>3 DEF percentile
<1>9. percentile(s, p) = s[lo] * (100 - w) + s[hi] * w
  <2>1. CASE w = 0
    BY <1>6, <1>7, <1>8, <2>1
  <2>2. CASE w # 0
    BY <1>6, <1>8, <2>2
  <2> QED BY <2>1, <2>2
<1>10. ASSUME NEW x \in Nat, NEW y \in Nat, x <= y
       PROVE  /\ x * (100 - w) + y * w \in Nat
              /\ 100 * x <= x * (100 - w) + y * w
              /\ x * (100 - w) + y * w <= 100 * y
  BY <1>6, <1>10
<1>11. percentile(s, p) \in Nat /\ 100 * s[lo] <= percentile(s, p)
       /\ percentile(s, p) <= 100 * s[hi]
  <2>1. PICK x, y : x = s[lo] /\ y = s[hi]
    OBVIOUS
  <2>2. x \in Nat /\ y \in Nat /\ x <= y
    BY <1>7, <2>1
  <2>3. /\ x * (100 - w) + y * w \in Nat
        /\ 100 * x <= x * (100 - w) + y * w
        /\ x * (100 - w) + y * w <= 100 * y
    BY <1>10, <2>2
  <2>4. percentile(s, p) = x * (100 - w) + y * w
    BY <1>9, <2>1
  <2> QED BY <2>1, <2>3, <2>4
<1> QED BY <1>2, <1>3, <1>5, <1>7, <1>9, <1>11

\* A higher percentile is at least as large.
LEMMA PercentileRises ==
    ASSUME NEW list, Measured(list), DOMAIN list # {},
           NEW p \in 0..100, NEW q \in 0..100, p <= q
    PROVE  /\ percentile(Sorted(list), p) <= percentile(Sorted(list), q)
           /\ percentile(Sorted(list), p) \in Nat
           /\ percentile(Sorted(list), q) \in Nat
<1> DEFINE s == Sorted(list)
<1>1. PICK m : m = Cardinality(DOMAIN list) - 1
  OBVIOUS
<1>2. m \in Nat /\ Cardinality(DOMAIN list) = m + 1
  <2>1. m \in Nat
    BY <1>1, PercentileBetween
  <2>2. Cardinality(DOMAIN list) \in Nat
    BY SortedRises
  <2> QED BY <1>1, <2>1, <2>2
<1>3. \A r, z \in 1..(m + 1) : r <= z => s[r] <= s[z]
  BY <1>2, SortedRises
<1> DEFINE a1 == s[Lo(m, p)]
           a2 == s[Hi(m, p)]
           b1 == s[Lo(m, q)]
           b2 == s[Hi(m, q)]
           v == Along(m, p)
           w == Along(m, q)
           x == percentile(s, p)
           y == percentile(s, q)
<1>4. /\ x \in Nat /\ x <= 100 * a2 /\ x = a1 * (100 - v) + a2 * v
      /\ a1 \in Nat /\ a2 \in Nat /\ a1 <= a2
  BY <1>1, PercentileBetween
<1>5. /\ y \in Nat /\ 100 * b1 <= y /\ y = b1 * (100 - w) + b2 * w
      /\ b1 \in Nat /\ b2 \in Nat /\ b1 <= b2
  BY <1>1, PercentileBetween
<1>6. /\ Lo(m, p) \in 1..(m + 1) /\ Hi(m, p) \in 1..(m + 1) /\ v \in 0..99
      /\ m * p = 100 * (Lo(m, p) - 1) + v /\ m * p \in Nat
  BY <1>2, PlacesType
<1>7. /\ Lo(m, q) \in 1..(m + 1) /\ Hi(m, q) \in 1..(m + 1) /\ w \in 0..99
      /\ m * q = 100 * (Lo(m, q) - 1) + w /\ m * q \in Nat
  BY <1>2, PlacesType
<1>8. m * p <= m * q
  BY <1>2
<1>9. \/ Lo(m, p) = Lo(m, q) /\ v <= w
      \/ Lo(m, p) + 1 <= Lo(m, q)
  BY <1>6, <1>7, <1>8
<1>10. CASE Lo(m, p) + 1 <= Lo(m, q)
  <2>1. Hi(m, p) <= Lo(m, q)
    BY <1>6, <1>7, <1>10 DEF Hi
  <2>2. a2 <= b1
    BY <1>3, <1>6, <1>7, <2>1
  <2> HIDE DEF a1, a2, b1, b2, x, y
  <2>3. 100 * a2 <= 100 * b1
    BY <1>4, <1>5, <2>2
  <2> QED BY <1>4, <1>5, <2>3 DEF x, y
<1>11. CASE Lo(m, p) = Lo(m, q) /\ v <= w
  <2>1. CASE v = 0
    <3>1. Hi(m, p) = Lo(m, q)
      BY <1>11, <2>1 DEF Hi
    <3>2. a2 = b1
      BY <3>1
    <3> HIDE DEF a1, a2, b1, b2, x, y
    <3> QED BY <1>4, <1>5, <3>2 DEF x, y
  <2>2. CASE v # 0
    <3>1. w # 0 /\ Hi(m, p) = Hi(m, q)
      BY <1>6, <1>7, <1>11, <2>2 DEF Hi
    <3>2. a1 = b1 /\ a2 = b2
      BY <1>11, <3>1
    <3>3. ASSUME NEW c1 \in Nat, NEW c2 \in Nat, c1 <= c2,
                 NEW g \in 0..99, NEW h \in 0..99, g <= h
          PROVE  c1 * (100 - g) + c2 * g <= c1 * (100 - h) + c2 * h
      BY <3>3
    <3>4. v <= w
      BY <1>11
    <3> HIDE DEF a1, a2, b1, b2, v, w, x, y
    <3>5. b1 * (100 - v) + b2 * v <= b1 * (100 - w) + b2 * w
      BY <1>5, <1>6, <1>7, <3>3, <3>4
    <3> QED BY <1>4, <1>5, <3>2, <3>5 DEF x, y
  <2> QED BY <2>1, <2>2
<1> QED BY <1>4, <1>5, <1>9, <1>10, <1>11

\* A published value y, in which unit stands for one, rounds x hundredths: what
\* is a whole number stays on its side.
Rounds(unit, x, y) ==
    \A v \in Nat : /\ 100 * v <= x => unit * v <= y
                   /\ x <= 100 * v => y <= unit * v

\* Rounding to whole bytes and to tenths of a millisecond does so, and is monotone.
LEMMA Rounding ==
    ASSUME NEW x \in Nat, NEW z \in Nat, x <= z
    PROVE  /\ Rounds(1, x, Whole(x)) /\ Rounds(10, x, Tenths(x))
           /\ Whole(x) \in Nat /\ Tenths(x) \in Nat
           /\ Whole(x) <= Whole(z) /\ Tenths(x) <= Tenths(z)
<1>1. Rounds(1, x, Whole(x))
  BY DEF Rounds, Whole
<1>2. Rounds(10, x, Tenths(x))
  BY DEF Rounds, Tenths
<1>3. Whole(x) \in Nat /\ Whole(x) <= Whole(z)
  BY DEF Whole
<1>4. Tenths(x) \in Nat /\ Tenths(x) <= Tenths(z)
  BY DEF Tenths
<1> QED BY <1>1, <1>2, <1>3, <1>4

\* A rounded percentile still has the rank of the percentile.
LEMMA RoundedRank ==
    ASSUME NEW list, Measured(list), DOMAIN list # {}, NEW p \in 0..100,
           NEW unit \in Nat, NEW y,
           Rounds(unit, percentile(Sorted(list), p), y)
    PROVE  Ranked(list, unit, y, p)
<1> DEFINE D == DOMAIN list
           s == Sorted(list)
           x == percentile(s, p)
           A == {i \in D : unit * list[i] <= y}
           B == {i \in D : unit * list[i] >= y}
<1>1. PICK m : m = Cardinality(D) - 1
  OBVIOUS
<1>2. /\ m \in Nat /\ x \in Nat
      /\ 100 * s[Lo(m, p)] <= x /\ x <= 100 * s[Hi(m, p)]
      /\ s[Lo(m, p)] \in Nat /\ s[Hi(m, p)] \in Nat
  BY <1>1, PercentileBetween
<1>3. Cardinality(D) = m + 1 /\ IsFiniteSet(D) /\ \A i \in D : list[i] \in Nat
  <2>1. Cardinality(D) \in Nat
    BY SortedRises
  <2> QED BY <1>1, <1>2, <2>1 DEF Measured
<1>4. /\ Lo(m, p) \in 1..(m + 1) /\ Hi(m, p) \in 1..(m + 1)
      /\ Along(m, p) \in 0..99 /\ m * p \in Nat
      /\ m * p = 100 * (Lo(m, p) - 1) + Along(m, p)
      /\ m * (100 - p) = 100 * m - m * p
  BY <1>2, PlacesType
<1>5. IsFiniteSet(A) /\ IsFiniteSet(B) /\ IsFiniteSet({})
  BY <1>3, FS_Subset, FS_EmptySet
<1> HIDE DEF s, x
<1>6. \A i \in D : list[i] <= s[Lo(m, p)] => i \in A
  <2> SUFFICES ASSUME NEW i \in D, list[i] <= s[Lo(m, p)] PROVE unit * list[i] <= y
    OBVIOUS
  <2>1. list[i] \in Nat /\ 100 * list[i] <= x
    BY <1>2, <1>3
  <2> QED BY <2>1 DEF Rounds, x, s
<1>7. \A i \in D : list[i] >= s[Hi(m, p)] => i \in B
  <2> SUFFICES ASSUME NEW i \in D, list[i] >= s[Hi(m, p)] PROVE unit * list[i] >= y
    OBVIOUS
  <2>1. list[i] \in Nat /\ x <= 100 * list[i]
    BY <1>2, <1>3
  <2>2. y <= unit * list[i]
    BY <2>1 DEF Rounds, x, s
  <2> QED BY <2>2
<1> HIDE DEF A, B
<1>8. Cardinality(A) >= Lo(m, p) /\ Cardinality(A) \in Nat
  BY <1>3, <1>4, <1>5, <1>6, SortedCounts DEF s
<1>9. Cardinality(B) >= (m + 1) - Hi(m, p) + 1 /\ Cardinality(B) \in Nat
  BY <1>3, <1>4, <1>5, <1>7, SortedCounts DEF s
<1>10. 100 * Cardinality(A) > m * p
  BY <1>4, <1>8
<1>11. 100 * Cardinality(B) > m * (100 - p)
  BY <1>2, <1>4, <1>9 DEF Hi
<1> QED BY <1>1, <1>10, <1>11 DEF Ranked, A, B


\* What the five variants publish of a list: the ranks hold and the values rise.
LEMMA Published ==
    ASSUME NEW list, Measured(list), DOMAIN list # {},
           NEW i \in 1..5, NEW j \in 1..5, i <= j,
           NEW x, x = percentile(Sorted(list), LATENCY_PERCENTILES[i]),
           NEW z, z = percentile(Sorted(list), LATENCY_PERCENTILES[j])
    PROVE  /\ x \in Nat /\ z \in Nat /\ x <= z
           /\ Whole(x) \in Nat /\ Tenths(x) \in Nat
           /\ Whole(z) \in Nat /\ Tenths(z) \in Nat
           /\ Whole(x) <= Whole(z) /\ Tenths(x) <= Tenths(z)
           /\ Ranked(list, 1, Whole(x), LATENCY_PERCENTILES[i])
           /\ Ranked(list, 10, Tenths(x), LATENCY_PERCENTILES[i])
<1>1. PICK p, q : p = LATENCY_PERCENTILES[i] /\ q = LATENCY_PERCENTILES[j]
  OBVIOUS
<1>2. p \in 0..100 /\ q \in 0..100 /\ p <= q
  <2>1. /\ i = 1 \/ i = 2 \/ i = 3 \/ i = 4 \/ i = 5
        /\ j = 1 \/ j = 2 \/ j = 3 \/ j = 4 \/ j = 5
    OBVIOUS
  <2> QED BY <1>1, <2>1 DEF LATENCY_PERCENTILES
<1>3. x \in Nat /\ z \in Nat /\ x <= z
  BY <1>1, <1>2, PercentileRises
<1>4. /\ Rounds(1, x, Whole(x)) /\ Rounds(10, x, Tenths(x))
      /\ Whole(x) \in Nat /\ Tenths(x) \in Nat
      /\ Whole(x) <= Whole(z) /\ Tenths(x) <= Tenths(z)
  BY <1>3, Rounding
<1>5. Whole(z) \in Nat /\ Tenths(z) \in Nat
  BY <1>3, Rounding
<1>6. Ranked(list, 1, Whole(x), p) /\ Ranked(list, 10, Tenths(x), p)
  BY <1>1, <1>2, <1>4, RoundedRank
<1> QED BY <1>1, <1>3, <1>4, <1>5, <1>6

\* The positions of a list of samples are finitely many numbers.
LEMMA Positioned ==
    ASSUME NEW samples \in Seq(Samples), NEW list, DOMAIN list \in SUBSET DOMAIN samples,
           list \in [DOMAIN list -> Nat]
    PROVE  Measured(list)
<1>1. Len(samples) \in Nat /\ DOMAIN samples = 1..Len(samples)
  OBVIOUS
<1>2. IsFiniteSet(1..Len(samples))
  <2>1. PICK h \in Int : h = Len(samples)
    BY <1>1
  <2>2. IsFiniteSet(1..h)
    BY FS_Interval
  <2> QED BY <2>1, <2>2
<1>3. IsFiniteSet(DOMAIN list)
  BY <1>1, <1>2, FS_Subset
<1>4. DOMAIN list \in SUBSET Nat
  BY <1>1
<1> QED BY <1>3, <1>4 DEF Measured

\* The length of the query of a sample, 0 without one.
Queries(samples) ==
    [i \in DOMAIN samples |-> IF samples[i].query = None THEN 0 ELSE samples[i].query]

\* The durations and the queries of some samples are measured, one for each.
LEMMA EachMeasured ==
    ASSUME NEW samples \in Seq(Samples)
    PROVE  /\ Measured(Field(samples, "duration_ms")) /\ Measured(Queries(samples))
           /\ Len(samples) # 0 => /\ DOMAIN Field(samples, "duration_ms") # {}
                                  /\ DOMAIN Queries(samples) # {}
<1>1. Len(samples) \in Nat /\ DOMAIN samples = 1..Len(samples)
      /\ \A i \in DOMAIN samples : samples[i] \in Samples
  OBVIOUS
<1>2. \A i \in DOMAIN samples : samples[i].duration_ms \in Nat /\ samples[i].query \in Optional
  BY <1>1, SamplesAssumption
<1>3. /\ DOMAIN Field(samples, "duration_ms") = DOMAIN samples
      /\ Field(samples, "duration_ms") \in [DOMAIN samples -> Nat]
  BY <1>2 DEF Field
<1>4. /\ DOMAIN Queries(samples) = DOMAIN samples
      /\ Queries(samples) \in [DOMAIN samples -> Nat]
  BY <1>2 DEF Queries, Optional
<1>5. Measured(Field(samples, "duration_ms"))
  BY <1>3, Positioned
<1>6. Measured(Queries(samples))
  BY <1>4, Positioned
<1> QED BY <1>1, <1>3, <1>4, <1>5, <1>6

\* The measurements that are there are measured.
LEMMA PresentMeasured ==
    ASSUME NEW samples \in Seq(Samples),
           NEW f \in {"request_length", "response_length", "ttfb"}
    PROVE  Measured(Present(Field(samples, f)))
<1> DEFINE list == Present(Field(samples, f))
<1>1. \A i \in DOMAIN samples : samples[i] \in Samples
  OBVIOUS
<1>2. \A i \in DOMAIN samples : samples[i][f] \in Optional
  BY <1>1, SamplesAssumption
<1>3. DOMAIN list = {i \in DOMAIN samples : samples[i][f] # None}
      /\ \A i \in DOMAIN list : list[i] = samples[i][f]
  BY DEF Field, Present
<1>4. \A i \in DOMAIN list : list[i] \in Nat
  BY <1>2, <1>3 DEF Optional
<1>5. list \in [DOMAIN list -> Nat]
  BY <1>4 DEF Present
<1> QED BY <1>3, <1>5, Positioned

\* What variant i publishes.
LEMMA VariantFields ==
    ASSUME NEW samples \in Seq(Samples), Len(samples) # 0, NEW i \in 1..5,
           NEW v, v = build_variants(samples),
           NEW d, d = Sorted(Field(samples, "duration_ms")),
           NEW p, p = LATENCY_PERCENTILES[i]
    PROVE  /\ DOMAIN v = 1..5
           /\ v[i]["latency"] = Tenths(percentile(d, p))
           /\ v[i].latency = Tenths(percentile(d, p))
           /\ v[i]["query"] = Whole(percentile(Sorted(Queries(samples)), p))
           /\ v[i]["request_length"] = collect_length_percentile(samples, p, "request_length")
           /\ v[i]["response_length"] = collect_length_percentile(samples, p, "response_length")
           /\ v[i]["ttfb"] = LET x == collect_percentile(samples, p, "ttfb")
                             IN  IF x = None THEN None ELSE Tenths(x)
           /\ v[i].masking.off = 2 * Gap(percentile(d, p), percentile(d, 50))
<1>1. v[i]["query"] = collect_query_length_percentile(samples, p)
  BY DEF build_variants
<1>2. v[i]["query"] = Whole(percentile(Sorted(Queries(samples)), p))
  BY <1>1 DEF collect_query_length_percentile, Queries
<1>3. v[i].masking.off = 2 * Gap(percentile(d, p), percentile(d, 50))
  BY DEF build_variants, masking_percent_for_latency
<1> QED BY <1>2, <1>3 DEF build_variants

\* Variant i's value of a measurement that may be missing.
LEMMA OptionalFields ==
    ASSUME NEW samples \in Seq(Samples), Len(samples) # 0, NEW i \in 1..5,
           NEW v, v = build_variants(samples),
           NEW f \in {"request_length", "response_length", "ttfb"},
           NEW list, list = Present(Field(samples, f)),
           NEW x, x = percentile(Sorted(list), LATENCY_PERCENTILES[i])
    PROVE  /\ DOMAIN list = {} => v[i][f] = None
           /\ DOMAIN list # {} =>
                 v[i][f] = IF f = "ttfb" THEN Tenths(x) ELSE Whole(x)
<1>1. PICK p : p = LATENCY_PERCENTILES[i]
  OBVIOUS
<1>2. collect_percentile(samples, p, f) = IF DOMAIN list = {} THEN None ELSE x
  BY <1>1 DEF collect_percentile
<1>3. DOMAIN list # {} => x \in Nat
  <2>1. Measured(list)
    BY PresentMeasured
  <2>2. i <= i
    OBVIOUS
  <2>3. ASSUME DOMAIN list # {} PROVE x \in Nat
    BY <2>1, <2>2, <2>3, Published
  <2> QED BY <2>3
<1>4. DOMAIN list # {} => x # None
  BY <1>3, NoneAssumption
<1>5. collect_length_percentile(samples, p, f) = IF DOMAIN list = {} THEN None ELSE Whole(x)
  BY <1>2, <1>4 DEF collect_length_percentile
<1>6. CASE f = "ttfb"
  <2>1. v[i][f] = LET y == collect_percentile(samples, p, f)
                  IN  IF y = None THEN None ELSE Tenths(y)
    BY <1>1, <1>6, VariantFields
  <2> QED BY <1>2, <1>4, <1>6, <2>1
<1>7. CASE f # "ttfb"
  <2>1. v[i][f] = collect_length_percentile(samples, p, f)
    BY <1>1, <1>7, VariantFields
  <2> QED BY <1>5, <1>7, <2>1
<1> QED BY <1>6, <1>7

\* Values that rise with the variants.
LEMMA RisingBy ==
    ASSUME NEW v, DOMAIN v = 1..5, NEW f,
           \A i, j \in 1..5 : i <= j => v[i][f] <= v[j][f]
    PROVE  Rising(v, f)
  BY DEF Rising

\* The distance of two values.
LEMMA GapIs ==
    ASSUME NEW x \in Nat, NEW y \in Nat, x <= y
    PROVE  Gap(x, y) = y - x /\ Gap(y, x) = y - x
  BY DEF Gap

\* What the variants of enough samples say of them.
LEMMA VariantsAreQuantiles ==
    ASSUME NEW samples \in Seq(Samples), Len(samples) # 0
    PROVE  Quantiles(samples, build_variants(samples))
<1>1. PICK v : v = build_variants(samples)
  OBVIOUS
<1>2. PICK durations, queries :
         durations = Field(samples, "duration_ms") /\ queries = Queries(samples)
  OBVIOUS
<1>3. /\ Measured(durations) /\ DOMAIN durations # {}
      /\ Measured(queries) /\ DOMAIN queries # {}
  BY <1>2, EachMeasured
<1>4. DOMAIN v = 1..5
  BY <1>1, VariantFields
<1> DEFINE At(i) == percentile(Sorted(durations), LATENCY_PERCENTILES[i])
<1>5. ASSUME NEW i \in 1..5, NEW j \in 1..5, i <= j
      PROVE  /\ v[i]["latency"] <= v[j]["latency"]
             /\ v[i]["query"] <= v[j]["query"]
             /\ Ranked(durations, 10, v[i].latency, LATENCY_PERCENTILES[i])
             /\ At(i) \in Nat /\ At(j) \in Nat /\ At(i) <= At(j)
             /\ v[i].masking.off = 2 * Gap(At(i), percentile(Sorted(durations), 50))
  <2>1. PICK x, z : /\ x = percentile(Sorted(durations), LATENCY_PERCENTILES[i])
                    /\ z = percentile(Sorted(durations), LATENCY_PERCENTILES[j])
    OBVIOUS
  <2>2. /\ x \in Nat /\ z \in Nat /\ x <= z /\ Tenths(x) <= Tenths(z)
        /\ Ranked(durations, 10, Tenths(x), LATENCY_PERCENTILES[i])
    BY <1>3, <1>5, <2>1, Published
  <2>3. PICK xq, zq : /\ xq = percentile(Sorted(queries), LATENCY_PERCENTILES[i])
                      /\ zq = percentile(Sorted(queries), LATENCY_PERCENTILES[j])
    OBVIOUS
  <2>4. Whole(xq) <= Whole(zq)
    BY <1>3, <1>5, <2>3, Published
  <2>5. /\ v[i]["latency"] = Tenths(x) /\ v[i].latency = Tenths(x)
        /\ v[i]["query"] = Whole(xq)
        /\ v[i].masking.off = 2 * Gap(x, percentile(Sorted(durations), 50))
    BY <1>1, <1>2, <2>1, <2>3, VariantFields
  <2>6. v[j]["latency"] = Tenths(z) /\ v[j]["query"] = Whole(zq)
    BY <1>1, <1>2, <2>1, <2>3, VariantFields
  <2> QED BY <2>1, <2>2, <2>4, <2>5, <2>6
<1>6. \A i \in 1..5 : Ranked(durations, 10, v[i].latency, LATENCY_PERCENTILES[i])
  <2> TAKE i \in 1..5
  <2>1. i <= i
    OBVIOUS
  <2> QED BY <1>5, <2>1
<1>7. Rising(v, "latency") /\ Rising(v, "query")
  BY <1>4, <1>5, RisingBy
<1>8. /\ v[1].masking.off >= v[2].masking.off /\ v[2].masking.off >= v[3].masking.off
      /\ v[3].masking.off = 0
      /\ v[3].masking.off <= v[4].masking.off /\ v[4].masking.off <= v[5].masking.off
  <2>1. At(3) = percentile(Sorted(durations), 50)
    BY DEF LATENCY_PERCENTILES
  <2>2. PICK c1, c2, c3, c4, c5 :
           c1 = At(1) /\ c2 = At(2) /\ c3 = At(3) /\ c4 = At(4) /\ c5 = At(5)
    OBVIOUS
  <2>3. /\ c1 \in Nat /\ c2 \in Nat /\ c1 <= c2
        /\ v[1].masking.off = 2 * Gap(c1, c3) /\ v[2].masking.off = 2 * Gap(c2, c3)
    <3>1. 1 \in 1..5 /\ 2 \in 1..5 /\ 3 \in 1..5 /\ 1 <= 2 /\ 2 <= 3
      OBVIOUS
    <3> QED BY <1>5, <2>1, <2>2, <3>1
  <2>4. /\ c3 \in Nat /\ c2 <= c3 /\ v[3].masking.off = 2 * Gap(c3, c3)
    <3>1. 2 \in 1..5 /\ 3 \in 1..5 /\ 4 \in 1..5 /\ 2 <= 3 /\ 3 <= 4
      OBVIOUS
    <3> QED BY <1>5, <2>1, <2>2, <3>1
  <2>5. /\ c4 \in Nat /\ c5 \in Nat /\ c3 <= c4 /\ c4 <= c5
        /\ v[4].masking.off = 2 * Gap(c4, c3) /\ v[5].masking.off = 2 * Gap(c5, c3)
    <3>1. 3 \in 1..5 /\ 4 \in 1..5 /\ 5 \in 1..5 /\ 3 <= 4 /\ 4 <= 5 /\ 5 <= 5
      OBVIOUS
    <3> QED BY <1>5, <2>1, <2>2, <3>1
  <2>6. /\ Gap(c1, c3) = c3 - c1 /\ Gap(c2, c3) = c3 - c2 /\ Gap(c3, c3) = 0
        /\ Gap(c4, c3) = c4 - c3 /\ Gap(c5, c3) = c5 - c3
    <3>1. /\ c1 \in Nat /\ c2 \in Nat /\ c3 \in Nat /\ c4 \in Nat /\ c5 \in Nat
          /\ c1 <= c3 /\ c2 <= c3 /\ c3 <= c4 /\ c3 <= c5
      BY <2>3, <2>4, <2>5
    <3>2. Gap(c1, c3) = c3 - c1 /\ Gap(c2, c3) = c3 - c2
      BY <3>1, GapIs
    <3>3. Gap(c4, c3) = c4 - c3 /\ Gap(c5, c3) = c5 - c3
      BY <3>1, GapIs
    <3>4. Gap(c3, c3) = 0
      BY <3>1 DEF Gap
    <3> QED BY <3>2, <3>3, <3>4
  <2>7. PICK o1, o2, o3, o4, o5 :
           /\ o1 = v[1].masking.off /\ o2 = v[2].masking.off /\ o3 = v[3].masking.off
           /\ o4 = v[4].masking.off /\ o5 = v[5].masking.off
    OBVIOUS
  <2>8. o1 >= o2 /\ o2 >= o3 /\ o3 = 0 /\ o3 <= o4 /\ o4 <= o5
    BY <2>3, <2>4, <2>5, <2>6, <2>7
  <2> QED BY <2>7, <2>8
<1>9. ASSUME NEW f \in {"request_length", "response_length", "ttfb"},
             NEW list, list = Present(Field(samples, f)),
             NEW unit, unit = IF f = "ttfb" THEN 10 ELSE 1
      PROVE  IF DOMAIN list = {} THEN \A i \in 1..5 : v[i][f] = None
             ELSE /\ Rising(v, f)
                  /\ \A i \in 1..5 : Ranked(list, unit, v[i][f], LATENCY_PERCENTILES[i])
  <2>1. CASE DOMAIN list = {}
    <3>1. \A i \in 1..5 : v[i][f] = None
      BY <1>1, <1>9, <2>1, OptionalFields
    <3> QED BY <2>1, <3>1
  <2>2. CASE DOMAIN list # {}
    <3>1. Measured(list)
      BY <1>9, PresentMeasured
    <3>2. ASSUME NEW i \in 1..5, NEW j \in 1..5, i <= j
          PROVE  /\ v[i][f] <= v[j][f]
                 /\ Ranked(list, unit, v[i][f], LATENCY_PERCENTILES[i])
      <4>1. PICK x, z : /\ x = percentile(Sorted(list), LATENCY_PERCENTILES[i])
                        /\ z = percentile(Sorted(list), LATENCY_PERCENTILES[j])
        OBVIOUS
      <4>2. /\ Whole(x) <= Whole(z) /\ Tenths(x) <= Tenths(z)
            /\ Ranked(list, 1, Whole(x), LATENCY_PERCENTILES[i])
            /\ Ranked(list, 10, Tenths(x), LATENCY_PERCENTILES[i])
        BY <2>2, <3>1, <3>2, <4>1, Published
      <4>3. v[i][f] = IF f = "ttfb" THEN Tenths(x) ELSE Whole(x)
        BY <1>1, <1>9, <2>2, <4>1, OptionalFields
      <4>4. v[j][f] = IF f = "ttfb" THEN Tenths(z) ELSE Whole(z)
        BY <1>1, <1>9, <2>2, <4>1, OptionalFields
      <4> QED BY <1>9, <4>2, <4>3, <4>4
    <3>3. Rising(v, f)
      BY <1>4, <3>2, RisingBy
    <3>4. \A i \in 1..5 : Ranked(list, unit, v[i][f], LATENCY_PERCENTILES[i])
      <4> TAKE i \in 1..5
      <4>1. i <= i
        OBVIOUS
      <4> QED BY <3>2, <4>1
    <3> QED BY <2>2, <3>3, <3>4
  <2> QED BY <2>1, <2>2
<1> QED BY <1>1, <1>2, <1>6, <1>7, <1>8, <1>9 DEF Quantiles

\* The inductive invariant: what is stored, and what an answer was made of while
\* it is still the last.
ProfileInv ==
    /\ routes \in [Keys -> Seq(Samples)]
    /\ response.from # "nobody" => response.asked \in Keys \cup {None}
    /\ ServedWhenReady
    /\ response.from = "mask-profiles" =>
          \A k \in DOMAIN response.entries :
             response.entries[k].variants = build_variants(routes[k])

\* It holds at the start.
LEMMA ProfileInvInit == ProfileInit => ProfileInv
  BY DEF ProfileInit, ProfileInv, NoResponse, ServedWhenReady

\* Teaching a sample withdraws the answer, and an answer is made of what is stored.
LEMMA ProfileInvNext ==
    ASSUME ProfileInv, [ProfileNext]_profileVars
    PROVE  ProfileInv'
<1>1. ASSUME NEW k \in Keys, NEW s \in Samples, record(k, s)
      PROVE  ProfileInv'
  <2>1. routes' \in [Keys -> Seq(Samples)]
    <3>1. routes[k] \in Seq(Samples)
      BY DEF ProfileInv
    <3>2. Append(routes[k], s) \in Seq(Samples)
      BY <3>1
    <3> QED BY <1>1, <3>2 DEF ProfileInv, record
  <2>2. response'.from = "nobody"
    BY <1>1 DEF record, NoResponse
  <2> QED BY <2>1, <2>2 DEF ProfileInv, ServedWhenReady
<1>2. ASSUME NEW q \in Keys \cup {None}, mask_profiles(q)
      PROVE  ProfileInv'
  <2> DEFINE ready == {k \in Asked(q) : Len(routes[k]) >= MinSamples}
  <2>1. routes' = routes
    BY <1>2 DEF mask_profiles
  <2>2. \A k : entry_for_samples(routes[k]).ready = (Len(routes[k]) >= MinSamples)
    BY DEF entry_for_samples
  <2>3. {k \in Asked(q) : entry_for_samples(routes[k]).ready} = ready
    BY <2>2
  <2>4. response' = [from |-> "mask-profiles", asked |-> q,
                     entries |-> [k \in ready |-> entry_for_samples(routes[k])]]
    BY <1>2, <2>3 DEF mask_profiles
  <2>5. /\ response'.from = "mask-profiles" /\ response'.asked = q
        /\ DOMAIN response'.entries = ready
        /\ \A k \in ready : response'.entries[k] = entry_for_samples(routes[k])
    BY <2>4
  <2>6. Asked(q)' = Asked(q)
    BY <2>1 DEF Asked
  <2>7. ServedWhenReady'
    BY <2>1, <2>5, <2>6 DEF ServedWhenReady, Asked
  <2>8. \A k \in ready : response'.entries[k].variants = build_variants(routes[k])
    <3> TAKE k \in ready
    <3>1. Len(routes[k]) >= MinSamples
      OBVIOUS
    <3>2. entry_for_samples(routes[k]).variants = build_variants(routes[k])
      BY <3>1 DEF entry_for_samples
    <3>3. response'.entries[k] = entry_for_samples(routes[k])
      BY <2>5
    <3> QED BY <3>2, <3>3
  <2> QED BY <2>1, <2>5, <2>7, <2>8 DEF ProfileInv
<1>3. ASSUME NEW q \in Keys \cup {None}, signature_samples(q)
      PROVE  ProfileInv'
  <2> DEFINE ready == {k \in Asked(q) : Len(routes[k]) >= MinSamples}
  <2>1. routes' = routes
    BY <1>3 DEF signature_samples
  <2>2. /\ response'.from = "signature-samples" /\ response'.asked = q
        /\ DOMAIN response'.entries = ready
    BY <1>3 DEF signature_samples
  <2>3. ServedWhenReady'
    BY <2>1, <2>2 DEF ServedWhenReady, Asked
  <2> QED BY <2>1, <2>2, <2>3 DEF ProfileInv
<1>4. CASE UNCHANGED profileVars
  <2>1. routes' = routes /\ response' = response
    BY <1>4 DEF profileVars
  <2> QED BY <2>1 DEF ProfileInv, ServedWhenReady, Asked
<1> QED BY <1>1, <1>2, <1>3, <1>4 DEF ProfileNext

\* A route that is served has samples, and what is said of it is true of them.
LEMMA ProfileInvImplies == ProfileInv => ProfilesAreQuantiles
<1> SUFFICES ASSUME ProfileInv PROVE ProfilesAreQuantiles
  OBVIOUS
<1>1. ServedWhenReady
  BY DEF ProfileInv
<1>2. ASSUME response.from = "mask-profiles", NEW k \in DOMAIN response.entries
      PROVE  Quantiles(routes[k], response.entries[k].variants)
  <2>1. response.asked \in Keys \cup {None}
    BY <1>2 DEF ProfileInv
  <2>2. k \in Asked(response.asked) /\ Len(routes[k]) >= MinSamples
    BY <1>1, <1>2 DEF ServedWhenReady
  <2>3. k \in Keys
    BY <2>1, <2>2 DEF Asked
  <2>4. routes[k] \in Seq(Samples)
    BY <2>3 DEF ProfileInv
  <2>5. Len(routes[k]) # 0
    BY <2>2, <2>4, MinSamplesAssumption
  <2>6. response.entries[k].variants = build_variants(routes[k])
    BY <1>2 DEF ProfileInv
  <2> QED BY <2>4, <2>5, <2>6, VariantsAreQuantiles
<1> QED BY <1>1, <1>2 DEF ProfilesAreQuantiles

\* Whatever samples are taught and whenever the endpoints are asked, what
\* /mask-profiles (mask_profiles.rs) publishes are quantiles of the samples that
\* the route has, for as long as no other sample arrives.
THEOREM ProfilesHold == ProfileSpec => []ProfilesAreQuantiles
<1>1. ProfileInv /\ [ProfileNext]_profileVars => ProfileInv'
  BY ProfileInvNext
<1> QED BY <1>1, ProfileInvInit, ProfileInvImplies, PTL DEF ProfileSpec
===============================================================================
