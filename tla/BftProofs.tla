------------------------------ MODULE BftProofs ------------------------------
(***************************************************************************)
(* Theorems about BftNetwork, for every number of nodes, clients, epochs   *)
(* and heights, every weighting and every tolerable set of faults.         *)
(***************************************************************************)
EXTENDS BftNetwork, FiniteSetTheorems, TLAPS

(***************************************************************************)
(* What the quorum rule of ValidatorSet gives, for every validator set:    *)
(* weights are additive, two quorums share a correct validator, and every  *)
(* quorum holds one.                                                       *)
(***************************************************************************)

\* The weight units of a set of members are finite in number: their count is
\* the natural number that the u64 sum stands for.
LEMMA WeightType ==
    ASSUME NEW vs \in ValidatorSet, NEW S \in SUBSET Members(vs)
    PROVE  IsFiniteSet(Units(vs, S)) /\ WeightOf(vs, S) \in Nat
<1>1. Members(vs) \in SUBSET NodeId
  BY DEF ValidatorSet, Entries, Members
<1>2. IsFiniteSet(S)
  BY <1>1, NodeIdAssumption, FS_Subset
<1>3. IsFiniteSet(1..MaxWeight)
  BY MaxWeightAssumption, FS_Interval
<1>4. IsFiniteSet(S \X (1..MaxWeight))
  BY <1>2, <1>3, FS_Product
<1>5. IsFiniteSet(Units(vs, S))
  BY <1>4, FS_Subset DEF Units
<1> QED
  BY <1>5, FS_CardinalityType DEF WeightOf

\* A larger set of signers has at least the weight of a smaller one.
LEMMA WeightMonotone ==
    ASSUME NEW vs \in ValidatorSet, NEW T \in SUBSET Members(vs),
           NEW S \in SUBSET T
    PROVE  WeightOf(vs, S) <= WeightOf(vs, T)
<1>1. IsFiniteSet(Units(vs, T))
  BY WeightType
<1>2. Units(vs, S) \in SUBSET Units(vs, T)
  BY DEF Units
<1> QED
  BY <1>1, <1>2, FS_Subset DEF WeightOf

\* Weights of two sets of signers: the overlap is what is counted twice.
LEMMA WeightUnion ==
    ASSUME NEW vs \in ValidatorSet,
           NEW S \in SUBSET Members(vs), NEW T \in SUBSET Members(vs)
    PROVE  WeightOf(vs, S \cup T) =
               WeightOf(vs, S) + WeightOf(vs, T) - WeightOf(vs, S \cap T)
<1>1. IsFiniteSet(Units(vs, S)) /\ IsFiniteSet(Units(vs, T))
  BY WeightType
<1>2. Units(vs, S \cup T) = Units(vs, S) \cup Units(vs, T)
  BY DEF Units
<1>3. Units(vs, S \cap T) = Units(vs, S) \cap Units(vs, T)
  BY DEF Units
<1>4. Cardinality(Units(vs, S) \cup Units(vs, T)) =
         Cardinality(Units(vs, S)) + Cardinality(Units(vs, T))
             - Cardinality(Units(vs, S) \cap Units(vs, T))
  BY <1>1, FS_Union
<1> QED
  BY <1>2, <1>3, <1>4, Zenon DEF WeightOf

\* quorum_threshold is the smallest integer above two thirds of the total, as
\* its comment says.
LEMMA ThresholdExact ==
    ASSUME NEW vs \in ValidatorSet
    PROVE  /\ quorum_threshold(vs) \in Nat
           /\ 3 * quorum_threshold(vs) > 2 * total_weight(vs)
           /\ 3 * (quorum_threshold(vs) - 1) <= 2 * total_weight(vs)
<1>1. total_weight(vs) \in Nat
  BY WeightType DEF total_weight
<1> DEFINE t == total_weight(vs)
<1>2. /\ (2 * t) \div 3 \in Nat
      /\ 3 * ((2 * t) \div 3) <= 2 * t
      /\ 2 * t < 3 * ((2 * t) \div 3) + 3
  BY <1>1
<1> QED
  BY <1>1, <1>2 DEF quorum_threshold

\* A quorum of vs, as verify_quorum accepts it.
IsQuorum(vs, S) ==
    S \in SUBSET Members(vs) /\ WeightOf(vs, S) >= quorum_threshold(vs)

\* The faulty members hold at most a third of the weight.
TolerableFaults(vs, B) ==
    B \in SUBSET Members(vs) /\ 3 * WeightOf(vs, B) <= total_weight(vs)

\* Two sets of signers that verify_quorum accepts share a validator that is
\* not faulty.
THEOREM QuorumIntersection ==
    ASSUME NEW vs \in ValidatorSet, NEW S, NEW T, NEW B,
           IsQuorum(vs, S), IsQuorum(vs, T), TolerableFaults(vs, B)
    PROVE  \E v \in S \cap T : v \notin B
<1> DEFINE w(X) == WeightOf(vs, X)
<1>1. /\ S \in SUBSET Members(vs)
      /\ T \in SUBSET Members(vs)
      /\ B \in SUBSET Members(vs)
      /\ S \cup T \in SUBSET Members(vs)
      /\ S \cap T \in SUBSET Members(vs)
  BY DEF IsQuorum, TolerableFaults
<1>2. /\ w(S) \in Nat /\ w(T) \in Nat /\ w(B) \in Nat
      /\ w(S \cup T) \in Nat /\ w(S \cap T) \in Nat
      /\ total_weight(vs) \in Nat
  BY <1>1, WeightType DEF total_weight
<1>3. w(S \cup T) <= total_weight(vs)
  BY <1>1, WeightMonotone DEF total_weight
<1>4. w(S \cup T) = w(S) + w(T) - w(S \cap T)
  BY <1>1, WeightUnion
<1>5. /\ quorum_threshold(vs) \in Nat
      /\ 3 * quorum_threshold(vs) > 2 * total_weight(vs)
  BY ThresholdExact
<1>6. w(S) >= quorum_threshold(vs) /\ w(T) >= quorum_threshold(vs)
  BY DEF IsQuorum
<1>7. 3 * w(B) <= total_weight(vs)
  BY DEF TolerableFaults
<1>8. w(S \cap T) > w(B)
  <2> HIDE DEF w
  <2> QED BY <1>2, <1>3, <1>4, <1>5, <1>6, <1>7
<1>9. SUFFICES ASSUME S \cap T \subseteq B
               PROVE  FALSE
  OBVIOUS
<1>10. w(S \cap T) <= w(B)
  BY <1>1, <1>9, WeightMonotone
<1> QED
  <2> HIDE DEF w
  <2> QED BY <1>2, <1>8, <1>10

\* A set of signers that verify_quorum accepts holds a validator that is not
\* faulty.
THEOREM QuorumHasCorrect ==
    ASSUME NEW vs \in ValidatorSet, NEW S, NEW B,
           IsQuorum(vs, S), TolerableFaults(vs, B)
    PROVE  \E v \in S : v \notin B
  BY QuorumIntersection

-----------------------------------------------------------------------------

(***************************************************************************)
(* Type correctness.                                                       *)
(***************************************************************************)

\* What a certificate carries is a payload within the bounds.
LEMMA CertificateType ==
    ASSUME NEW cert \in Certificate
    PROVE  /\ cert.payload \in Payload
           /\ cert.payload.epoch \in Epoch
           /\ cert.payload.height \in Height
           /\ cert.payload.block_hash \in Hash
           /\ cert.signers \in SUBSET NodeId
  BY DEF Certificate, Payload

\* Signing keeps the recorded signatures well typed.
LEMMA SignType ==
    ASSUME VotesTypeOK, NEW v \in Correct, NEW p \in Payload, Sign(v, p)
    PROVE  VotesTypeOK'
  BY DEF VotesTypeOK, Sign

\* Two sets whose digests are those of their contents are equal when the
\* digests are.
LEMMA DigestsTell ==
    ASSUME NEW a \in ValidatorSet, NEW b \in ValidatorSet,
           WellHashed(a), WellHashed(b), a.set_hash = b.set_hash
    PROVE  a = b
<1>1. a.epoch = b.epoch /\ a.entries = b.entries
  BY DEF WellHashed, compute_set_hash
<1> QED
  BY <1>1 DEF ValidatorSet

\* A candidate set that a header of the log commits to, with the successor of
\* a known epoch, has an epoch of the log; if its digest is its own, it is the
\* validator set of that epoch.
LEMMA CommittedSet ==
    ASSUME NEW e \in Epoch, NEW new_set \in CandidateSets,
           NEW header \in Headers,
           verify_next_set(header, new_set), new_set.epoch = e + 1
    PROVE  /\ new_set.epoch \in Epoch
           /\ new_set \in ValidatorSet
           /\ WellHashed(new_set) => new_set = Chain[new_set.epoch]
<1>1. PICK k \in Epoch :
         header = NewHeader(Chain[k],
                            IF k < MaxEpoch THEN {Chain[k + 1]} ELSE {})
  BY DEF Headers
<1>2. header.next_validator_commitment = {new_set.set_hash}
  BY DEF verify_next_set
<1>3. header.next_validator_commitment =
         {vs.set_hash : vs \in IF k < MaxEpoch THEN {Chain[k + 1]} ELSE {}}
  BY <1>1 DEF NewHeader
<1>4. k < MaxEpoch /\ new_set.set_hash = Chain[k + 1].set_hash
  BY <1>2, <1>3
<1>5. k + 1 \in Epoch
  BY <1>4, BoundsAssumption DEF Epoch
<1>6. /\ new_set \in ValidatorSet
      /\ Chain[k + 1] \in ValidatorSet
      /\ Chain[k + 1].epoch = k + 1
      /\ WellHashed(Chain[k + 1])
      /\ WellHashed(new_set) \/ new_set.epoch \in Epoch
  BY <1>5, ChainAssumption
<1>7. CASE WellHashed(new_set)
  <2>1. new_set = Chain[k + 1]
    BY <1>4, <1>6, <1>7, DigestsTell
  <2> QED
    BY <1>5, <1>6, <2>1
<1> QED
  BY <1>6, <1>7

\* A node is in an epoch of the log, with that epoch's validator set unless it
\* was misled.
NodesFollow ==
    \A n \in Nodes :
        /\ epoch[n] \in Epoch
        /\ epoch[n] = validator_set[n].epoch
        /\ n \notin misled => validator_set[n] = Chain[epoch[n]]

\* A client holds a set of an epoch of the log, that epoch's validator set
\* unless it was misled.
ClientsFollow ==
    \A c \in Clients :
        /\ lc_validator_set[c].epoch \in Epoch
        /\ c \notin lc_misled =>
              lc_validator_set[c] = Chain[lc_validator_set[c].epoch]

\* The type invariant is inductive together with the epochs.
TInv == TypeOK /\ NodesFollow /\ ClientsFollow

\* BftState::genesis and LightClient::from_genesis start in the invariant.
LEMMA InitTInv == Init => TInv
<1> SUFFICES ASSUME Init PROVE TInv
  OBVIOUS
<1> USE DEF Init
<1>1. 0 \in Epoch /\ Chain[0] \in ValidatorSet /\ Chain[0].epoch = 0
  BY BoundsAssumption, ChainAssumption DEF Epoch
<1>2. 0 \in 0..MaxHeight
  BY BoundsAssumption
<1>3. VotesTypeOK
  BY DEF VotesInit, VotesTypeOK
<1>4. NodeTypeOK
  BY <1>1, <1>2, CountAssumption DEF genesis, NodeTypeOK, FinalityStatus
<1>5. ClientTypeOK
  BY <1>1, <1>2, CheckpointsAssumption DEF from_genesis, ClientTypeOK
<1>6. NodesFollow /\ ClientsFollow
  BY <1>1 DEF genesis, from_genesis, NodesFollow, ClientsFollow
<1> QED
  BY <1>3, <1>4, <1>5, <1>6 DEF TInv, TypeOK

\* Each method of BftState keeps the types and the chain of validator sets.
LEMMA NodeStepType ==
    ASSUME NodeTypeOK, NodesFollow, NodeNext
    PROVE  NodeTypeOK' /\ NodesFollow'
<1>1. PICK n \in Nodes :
         \/ \E cert \in Certificate : apply_certificate(n, cert)
         \/ \E new_set \in CandidateSets, header \in Headers :
               advance_epoch(n, new_set, header)
         \/ record_divergence(n)
         \/ resume_finality(n)
  BY DEF NodeNext
<1>2. CASE \E cert \in Certificate : apply_certificate(n, cert)
  <2>1. PICK cert \in Certificate : apply_certificate(n, cert)
    BY <1>2
  <2>2. /\ cert.payload \in Payload
        /\ cert.payload.height \in 0..MaxHeight
        /\ cert.payload.block_hash \in Hash
    BY CertificateType, BoundsAssumption DEF Height
  <2>3. NodeTypeOK'
    BY <2>1, <2>2 DEF apply_certificate, NodeTypeOK
  <2> QED
    BY <2>1, <2>3 DEF apply_certificate, NodesFollow
<1>3. CASE \E new_set \in CandidateSets, header \in Headers :
              advance_epoch(n, new_set, header)
  <2>1. PICK new_set \in CandidateSets, header \in Headers :
           advance_epoch(n, new_set, header)
    BY <1>3
  <2>2. epoch[n] \in Epoch
    BY DEF NodesFollow
  <2>3. /\ new_set.epoch \in Epoch
        /\ new_set \in ValidatorSet
        /\ WellHashed(new_set) => new_set = Chain[new_set.epoch]
    BY <2>1, <2>2, CommittedSet DEF advance_epoch
  <2>4. NodeTypeOK'
    BY <2>1, <2>3 DEF advance_epoch, NodeTypeOK
  <2>5. /\ epoch' = [epoch EXCEPT ![n] = new_set.epoch]
        /\ validator_set' = [validator_set EXCEPT ![n] = new_set]
        /\ misled' = IF WellHashed(new_set) THEN misled ELSE misled \cup {n}
    BY <2>1 DEF advance_epoch
  <2> QED
    BY <2>3, <2>4, <2>5 DEF NodesFollow, NodeTypeOK
<1>4. CASE record_divergence(n)
  <2>1. (divergence_count[n] + 1) % CountModulus \in 0..(CountModulus - 1)
    BY CountAssumption DEF NodeTypeOK
  <2>2. divergence_count' \in [Nodes -> 0..(CountModulus - 1)]
    BY <1>4, <2>1 DEF record_divergence, NodeTypeOK
  <2>3. finality_status' \in [Nodes -> FinalityStatus]
    BY <1>4 DEF record_divergence, NodeTypeOK, FinalityStatus
  <2> QED
    BY <1>4, <2>2, <2>3 DEF record_divergence, NodeTypeOK, NodesFollow
<1>5. CASE resume_finality(n)
  <2>1. 0 \in 0..(CountModulus - 1)
    BY CountAssumption
  <2> QED
    BY <1>5, <2>1 DEF resume_finality, NodeTypeOK, NodesFollow, FinalityStatus
<1> QED
  BY <1>1, <1>2, <1>3, <1>4, <1>5

\* Each method of LightClient keeps the types and the chain of validator sets.
LEMMA ClientStepType ==
    ASSUME ClientTypeOK, ClientsFollow, ClientNext
    PROVE  ClientTypeOK' /\ ClientsFollow'
<1>1. PICK c \in Clients :
         \/ \E cert \in Certificate, r \in Referrers : observe(c, cert, r)
         \/ \E new_set \in CandidateSets, header \in Headers :
               lc_advance_epoch(c, new_set, header)
         \/ provide_external_checkpoint(c)
  BY DEF ClientNext
<1>2. CASE \E cert \in Certificate, r \in Referrers : observe(c, cert, r)
  <2>1. PICK cert \in Certificate, r \in Referrers : observe(c, cert, r)
    BY <1>2
  <2>2. /\ cert.payload \in Payload
        /\ cert.payload.height \in 0..MaxHeight
        /\ cert.payload.block_hash \in Hash
        /\ <<cert.payload.height, cert.payload.block_hash>> \in Key
    BY CertificateType, BoundsAssumption DEF Height, Key
  <2>3. CASE observe_accepted(c, cert, r)
    <3>1. pending' \in [Clients -> [Key -> SUBSET Referrers]]
      BY <2>3 DEF observe_accepted, ClientTypeOK
    <3>2. lone' \in [Clients -> Nat]
      BY <2>3 DEF observe_accepted, ClientTypeOK
    <3> QED
      BY <2>2, <2>3, <3>1, <3>2
         DEF observe_accepted, ClientTypeOK, ClientsFollow
  <2>4. CASE observe_pending(c, cert, r)
    <3> DEFINE key == <<cert.payload.height, cert.payload.block_hash>>
    <3>1. Confirming(c, key, r) \in SUBSET Referrers
      BY <2>2 DEF Confirming, ClientTypeOK
    <3>2. pending' = [pending EXCEPT ![c][key] = Confirming(c, key, r)]
      BY <2>4 DEF observe_pending
    <3>3. pending' \in [Clients -> [Key -> SUBSET Referrers]]
      BY <2>2, <3>1, <3>2 DEF ClientTypeOK
    <3> QED
      BY <2>4, <3>3 DEF observe_pending, ClientTypeOK, ClientsFollow
  <2> QED
    BY <2>1, <2>3, <2>4 DEF observe
<1>3. CASE \E new_set \in CandidateSets, header \in Headers :
              lc_advance_epoch(c, new_set, header)
  <2>1. PICK new_set \in CandidateSets, header \in Headers :
           lc_advance_epoch(c, new_set, header)
    BY <1>3
  <2>2. lc_validator_set[c].epoch \in Epoch
    BY DEF ClientsFollow
  <2>3. /\ new_set.epoch \in Epoch
        /\ new_set \in ValidatorSet
        /\ WellHashed(new_set) => new_set = Chain[new_set.epoch]
    BY <2>1, <2>2, CommittedSet DEF lc_advance_epoch
  <2>4. ClientTypeOK'
    BY <2>1, <2>3 DEF lc_advance_epoch, ClientTypeOK
  <2>5. /\ lc_validator_set' = [lc_validator_set EXCEPT ![c] = new_set]
        /\ lc_misled' =
              IF WellHashed(new_set) THEN lc_misled ELSE lc_misled \cup {c}
    BY <2>1 DEF lc_advance_epoch
  <2> QED
    BY <2>3, <2>4, <2>5 DEF ClientsFollow, ClientTypeOK
<1>4. CASE provide_external_checkpoint(c)
  BY <1>4, CheckpointsAssumption
     DEF provide_external_checkpoint, ClientTypeOK, ClientsFollow
<1> QED
  BY <1>1, <1>2, <1>3, <1>4

\* Every step keeps the types and the chain of validator sets.
LEMMA NextTInv == TInv /\ [Next]_vars => TInv'
<1> SUFFICES ASSUME TInv, [Next]_vars PROVE TInv'
  OBVIOUS
<1> USE DEF TInv, TypeOK
<1>1. CASE \E v \in Correct, p \in Payload :
              Sign(v, p) /\ UNCHANGED <<nodeVars, clientVars>>
  <2>1. VotesTypeOK'
    BY <1>1, SignType
  <2> QED
    BY <1>1, <2>1 DEF nodeVars, clientVars, NodeTypeOK, ClientTypeOK,
                      NodesFollow, ClientsFollow
<1>2. CASE NodeNext /\ UNCHANGED <<votes, clientVars>>
  <2>1. NodeTypeOK' /\ NodesFollow'
    BY <1>2, NodeStepType
  <2> QED
    BY <1>2, <2>1 DEF clientVars, VotesTypeOK, ClientTypeOK, ClientsFollow
<1>3. CASE ClientNext /\ UNCHANGED <<votes, nodeVars>>
  <2>1. ClientTypeOK' /\ ClientsFollow'
    BY <1>3, ClientStepType
  <2> QED
    BY <1>3, <2>1 DEF nodeVars, VotesTypeOK, NodeTypeOK, NodesFollow
<1>4. CASE UNCHANGED vars
  BY <1>4 DEF vars, nodeVars, clientVars, VotesTypeOK, NodeTypeOK,
              ClientTypeOK, NodesFollow, ClientsFollow
<1> QED
  BY <1>1, <1>2, <1>3, <1>4 DEF Next

\* So they hold in every reachable state.
LEMMA AlwaysTInv == Spec => []TInv
  BY InitTInv, NextTInv, PTL DEF Spec

\* Every variable of the nodes, the clients and the validators keeps its type,
\* the wrapping divergence counter included.
THEOREM TypeCorrect == Spec => []TypeOK
<1>1. TInv => TypeOK
  BY DEF TInv
<1> QED
  BY <1>1, AlwaysTInv, PTL

\* advance_epoch leaves every node and client that is only handed sets built by
\* ValidatorSet::new with the validator set that the log has for its epoch,
\* though it reads only the header's commitment, and whatever sets others are
\* handed.
THEOREM EpochsFollowChain == Spec => []EpochFollowsChain
<1>1. TInv => EpochFollowsChain
  BY DEF TInv, NodesFollow, ClientsFollow, EpochFollowsChain, SoundNodes,
         SoundClients
<1> QED
  BY <1>1, AlwaysTInv, PTL

-----------------------------------------------------------------------------
(***************************************************************************)
(* Agreement.  TInv says nothing about signatures, so Agreement needs two  *)
(* more facts: correct validators sign one block per height, in the epoch  *)
(* of that height, and whatever was settled has a quorum of signatures     *)
(* from its epoch's validators.                                            *)
(***************************************************************************)

OneVotePerHeight ==
    \A v \in Correct : \A p \in votes[v] :
        /\ p.epoch = EpochOf[p.height]
        /\ \A q \in votes[v] : p.height = q.height => p = q

\* A quorum of p's epoch has signed p.
Backed(p) ==
    \E S : IsQuorum(Chain[p.epoch], S) /\ S \subseteq SignersOf(p)

NodesBacked == \A n \in SoundNodes : \A p \in finalised[n] : Backed(p)
ClientsBacked == \A c \in SoundClients : \A p \in accepted[c] : Backed(p)

AInv == TInv /\ OneVotePerHeight /\ NodesBacked /\ ClientsBacked

\* The quorum of a certificate that verify accepts backs its payload.
LEMMA VerifiedIsBacked ==
    ASSUME NEW cert \in Certificate, NEW vs,
           vs = Chain[vs.epoch], vs.epoch \in Epoch,
           verify(cert, vs, SignersOf(cert.payload))
    PROVE  Backed(cert.payload)
<1>1. cert.payload.epoch = vs.epoch
  BY DEF verify
<1>2. /\ cert.signers \subseteq Members(vs)
      /\ cert.signers \subseteq SignersOf(cert.payload)
      /\ WeightOf(vs, cert.signers) >= quorum_threshold(vs)
  BY DEF verify, verify_quorum
<1>3. IsQuorum(vs, cert.signers)
  BY <1>2 DEF IsQuorum
<1> QED
  BY <1>1, <1>2, <1>3 DEF Backed

\* What a quorum backs belongs to the epoch that decides its height: one of
\* the signers is correct, and signs in no other epoch.
LEMMA BackedEpoch ==
    ASSUME VotesTypeOK, OneVotePerHeight, NEW p \in Payload, Backed(p)
    PROVE  p.epoch = EpochOf[p.height]
<1>1. PICK S : IsQuorum(Chain[p.epoch], S) /\ S \subseteq SignersOf(p)
  BY DEF Backed
<1>2. p.epoch \in Epoch
  BY DEF Payload
<1> DEFINE B == Byzantine \cap Members(Chain[p.epoch])
<1>3. Chain[p.epoch] \in ValidatorSet /\ TolerableFaults(Chain[p.epoch], B)
  BY <1>2, ChainAssumption, FaultAssumption DEF TolerableFaults
<1>4. \E v \in S : v \notin B
  <2> HIDE DEF B
  <2> QED BY <1>1, <1>3, QuorumHasCorrect
<1>5. PICK v \in S : v \notin Byzantine
  BY <1>1, <1>4 DEF IsQuorum
<1>6. v \in Correct /\ p \in votes[v]
  BY <1>1, <1>5 DEF SignersOf
<1> QED
  BY <1>6 DEF OneVotePerHeight

\* Two backed payloads of one height carry the same block.
LEMMA BackedAgree ==
    ASSUME VotesTypeOK, OneVotePerHeight,
           NEW p \in Payload, NEW q \in Payload,
           Backed(p), Backed(q), p.height = q.height
    PROVE  p.block_hash = q.block_hash
<1>1. PICK S : IsQuorum(Chain[p.epoch], S) /\ S \subseteq SignersOf(p)
  BY DEF Backed
<1>2. PICK T : IsQuorum(Chain[q.epoch], T) /\ T \subseteq SignersOf(q)
  BY DEF Backed
<1>3. p.epoch \in Epoch /\ q.epoch \in Epoch
  BY DEF Payload
<1> DEFINE Faulty(e) == Byzantine \cap Members(Chain[e])
<1>4. ASSUME NEW e \in Epoch
      PROVE  Chain[e] \in ValidatorSet /\ TolerableFaults(Chain[e], Faulty(e))
  BY <1>4, ChainAssumption, FaultAssumption DEF TolerableFaults
<1>5. p.epoch = EpochOf[p.height]
  BY BackedEpoch
<1>6. q.epoch = EpochOf[q.height]
  BY BackedEpoch
<1>7. p.epoch = q.epoch
  BY <1>5, <1>6
<1>8. \E v \in S \cap T : v \notin Faulty(p.epoch)
  <2> HIDE DEF Faulty
  <2> QED BY <1>1, <1>2, <1>3, <1>4, <1>7, QuorumIntersection
<1>9. PICK v \in S \cap T : v \notin Byzantine
  BY <1>1, <1>8 DEF IsQuorum
<1>10. v \in Correct /\ p \in votes[v] /\ q \in votes[v]
  BY <1>1, <1>2, <1>9 DEF SignersOf
<1> QED
  BY <1>10 DEF OneVotePerHeight

\* Where everything settled is backed by a quorum, blocks agree.
LEMMA AInvAgreement == AInv => Agreement
<1> SUFFICES ASSUME AInv, NEW p \in Settled, NEW q \in Settled,
                    p.height = q.height
             PROVE  p.block_hash = q.block_hash
  BY DEF Agreement
<1>1. ASSUME NEW x \in Settled
      PROVE  x \in Payload /\ Backed(x)
  BY <1>1 DEF AInv, TInv, TypeOK, NodeTypeOK, ClientTypeOK, Settled,
              NodesBacked, ClientsBacked, SoundNodes, SoundClients
<1> QED
  BY <1>1, BackedAgree DEF AInv, TInv, TypeOK

\* At genesis nothing is signed and nothing is settled.
LEMMA InitAInv == Init => AInv
<1> SUFFICES ASSUME Init PROVE AInv
  OBVIOUS
<1>1. TInv
  BY InitTInv
<1>2. OneVotePerHeight
  BY DEF Init, VotesInit, OneVotePerHeight
<1>3. NodesBacked /\ ClientsBacked
  BY DEF Init, genesis, from_genesis, NodesBacked, ClientsBacked, SoundNodes,
         SoundClients
<1> QED
  BY <1>1, <1>2, <1>3 DEF AInv

\* Signing only adds signatures: what was backed stays backed.
LEMMA SignKeepsBacked ==
    ASSUME VotesTypeOK, NEW v \in Correct, NEW x \in Payload, Sign(v, x),
           NEW p, Backed(p)
    PROVE  Backed(p)'
<1>1. PICK S : IsQuorum(Chain[p.epoch], S) /\ S \subseteq SignersOf(p)
  BY DEF Backed
<1>2. SignersOf(p) \subseteq SignersOf(p)'
  BY DEF SignersOf, Sign, VotesTypeOK
<1> QED
  BY <1>1, <1>2 DEF Backed

\* Every step keeps what is settled backed by a quorum of signatures.
LEMMA NextAInv == AInv /\ [Next]_vars => AInv'
<1> SUFFICES ASSUME AInv, [Next]_vars PROVE AInv'
  OBVIOUS
<1>1. TInv'
  BY NextTInv DEF AInv
<1>2. VotesTypeOK /\ NodeTypeOK /\ ClientTypeOK /\ NodesFollow /\ ClientsFollow
  BY DEF AInv, TInv, TypeOK
<1>3. OneVotePerHeight /\ NodesBacked /\ ClientsBacked
  BY DEF AInv
<1>4. CASE \E v \in Correct, p \in Payload :
              Sign(v, p) /\ UNCHANGED <<nodeVars, clientVars>>
  <2>1. PICK v \in Correct, p \in Payload :
           Sign(v, p) /\ UNCHANGED <<nodeVars, clientVars>>
    BY <1>4
  <2>2. OneVotePerHeight'
    BY <1>2, <1>3, <2>1 DEF OneVotePerHeight, Sign, VotesTypeOK
  <2>3. NodesBacked' /\ ClientsBacked'
    BY <1>2, <1>3, <2>1, SignKeepsBacked
       DEF NodesBacked, ClientsBacked, SoundNodes, SoundClients, nodeVars,
           clientVars
  <2> QED
    BY <1>1, <2>2, <2>3 DEF AInv
<1>5. ASSUME UNCHANGED votes
      PROVE  OneVotePerHeight' /\ \A p : Backed(p) => Backed(p)'
  BY <1>3, <1>5 DEF OneVotePerHeight, Backed, SignersOf
<1>6. CASE NodeNext /\ UNCHANGED <<votes, clientVars>>
  <2>1. \A n \in SoundNodes : \A p \in finalised'[n] :
           p \in finalised[n] \/ Backed(p)
    <3>1. PICK n \in Nodes :
             \/ \E cert \in Certificate : apply_certificate(n, cert)
             \/ UNCHANGED finalised
      BY <1>6 DEF NodeNext, advance_epoch, record_divergence, resume_finality
    <3>2. CASE \E cert \in Certificate : apply_certificate(n, cert)
      <4>1. PICK cert \in Certificate : apply_certificate(n, cert)
        BY <3>2
      <4>2. n \notin misled => Backed(cert.payload)
        BY <1>2, <4>1, VerifiedIsBacked DEF apply_certificate, NodesFollow
      <4> QED
        BY <1>2, <4>1, <4>2 DEF apply_certificate, NodeTypeOK, SoundNodes
    <3> QED
      BY <3>1, <3>2
  <2>2. misled \subseteq misled'
    BY <1>6 DEF NodeNext, apply_certificate, advance_epoch,
                record_divergence, resume_finality
  <2>3. NodesBacked' /\ ClientsBacked'
    BY <1>3, <1>5, <1>6, <2>1, <2>2
       DEF NodesBacked, ClientsBacked, SoundNodes, SoundClients, clientVars
  <2> QED
    BY <1>1, <1>5, <1>6, <2>3 DEF AInv
<1>7. CASE ClientNext /\ UNCHANGED <<votes, nodeVars>>
  <2>1. \A c \in SoundClients : \A p \in accepted'[c] :
           p \in accepted[c] \/ Backed(p)
    <3>1. PICK c \in Clients :
             \/ \E cert \in Certificate, r \in Referrers :
                    observe_accepted(c, cert, r)
             \/ UNCHANGED accepted
      BY <1>7 DEF ClientNext, observe, observe_pending, lc_advance_epoch,
                  provide_external_checkpoint
    <3>2. CASE \E cert \in Certificate, r \in Referrers :
                  observe_accepted(c, cert, r)
      <4>1. PICK cert \in Certificate, r \in Referrers :
               observe_accepted(c, cert, r)
        BY <3>2
      <4>2. c \notin lc_misled => Backed(cert.payload)
        BY <1>2, <4>1, VerifiedIsBacked DEF observe_accepted, ClientsFollow
      <4> QED
        BY <1>2, <4>1, <4>2 DEF observe_accepted, ClientTypeOK, SoundClients
    <3> QED
      BY <3>1, <3>2
  <2>2. lc_misled \subseteq lc_misled'
    BY <1>7 DEF ClientNext, observe, observe_accepted, observe_pending,
                lc_advance_epoch, provide_external_checkpoint
  <2>3. NodesBacked' /\ ClientsBacked'
    BY <1>3, <1>5, <1>7, <2>1, <2>2
       DEF NodesBacked, ClientsBacked, SoundNodes, SoundClients, nodeVars
  <2> QED
    BY <1>1, <1>5, <1>7, <2>3 DEF AInv
<1>8. CASE UNCHANGED vars
  <2>1. NodesBacked' /\ ClientsBacked'
    BY <1>3, <1>5, <1>8 DEF NodesBacked, ClientsBacked, SoundNodes,
                            SoundClients, vars, nodeVars, clientVars
  <2> QED
    BY <1>1, <1>5, <1>8, <2>1 DEF AInv, vars
<1> QED
  BY <1>4, <1>6, <1>7, <1>8 DEF Next

\* No two full nodes or light clients that only adopted sets whose digest is
\* their own settle on different blocks at one height, for every set of
\* tolerable faults: apply_certificate and observe compare no hashes, the
\* quorum threshold alone keeps them together.
THEOREM AgreementHolds == Spec => []Agreement
  BY InitAInv, NextAInv, AInvAgreement, PTL DEF Spec

-----------------------------------------------------------------------------
(***************************************************************************)
(* Pausing.  DivergencePauses alone is not inductive: from an active node  *)
(* whose counter is about to wrap, record_divergence would not pause.  It  *)
(* never gets there, because the counter of an active node is zero.        *)
(***************************************************************************)

ActiveIsReset ==
    \A n \in Nodes : finality_status[n] = "Active" => divergence_count[n] = 0

PInv == TInv /\ DivergencePauses /\ ActiveIsReset

\* Every node starts active, with a counter of zero.
LEMMA InitPInv == Init => PInv
<1> SUFFICES ASSUME Init PROVE PInv
  OBVIOUS
<1>1. TInv
  BY InitTInv
<1> QED
  BY <1>1 DEF Init, genesis, PInv, DivergencePauses, ActiveIsReset

\* The first divergence counts one and pauses; later ones leave the status.
LEMMA NextPInv == PInv /\ [Next]_vars => PInv'
<1> SUFFICES ASSUME PInv, [Next]_vars PROVE PInv'
  OBVIOUS
<1>1. TInv'
  BY NextTInv DEF PInv
<1>2. NodeTypeOK /\ DivergencePauses /\ ActiveIsReset
  BY DEF PInv, TInv, TypeOK
<1>3. ASSUME UNCHANGED <<finality_status, divergence_count, diverged>>
      PROVE  DivergencePauses' /\ ActiveIsReset'
  BY <1>2, <1>3 DEF DivergencePauses, ActiveIsReset
<1>4. ASSUME NEW n \in Nodes, record_divergence(n)
      PROVE  DivergencePauses' /\ ActiveIsReset'
  <2>1. finality_status[n] = "Active" => divergence_count'[n] = 1
    <3>1. (0 + 1) % CountModulus = 1
      BY CountAssumption
    <3> QED
      BY <1>2, <1>4, <3>1 DEF record_divergence, NodeTypeOK, ActiveIsReset
  <2>2. finality_status[n] \in {"Active", "Paused"}
    BY <1>2 DEF NodeTypeOK, FinalityStatus
  <2>3. finality_status'[n] = "Paused" /\ diverged'[n] = TRUE
    BY <1>2, <1>4, <2>1, <2>2 DEF record_divergence, NodeTypeOK
  <2>4. \A m \in Nodes \ {n} :
           /\ divergence_count'[m] = divergence_count[m]
           /\ finality_status'[m] = finality_status[m]
           /\ diverged'[m] = diverged[m]
    BY <1>2, <1>4 DEF record_divergence, NodeTypeOK
  <2> QED
    BY <1>2, <2>3, <2>4 DEF DivergencePauses, ActiveIsReset, NodeTypeOK
<1>5. ASSUME NEW n \in Nodes, resume_finality(n)
      PROVE  DivergencePauses' /\ ActiveIsReset'
  BY <1>2, <1>5
     DEF resume_finality, DivergencePauses, ActiveIsReset, NodeTypeOK
<1>6. \/ UNCHANGED <<finality_status, divergence_count, diverged>>
      \/ \E n \in Nodes : record_divergence(n) \/ resume_finality(n)
  BY DEF Next, NodeNext, apply_certificate, advance_epoch, vars, nodeVars
<1> QED
  BY <1>1, <1>3, <1>4, <1>5, <1>6 DEF PInv

\* A node that recorded a divergence is paused until resume_finality is
\* called, for every width of the counter that it wraps at.
THEOREM PausedUntilResumed == Spec => []DivergencePauses
<1>1. PInv => DivergencePauses
  BY DEF PInv
<1> QED
  BY <1>1, InitPInv, NextPInv, PTL DEF Spec

-----------------------------------------------------------------------------
(***************************************************************************)
(* Order of epochs.  That later heights have later epochs needs to know    *)
(* that the finalised height is the largest so far.                        *)
(***************************************************************************)

BelowHead ==
    \A n \in Nodes : \A p \in finalised[n] : p.height <= finalised_height[n]

OInv == TInv /\ EpochsOrdered /\ BelowHead

\* Nothing is finalised at genesis.
LEMMA InitOInv == Init => OInv
<1> SUFFICES ASSUME Init PROVE OInv
  OBVIOUS
<1>1. TInv
  BY InitTInv
<1> QED
  BY <1>1 DEF Init, genesis, OInv, EpochsOrdered, BelowHead

\* apply_certificate adds a payload of the node's epoch above all the others,
\* and advance_epoch only raises the epoch.
LEMMA NextOInv == OInv /\ [Next]_vars => OInv'
<1> SUFFICES ASSUME OInv, [Next]_vars PROVE OInv'
  OBVIOUS
<1>1. TInv'
  BY NextTInv DEF OInv
<1>2. NodeTypeOK /\ NodesFollow /\ EpochsOrdered /\ BelowHead
  BY DEF OInv, TInv, TypeOK
<1>3. ASSUME UNCHANGED <<finalised, finalised_height, epoch>>
      PROVE  EpochsOrdered' /\ BelowHead'
  BY <1>2, <1>3 DEF EpochsOrdered, BelowHead
<1>4. ASSUME NEW n \in Nodes, NEW cert \in Certificate,
             apply_certificate(n, cert)
      PROVE  EpochsOrdered' /\ BelowHead'
  <2> DEFINE new == cert.payload
  <2>1. /\ new \in Payload /\ new.epoch \in Nat /\ new.height \in Nat
        /\ finalised_height[n] \in Nat
    BY <1>2, CertificateType, BoundsAssumption DEF NodeTypeOK, Epoch, Height
  <2>2. new.epoch = epoch[n] /\ new.height > finalised_height[n]
    BY <1>2, <1>4 DEF apply_certificate, verify, NodesFollow
  <2>3. /\ finalised' = [finalised EXCEPT ![n] = @ \cup {new}]
        /\ finalised_height' = [finalised_height EXCEPT ![n] = new.height]
        /\ epoch' = epoch
    BY <1>4 DEF apply_certificate
  <2>4. \A p \in finalised[n] : p.height \in Nat /\ p.epoch \in Nat
    BY <1>2, BoundsAssumption DEF NodeTypeOK, Payload, Epoch, Height
  <2> HIDE DEF new
  <2>5. \A p \in finalised[n] : p.height < new.height /\ p.epoch <= new.epoch
    BY <1>2, <2>1, <2>2, <2>4 DEF BelowHead, EpochsOrdered
  <2>6. \A m \in Nodes :
           /\ m # n => /\ finalised'[m] = finalised[m]
                       /\ finalised_height'[m] = finalised_height[m]
           /\ m = n => /\ finalised'[m] = finalised[n] \cup {new}
                       /\ finalised_height'[m] = new.height
    BY <1>2, <2>3 DEF NodeTypeOK
  <2>7. BelowHead'
    BY <1>2, <2>1, <2>4, <2>5, <2>6 DEF BelowHead
  <2>8. EpochsOrdered'
    BY <1>2, <2>1, <2>2, <2>3, <2>4, <2>5, <2>6 DEF EpochsOrdered
  <2> QED
    BY <2>7, <2>8
<1>5. ASSUME NEW n \in Nodes, NEW new_set \in CandidateSets,
             NEW header \in Headers, advance_epoch(n, new_set, header)
      PROVE  EpochsOrdered' /\ BelowHead'
  <2>1. /\ epoch' = [epoch EXCEPT ![n] = epoch[n] + 1]
        /\ UNCHANGED <<finalised, finalised_height>>
    BY <1>5 DEF advance_epoch
  <2>2. \A m \in Nodes : epoch[m] \in Nat /\ epoch[m] <= epoch'[m]
                          /\ epoch'[m] \in Nat
    BY <1>2, <2>1, BoundsAssumption DEF NodeTypeOK, Epoch
  <2>3. \A m \in Nodes : \A p \in finalised[m] : p.epoch \in Nat
    BY <1>2, BoundsAssumption DEF NodeTypeOK, Payload, Epoch
  <2> QED
    BY <1>2, <2>1, <2>2, <2>3 DEF EpochsOrdered, BelowHead
<1>6. \/ UNCHANGED <<finalised, finalised_height, epoch>>
      \/ \E n \in Nodes :
            \/ \E cert \in Certificate : apply_certificate(n, cert)
            \/ \E new_set \in CandidateSets, header \in Headers :
                  advance_epoch(n, new_set, header)
  BY DEF Next, NodeNext, record_divergence, resume_finality, vars, nodeVars
<1> QED
  BY <1>1, <1>3, <1>4, <1>5, <1>6 DEF OInv

\* Along the heights that a node finalises the epochs never go back: after a
\* rotation no certificate of a past epoch is applied.
THEOREM EpochsStayOrdered == Spec => []EpochsOrdered
<1>1. OInv => EpochsOrdered
  BY DEF OInv
<1> QED
  BY <1>1, InitOInv, NextOInv, PTL DEF Spec

-----------------------------------------------------------------------------
(***************************************************************************)
(* Light clients.  Both properties need the sets of referrers to be        *)
(* finite, and what is pending stays certified because signatures are      *)
(* never withdrawn and belong to the epoch of their height (AInv).         *)
(***************************************************************************)

\* Certified, the set-level check, is exactly the existence of a quorum.
LEMMA CertifiedIffBacked ==
    ASSUME NEW p \in Payload
    PROVE  Certified(p) <=> Backed(p)
<1> DEFINE vs == Chain[p.epoch]
           all == SignersOf(p) \cap Members(vs)
<1>1. p.epoch \in Epoch /\ vs \in ValidatorSet
  BY ChainAssumption DEF Payload
<1>2. all \in SUBSET Members(vs) /\ all \subseteq SignersOf(p)
  OBVIOUS
<1>3. ASSUME Certified(p) PROVE Backed(p)
  <2>1. IsQuorum(vs, all)
    BY <1>2, <1>3 DEF Certified, IsQuorum
  <2> QED
    BY <1>2, <2>1 DEF Backed
<1>4. ASSUME Backed(p) PROVE Certified(p)
  <2>1. PICK S : IsQuorum(vs, S) /\ S \subseteq SignersOf(p)
    BY <1>4 DEF Backed
  <2>2. S \in SUBSET all /\ S \in SUBSET Members(vs)
    BY <2>1 DEF IsQuorum
  <2>3. WeightOf(vs, S) <= WeightOf(vs, all)
    <3> HIDE DEF all, vs
    <3> QED BY <1>1, <1>2, <2>2, WeightMonotone
  <2>4. /\ WeightOf(vs, S) \in Nat
        /\ WeightOf(vs, all) \in Nat
        /\ quorum_threshold(vs) \in Nat
    <3> HIDE DEF all, vs
    <3> QED BY <1>1, <1>2, <2>2, WeightType, ThresholdExact
  <2>5. WeightOf(vs, S) >= quorum_threshold(vs)
    BY <2>1 DEF IsQuorum
  <2>6. WeightOf(vs, all) >= quorum_threshold(vs)
    <3> HIDE DEF all, vs
    <3> QED BY <2>3, <2>4, <2>5
  <2> QED
    BY <1>2, <2>6 DEF Certified
<1> QED
  BY <1>3, <1>4

\* Signatures are never withdrawn, so a certified payload stays certified.
LEMMA CertifiedKept ==
    ASSUME VotesTypeOK, NEW v \in Correct, NEW x \in Payload, Sign(v, x),
           NEW p \in Payload, Certified(p)
    PROVE  Certified(p)'
<1>1. Backed(p)'
  BY CertifiedIffBacked, SignKeepsBacked
<1>2. Certified(p)' <=> Backed(p)'
  BY CertifiedIffBacked, PTL
<1> QED
  BY <1>1, <1>2

\* A backed payload is the one that At names.
LEMMA BackedIsAt ==
    ASSUME VotesTypeOK, OneVotePerHeight, NEW p \in Payload, Backed(p)
    PROVE  p = At(p.height, p.block_hash)
<1>1. p.epoch = EpochOf[p.height]
  BY BackedEpoch
<1> QED
  BY <1>1 DEF At, Payload

\* The payload that At names is well typed.
LEMMA AtType ==
    ASSUME NEW h \in Height, NEW x \in Hash
    PROVE  /\ At(h, x) \in Payload
           /\ At(h, x).height = h /\ At(h, x).block_hash = x
  BY ChainAssumption DEF At, Payload

PendingFinite ==
    \A c \in Clients : \A key \in Key : IsFiniteSet(pending[c][key])

CInv == AInv /\ PendingFinite /\ CheckpointsSpentOnce /\ PendingIsLive

\* from_genesis starts with nothing pending and no checkpoint.
LEMMA InitCInv == Init => CInv
<1> SUFFICES ASSUME Init PROVE CInv
  OBVIOUS
<1>1. AInv
  BY InitAInv
<1>2. \A c \in Clients : \A key \in Key : pending[c][key] = {}
  BY DEF Init, from_genesis
<1>3. PendingFinite /\ PendingIsLive
  BY <1>2, FS_EmptySet DEF PendingFinite, PendingIsLive
<1>4. CheckpointsSpentOnce
  BY DEF Init, from_genesis, CheckpointsSpentOnce
<1> QED
  BY <1>1, <1>3, <1>4 DEF CInv

\* The referrers of a key, with one more, are finite in number and at least
\* one.
LEMMA ConfirmingFinite ==
    ASSUME PendingFinite, NEW c \in Clients, NEW key \in Key, NEW r
    PROVE  /\ IsFiniteSet(Confirming(c, key, r))
           /\ Cardinality(Confirming(c, key, r)) \in Nat \ {0}
<1>1. IsFiniteSet(pending[c][key])
  BY DEF PendingFinite
<1>2. IsFiniteSet(Confirming(c, key, r))
  BY <1>1, FS_AddElement DEF Confirming
<1>3. Confirming(c, key, r) # {}
  BY DEF Confirming
<1> QED
  BY <1>2, <1>3, FS_CardinalityType, FS_EmptySet

\* observe and provide_external_checkpoint keep the count of lone acceptances
\* within the checkpoints given.
LEMMA ClientStepCheckpoints ==
    ASSUME ClientTypeOK, PendingFinite, CheckpointsSpentOnce, ClientNext
    PROVE  CheckpointsSpentOnce'
<1>1. \A c \in Clients : /\ lone[c] \in Nat /\ provided[c] \in Nat
                          /\ has_external_checkpoint[c] \in BOOLEAN
  BY CheckpointsAssumption DEF ClientTypeOK
<1>2. ASSUME UNCHANGED <<lone, provided, has_external_checkpoint>>
      PROVE  CheckpointsSpentOnce'
  BY <1>2 DEF CheckpointsSpentOnce
<1>3. ASSUME NEW c \in Clients, NEW cert \in Certificate, NEW r \in Referrers,
             observe_accepted(c, cert, r)
      PROVE  CheckpointsSpentOnce'
  <2> DEFINE key == <<cert.payload.height, cert.payload.block_hash>>
             refs == Confirming(c, key, r)
  <2>1. key \in Key
    BY CertificateType DEF Key
  <2>2. Cardinality(refs) \in Nat
    <3> HIDE DEF key
    <3> QED BY <2>1, ConfirmingFinite
  <2>3. /\ Sufficient(c, refs)
        /\ has_external_checkpoint' =
              [has_external_checkpoint EXCEPT ![c] = FALSE]
        /\ lone' = [lone EXCEPT ![c] =
                       IF Cardinality(refs) < 2 THEN @ + 1 ELSE @]
        /\ provided' = provided
    BY <1>3 DEF observe_accepted
  <2>4. Cardinality(refs) < 2 => has_external_checkpoint[c]
    BY <2>2, <2>3 DEF Sufficient
  <2>5. lone'[c] <= provided[c] /\ ~has_external_checkpoint'[c]
    <3> HIDE DEF refs
    <3>1. lone[c] + (IF has_external_checkpoint[c] THEN 1 ELSE 0) <= provided[c]
      BY DEF CheckpointsSpentOnce
    <3> QED
      BY <1>1, <2>3, <2>4, <3>1 DEF ClientTypeOK
  <2>6. lone'[c] \in Nat
    BY <1>1, <2>3 DEF ClientTypeOK
  <2>7. \A d \in Clients \ {c} :
           /\ lone'[d] = lone[d]
           /\ has_external_checkpoint'[d] = has_external_checkpoint[d]
    BY <2>3 DEF ClientTypeOK
  <2> QED
    BY <1>1, <2>3, <2>5, <2>6, <2>7 DEF CheckpointsSpentOnce
<1>4. ASSUME NEW c \in Clients, provide_external_checkpoint(c)
      PROVE  CheckpointsSpentOnce'
  <2>1. \A d \in Clients :
           /\ lone'[d] = lone[d]
           /\ d = c => provided'[d] = provided[d] + 1
           /\ d # c => /\ provided'[d] = provided[d]
                       /\ has_external_checkpoint'[d]
                             = has_external_checkpoint[d]
    BY <1>4 DEF provide_external_checkpoint, ClientTypeOK
  <2> QED
    BY <1>1, <2>1 DEF CheckpointsSpentOnce
<1> QED
  BY <1>2, <1>3, <1>4
     DEF ClientNext, observe, observe_pending, lc_advance_epoch

\* observe keeps what is pending above the best header, reported by a single
\* channel, and certified.
LEMMA ClientStepPending ==
    ASSUME AInv, PendingFinite, PendingIsLive, ClientNext, UNCHANGED votes
    PROVE  PendingFinite' /\ PendingIsLive'
<1>1. /\ VotesTypeOK /\ ClientTypeOK /\ ClientsFollow /\ OneVotePerHeight
  BY DEF AInv, TInv, TypeOK
<1>2. \A p : Certified(p)' <=> Certified(p)
  BY DEF Certified, SignersOf
<1>misled. lc_misled \subseteq lc_misled'
  <2>1. ASSUME NEW c \in Clients, NEW cert \in Certificate, NEW r \in Referrers,
               observe(c, cert, r)
        PROVE  lc_misled' = lc_misled
    <3>1. CASE observe_accepted(c, cert, r)
      BY <3>1 DEF observe_accepted
    <3>2. CASE observe_pending(c, cert, r)
      BY <3>2 DEF observe_pending
    <3> QED
      BY <2>1, <3>1, <3>2 DEF observe
  <2>2. ASSUME NEW c \in Clients, NEW new_set \in CandidateSets,
               NEW header \in Headers, lc_advance_epoch(c, new_set, header)
        PROVE  lc_misled \subseteq lc_misled'
    BY <2>2 DEF lc_advance_epoch
  <2>3. ASSUME NEW c \in Clients, provide_external_checkpoint(c)
        PROVE  lc_misled' = lc_misled
    BY <2>3 DEF provide_external_checkpoint
  <2> QED
    BY <2>1, <2>2, <2>3 DEF ClientNext
<1>3. ASSUME UNCHANGED <<pending, best_height>>
      PROVE  PendingFinite' /\ PendingIsLive'
  BY <1>2, <1>3, <1>misled DEF PendingFinite, PendingIsLive, At, SoundClients
<1>4. ASSUME NEW c \in Clients, NEW cert \in Certificate, NEW r \in Referrers,
             observe_accepted(c, cert, r)
      PROVE  PendingFinite' /\ PendingIsLive'
  <2> DEFINE height == cert.payload.height
  <2>1. height \in Nat /\ best_height[c] \in Nat
    BY <1>1, CertificateType, BoundsAssumption DEF ClientTypeOK, Height
  <2>2. /\ best_height' = [best_height EXCEPT ![c] = height]
        /\ pending' = [pending EXCEPT ![c] =
                          [k \in Key |-> IF k[1] > height THEN @[k] ELSE {}]]
    BY <1>4 DEF observe_accepted
  <2>3. \A d \in Clients : \A k \in Key :
           /\ d # c => /\ pending'[d][k] = pending[d][k]
                       /\ best_height'[d] = best_height[d]
           /\ d = c => /\ pending'[d][k] =
                              IF k[1] > height THEN pending[d][k] ELSE {}
                       /\ best_height'[d] = height
    BY <1>1, <2>2 DEF ClientTypeOK
  <2> HIDE DEF height
  <2>4. PendingFinite'
    BY <2>3, FS_EmptySet DEF PendingFinite
  <2>5. PendingIsLive'
    BY <1>2, <1>misled, <2>3 DEF PendingIsLive, At, SoundClients
  <2> QED
    BY <2>4, <2>5
<1>5. ASSUME NEW c \in Clients, NEW cert \in Certificate, NEW r \in Referrers,
             observe_pending(c, cert, r)
      PROVE  PendingFinite' /\ PendingIsLive'
  <2> DEFINE height == cert.payload.height
             x == cert.payload.block_hash
             key == <<height, x>>
             refs == Confirming(c, key, r)
  <2>1. cert.payload \in Payload /\ height \in Height /\ x \in Hash
        /\ key \in Key
    BY CertificateType DEF Key
  <2>2. IsFiniteSet(refs) /\ Cardinality(refs) \in Nat \ {0}
    <3> HIDE DEF key
    <3> QED BY <2>1, ConfirmingFinite
  <2>3. /\ height > best_height[c]
        /\ ~Sufficient(c, refs)
        /\ pending' = [pending EXCEPT ![c][key] = refs]
        /\ UNCHANGED best_height
        /\ verify(cert, lc_validator_set[c], SignersOf(cert.payload))
    BY <1>5 DEF observe_pending
  <2>4. Cardinality(refs) = 1
    <3>1. ~(Cardinality(refs) >= 2)
      BY <2>3 DEF Sufficient
    <3> HIDE DEF refs
    <3> QED BY <2>2, <3>1
  <2>5. c \in SoundClients => Backed(cert.payload)
    BY <1>1, <2>3, VerifiedIsBacked DEF ClientsFollow, SoundClients
  <2>6. c \in SoundClients => Certified(At(height, x))
    BY <1>1, <2>1, <2>5, CertifiedIffBacked, BackedIsAt
  <2>7. key[1] = height /\ key[2] = x
    OBVIOUS
  <2> HIDE DEF refs, key
  <2>8. \A d \in Clients : \A k \in Key :
           pending'[d][k] = IF d = c /\ k = key THEN refs ELSE pending[d][k]
    BY <1>1, <2>1, <2>3 DEF ClientTypeOK
  <2>9. PendingFinite'
    BY <2>2, <2>8 DEF PendingFinite
  <2>10. PendingIsLive'
    <3> SUFFICES ASSUME NEW d \in Clients, NEW k \in Key, pending'[d][k] # {}
                 PROVE  /\ k[1] > best_height[d]
                        /\ Cardinality(pending'[d][k]) = 1
                        /\ d \in SoundClients => Certified(At(k[1], k[2]))
      BY <1>2, <1>misled, <2>3 DEF PendingIsLive, At, SoundClients
    <3>1. CASE d = c /\ k = key
      BY <2>3, <2>4, <2>6, <2>7, <2>8, <3>1
    <3>2. CASE ~(d = c /\ k = key)
      BY <2>8, <3>2 DEF PendingIsLive
    <3> QED
      BY <3>1, <3>2
  <2> QED
    BY <2>9, <2>10
<1> QED
  BY <1>3, <1>4, <1>5
     DEF ClientNext, observe, lc_advance_epoch, provide_external_checkpoint

\* Every step keeps the light clients' invariant.
LEMMA NextCInv == CInv /\ [Next]_vars => CInv'
<1> SUFFICES ASSUME CInv, [Next]_vars PROVE CInv'
  OBVIOUS
<1>1. AInv /\ AInv'
  BY NextAInv DEF CInv
<1>2. /\ VotesTypeOK /\ ClientTypeOK /\ PendingFinite
      /\ CheckpointsSpentOnce /\ PendingIsLive
  BY <1>1 DEF CInv, AInv, TInv, TypeOK
<1>3. CASE ClientNext /\ UNCHANGED <<votes, nodeVars>>
  BY <1>1, <1>2, <1>3, ClientStepCheckpoints, ClientStepPending DEF CInv
<1>4. ASSUME UNCHANGED clientVars,
             \A p \in Payload : Certified(p) => Certified(p)'
      PROVE  CInv'
  <2>1. PendingFinite' /\ CheckpointsSpentOnce'
    BY <1>2, <1>4 DEF clientVars, PendingFinite, CheckpointsSpentOnce
  <2>2. PendingIsLive'
    <3> SUFFICES ASSUME NEW c \in Clients, NEW k \in Key, pending[c][k] # {}
                 PROVE  /\ k[1] > best_height[c]
                        /\ Cardinality(pending[c][k]) = 1
                        /\ c \in SoundClients => Certified(At(k[1], k[2]))'
      BY <1>4 DEF PendingIsLive, SoundClients, clientVars
    <3>1. At(k[1], k[2]) \in Payload
      BY AtType DEF Key
    <3>2. Certified(At(k[1], k[2])) => Certified(At(k[1], k[2]))'
      BY <1>4, <3>1 DEF At
    <3> QED
      BY <1>2, <3>2 DEF PendingIsLive
  <2> QED
    BY <1>1, <2>1, <2>2 DEF CInv
<1>5. CASE \E v \in Correct, p \in Payload :
              Sign(v, p) /\ UNCHANGED <<nodeVars, clientVars>>
  <2>1. ASSUME NEW p \in Payload, Certified(p) PROVE Certified(p)'
    BY <1>2, <1>5, <2>1, CertifiedIffBacked, CertifiedKept
  <2> QED
    BY <1>4, <1>5, <2>1
<1>6. CASE UNCHANGED <<votes, clientVars>>
  <2>1. \A p \in Payload : Certified(p) => Certified(p)'
    BY <1>6 DEF Certified, SignersOf
  <2> QED
    BY <1>4, <1>6, <2>1
<1> QED
  BY <1>3, <1>5, <1>6 DEF Next, vars

\* A light client accepts on the word of one channel at most as often as it
\* was given an external checkpoint, for every number of checkpoints.
THEOREM CheckpointsAreSpent == Spec => []CheckpointsSpentOnce
<1>1. CInv => CheckpointsSpentOnce
  BY DEF CInv
<1> QED
  BY <1>1, InitCInv, NextCInv, PTL DEF Spec

\* What a light client keeps pending is live: above its best header, reported
\* by one channel only, and certified by a quorum of its epoch's validators
\* when the client only adopted sets whose digest is their own.
THEOREM PendingStaysLive == Spec => []PendingIsLive
<1>1. CInv => PendingIsLive
  BY DEF CInv
<1> QED
  BY <1>1, InitCInv, NextCInv, PTL DEF Spec

-----------------------------------------------------------------------------
(***************************************************************************)
(* Refinement of the log.  A signature that completes a quorum is Decide,  *)
(* a certificate that is applied or accepted is Advance, a validator set   *)
(* with another set's digest is Leave, every other step leaves the log and *)
(* the heads as they are.                                                  *)
(***************************************************************************)

\* The decided blocks are the backed ones.
DecidedAreBacked ==
    \A h \in Height : \A x :
        x \in logDecided[h] <=> x \in Hash /\ Backed(At(h, x))

\* They are in every state: Certified says no more and no less than Backed.
LEMMA DecidedIsBacked == DecidedAreBacked
<1> SUFFICES ASSUME NEW h \in Height, NEW x
             PROVE  x \in logDecided[h] <=> x \in Hash /\ Backed(At(h, x))
  BY DEF DecidedAreBacked
<1>1. ASSUME x \in Hash PROVE Certified(At(h, x)) <=> Backed(At(h, x))
  BY <1>1, AtType, CertifiedIffBacked
<1> QED
  BY <1>1 DEF logDecided

\* At most one block of each height is backed.
BackedOnce ==
    \A a, b \in Payload :
        Backed(a) /\ Backed(b) /\ a.height = b.height
            => a.block_hash = b.block_hash

\* The signatures of any state back at most one block of each height.
LEMMA DecidedOnce == VotesTypeOK /\ OneVotePerHeight => BackedOnce
  BY BackedAgree DEF BackedOnce

\* At genesis nothing is decided: the faulty validators alone are no quorum.
LEMMA NothingBackedAtGenesis ==
    ASSUME VotesInit, NEW p \in Payload
    PROVE  ~Backed(p)
<1> SUFFICES ASSUME Backed(p) PROVE FALSE
  OBVIOUS
<1>1. PICK S : IsQuorum(Chain[p.epoch], S) /\ S \subseteq SignersOf(p)
  BY DEF Backed
<1> DEFINE B == Byzantine \cap Members(Chain[p.epoch])
<1>2. Chain[p.epoch] \in ValidatorSet /\ TolerableFaults(Chain[p.epoch], B)
  BY ChainAssumption, FaultAssumption DEF TolerableFaults, Payload
<1>3. \E v \in S : v \notin B
  <2> HIDE DEF B
  <2> QED BY <1>1, <1>2, QuorumHasCorrect
<1>4. SignersOf(p) = Byzantine
  BY DEF SignersOf, VotesInit
<1> QED
  BY <1>1, <1>3, <1>4 DEF IsQuorum

\* genesis and from_genesis map to the initial state of the log.
LEMMA InitRefinesLog == Init => Log!Init
<1> SUFFICES ASSUME Init PROVE Log!Init
  OBVIOUS
<1>1. ASSUME NEW h \in Height PROVE logDecided[h] = {}
  <2>1. \A x : x \notin logDecided[h]
    BY <1>1, DecidedIsBacked, AtType, NothingBackedAtGenesis DEF Init, DecidedAreBacked
  <2> QED
    BY <2>1
<1>2. logDecided = [h \in Height |-> {}]
  BY <1>1 DEF logDecided
<1>3. logHead = [r \in Nodes \cup Clients |-> <<0, GenesisHash>>]
  BY DEF logHead, SoundNodes, SoundClients, Init, genesis, from_genesis
<1> QED
  BY <1>2, <1>3 DEF Log!Init

\* A signature decides a block, or changes nothing that readers see.
LEMMA SignRefinesLog ==
    ASSUME AInv, AInv', NEW v \in Correct, NEW p \in Payload, Sign(v, p),
           UNCHANGED <<nodeVars, clientVars>>
    PROVE  Log!Next \/ UNCHANGED Log!logVars
<1> DEFINE h == p.height
           x == p.block_hash
<1>1. h \in Height /\ x \in Hash /\ p = At(h, x)
  BY DEF Payload, Sign, At
<1>2. VotesTypeOK /\ OneVotePerHeight /\ VotesTypeOK' /\ OneVotePerHeight'
  BY DEF AInv, TInv, TypeOK
<1>3. UNCHANGED logHead
  BY DEF logHead, SoundNodes, SoundClients, nodeVars, clientVars
<1>4. ASSUME NEW q \in Payload, q # p
      PROVE  Backed(q)' <=> Backed(q)
  <2>1. SignersOf(q)' = SignersOf(q)
    BY <1>2, <1>4 DEF SignersOf, Sign, VotesTypeOK
  <2> QED
    BY <2>1 DEF Backed
<1>5. ASSUME NEW k \in Height, NEW y
      PROVE  y \in logDecided'[k] <=> y \in Hash /\ Backed(At(k, y))'
  <2>1. DecidedAreBacked'
    BY DecidedIsBacked, PTL
  <2> QED
    BY <1>5, <2>1 DEF DecidedAreBacked
<1>6. ASSUME NEW k \in Height, NEW y, <<k, y>> # <<h, x>>
      PROVE  y \in logDecided'[k] <=> y \in logDecided[k]
  <2>1. CASE y \in Hash
    <3>1. At(k, y) \in Payload /\ At(k, y) # p
      BY <1>6, <2>1, AtType
    <3>2. Backed(At(k, y))' <=> Backed(At(k, y))
      BY <1>4, <3>1 DEF At
    <3> QED
      BY <1>5, <3>2, DecidedIsBacked DEF DecidedAreBacked
  <2> QED
    BY <1>5, <2>1, DecidedIsBacked DEF DecidedAreBacked
<1>7. /\ logDecided = [k \in Height |-> logDecided[k]]
      /\ logDecided' = [k \in Height |-> logDecided'[k]]
  BY DEF logDecided
<1>8. CASE x \in logDecided'[h] => x \in logDecided[h]
  <2>1. x \in logDecided[h] => x \in logDecided'[h]
    <3>1. Backed(p) => Backed(p)'
      BY <1>2, SignKeepsBacked
    <3> QED
      BY <1>1, <1>5, <3>1, DecidedIsBacked DEF At, DecidedAreBacked
  <2>2. \A k \in Height : \A y : y \in logDecided'[k] <=> y \in logDecided[k]
    BY <1>6, <1>8, <2>1
  <2>3. \A k \in Height : logDecided'[k] = logDecided[k]
    BY <2>2
  <2>4. logDecided' = logDecided
    BY <1>7, <2>3
  <2> QED
    BY <1>3, <2>4 DEF Log!logVars
<1>9. CASE x \in logDecided'[h] /\ x \notin logDecided[h]
  <2>1. logDecided[h] = {}
    <3> SUFFICES ASSUME NEW y \in logDecided[h] PROVE FALSE
      OBVIOUS
    <3>1. y # x /\ y \in Hash /\ Backed(At(h, y))
      BY <1>1, <1>9, DecidedIsBacked DEF DecidedAreBacked
    <3>2. At(h, y) \in Payload /\ At(h, y).height = h /\ At(h, y).block_hash = y
      BY <1>1, <3>1, AtType
    <3>3. Backed(At(h, y))' /\ Backed(p)'
      <4>1. Backed(At(h, y))'
        BY <1>4, <3>1, <3>2 DEF At
      <4>2. Backed(At(h, x))'
        BY <1>1, <1>5, <1>9
      <4> QED
        BY <1>1, <4>1, <4>2 DEF At
    <3>4. \A a, b \in Payload :
             Backed(a)' /\ Backed(b)' /\ a.height = b.height
                 => a.block_hash = b.block_hash
      <4>1. BackedOnce'
        BY <1>2, DecidedOnce, PTL
      <4> QED
        BY <4>1 DEF BackedOnce
    <3> QED
      BY <3>1, <3>2, <3>3, <3>4
  <2>2. logDecided'[h] = {x}
    <3>1. \A y : y \in logDecided'[h] <=> y = x
      BY <1>1, <1>6, <1>9, <2>1
    <3> QED
      BY <3>1
  <2>3. \A k \in Height \ {h} : logDecided'[k] = logDecided[k]
    <3>1. \A k \in Height \ {h} : \A y :
             y \in logDecided'[k] <=> y \in logDecided[k]
      BY <1>6
    <3> QED
      BY <3>1
  <2>4. logDecided' = [logDecided EXCEPT ![h] = {x}]
    BY <1>1, <1>7, <2>2, <2>3
  <2>5. Log!Decide(h, x)
    BY <1>3, <2>1, <2>4 DEF Log!Decide
  <2> QED
    BY <1>1, <2>5 DEF Log!Next
<1> QED
  BY <1>8, <1>9

\* The block of a verified certificate is decided.
LEMMA VerifiedIsDecided ==
    ASSUME AInv, NEW cert \in Certificate, NEW vs,
           vs = Chain[vs.epoch], vs.epoch \in Epoch,
           verify(cert, vs, SignersOf(cert.payload))
    PROVE  /\ cert.payload.height \in Height
           /\ cert.payload.block_hash \in logDecided[cert.payload.height]
<1>1. VotesTypeOK /\ OneVotePerHeight
  BY DEF AInv, TInv, TypeOK
<1>2. /\ cert.payload \in Payload
      /\ cert.payload.height \in Height
      /\ cert.payload.block_hash \in Hash
  BY CertificateType
<1>3. Backed(cert.payload)
  BY VerifiedIsBacked
<1>4. cert.payload = At(cert.payload.height, cert.payload.block_hash)
  BY <1>1, <1>2, <1>3, BackedIsAt
<1> QED
  BY <1>2, <1>3, <1>4, DecidedIsBacked DEF DecidedAreBacked

\* What a node or a client does moves one head to a decided block above it, or
\* takes one reader off the log, or leaves the heads alone.
LEMMA ReaderRefinesLog ==
    ASSUME AInv, UNCHANGED votes,
           \/ NodeNext /\ UNCHANGED clientVars
           \/ ClientNext /\ UNCHANGED nodeVars
    PROVE  Log!Next \/ UNCHANGED Log!logVars
<1>1. NodeTypeOK /\ ClientTypeOK /\ NodesFollow /\ ClientsFollow
  BY DEF AInv, TInv, TypeOK
<1>2. UNCHANGED logDecided
  BY DEF logDecided, Certified, SignersOf, At
<1>3. ASSUME UNCHANGED <<finalised_height, block_hash, misled,
                         best_height, best_hash, lc_misled>>
      PROVE  UNCHANGED Log!logVars
  BY <1>2, <1>3 DEF logHead, SoundNodes, SoundClients, Log!logVars
<1>4. ASSUME NEW n \in Nodes, NEW cert \in Certificate,
             apply_certificate(n, cert), UNCHANGED clientVars
      PROVE  Log!Next \/ UNCHANGED Log!logVars
  <2> DEFINE h == cert.payload.height
             x == cert.payload.block_hash
  <2>1. /\ finalised_height' = [finalised_height EXCEPT ![n] = h]
        /\ block_hash' = [block_hash EXCEPT ![n] = x]
        /\ UNCHANGED <<misled, best_height, best_hash, lc_misled>>
    BY <1>4 DEF apply_certificate, clientVars
  <2>2. CASE n \in misled
    <3>1. UNCHANGED logHead
      BY <1>1, <2>1, <2>2, ReadersAssumption
         DEF logHead, SoundNodes, SoundClients, NodeTypeOK
    <3> QED
      BY <1>2, <3>1 DEF Log!logVars
  <2>3. CASE n \notin misled
    <3>1. h \in Height /\ x \in logDecided[h]
      BY <1>1, <1>4, <2>3, VerifiedIsDecided DEF apply_certificate, NodesFollow
    <3>2. /\ n \in DOMAIN logHead /\ n \in Nodes \cup Clients
          /\ logHead[n][1] = finalised_height[n] /\ h > finalised_height[n]
      BY <1>4, <2>3 DEF logHead, SoundNodes, apply_certificate
    <3>3. logHead' = [logHead EXCEPT ![n] = <<h, x>>]
      BY <1>1, <2>1, <2>3 DEF logHead, SoundNodes, SoundClients, NodeTypeOK
    <3>4. Log!Advance(n, h)
      BY <1>2, <3>1, <3>2, <3>3 DEF Log!Advance
    <3> QED
      BY <3>1, <3>2, <3>4 DEF Log!Next
  <2> QED
    BY <2>2, <2>3
<1>5. ASSUME NEW c \in Clients, NEW cert \in Certificate, NEW r \in Referrers,
             observe_accepted(c, cert, r), UNCHANGED nodeVars
      PROVE  Log!Next \/ UNCHANGED Log!logVars
  <2> DEFINE h == cert.payload.height
             x == cert.payload.block_hash
  <2>1. /\ best_height' = [best_height EXCEPT ![c] = h]
        /\ best_hash' = [best_hash EXCEPT ![c] = x]
        /\ UNCHANGED <<lc_misled, finalised_height, block_hash, misled>>
    BY <1>5 DEF observe_accepted, nodeVars
  <2>2. c \notin Nodes
    BY ReadersAssumption
  <2>3. CASE c \in lc_misled
    <3>1. UNCHANGED logHead
      BY <1>1, <2>1, <2>2, <2>3
         DEF logHead, SoundNodes, SoundClients, ClientTypeOK
    <3> QED
      BY <1>2, <3>1 DEF Log!logVars
  <2>4. CASE c \notin lc_misled
    <3>1. h \in Height /\ x \in logDecided[h]
      BY <1>1, <1>5, <2>4, VerifiedIsDecided DEF observe_accepted, ClientsFollow
    <3>2. /\ c \in DOMAIN logHead /\ c \in Nodes \cup Clients
          /\ logHead[c][1] = best_height[c] /\ h > best_height[c]
      BY <1>5, <2>2, <2>4 DEF logHead, SoundClients, observe_accepted
    <3>3. logHead' = [logHead EXCEPT ![c] = <<h, x>>]
      BY <1>1, <2>1, <2>2, <2>4
         DEF logHead, SoundNodes, SoundClients, ClientTypeOK
    <3>4. Log!Advance(c, h)
      BY <1>2, <3>1, <3>2, <3>3 DEF Log!Advance
    <3> QED
      BY <3>1, <3>2, <3>4 DEF Log!Next
  <2> QED
    BY <2>3, <2>4
<1>6. ASSUME NEW r \in Nodes \cup Clients,
             UNCHANGED <<finalised_height, block_hash, best_height, best_hash>>,
             (SoundNodes \cup SoundClients)' = (SoundNodes \cup SoundClients) \ {r}
      PROVE  Log!Next \/ UNCHANGED Log!logVars
  <2>1. CASE r \in SoundNodes \cup SoundClients
    <3>1. r \in DOMAIN logHead
      BY <2>1 DEF logHead
    <3>2. logHead' = [s \in DOMAIN logHead \ {r} |-> logHead[s]]
      BY <1>6 DEF logHead
    <3>3. Log!Leave(r)
      BY <1>2, <3>1, <3>2 DEF Log!Leave
    <3> QED
      BY <1>6, <3>3 DEF Log!Next
  <2>2. CASE r \notin SoundNodes \cup SoundClients
    <3>1. UNCHANGED logHead
      BY <1>6, <2>2 DEF logHead
    <3> QED
      BY <1>2, <3>1 DEF Log!logVars
  <2> QED
    BY <2>1, <2>2
<1>7. CASE NodeNext /\ UNCHANGED clientVars
  <2>1. PICK n \in Nodes :
           \/ \E cert \in Certificate : apply_certificate(n, cert)
           \/ /\ UNCHANGED <<finalised_height, block_hash, best_height,
                            best_hash, lc_misled>>
              /\ misled' = misled \/ misled' = misled \cup {n}
    BY <1>7 DEF NodeNext, advance_epoch, record_divergence, resume_finality,
                clientVars
  <2>2. misled' = misled \cup {n} /\ lc_misled' = lc_misled =>
           (SoundNodes \cup SoundClients)' = (SoundNodes \cup SoundClients) \ {n}
    BY ReadersAssumption DEF SoundNodes, SoundClients
  <2> QED
    BY <1>3, <1>4, <1>6, <1>7, <2>1, <2>2
<1>8. CASE ClientNext /\ UNCHANGED nodeVars
  <2>1. PICK c \in Clients :
           \/ \E cert \in Certificate, r \in Referrers :
                 observe_accepted(c, cert, r)
           \/ /\ UNCHANGED <<finalised_height, block_hash, best_height,
                            best_hash, misled>>
              /\ lc_misled' = lc_misled \/ lc_misled' = lc_misled \cup {c}
    BY <1>8 DEF ClientNext, observe, observe_pending, lc_advance_epoch,
                provide_external_checkpoint, nodeVars
  <2>2. lc_misled' = lc_misled \cup {c} /\ misled' = misled =>
           (SoundNodes \cup SoundClients)' = (SoundNodes \cup SoundClients) \ {c}
    BY ReadersAssumption DEF SoundNodes, SoundClients
  <2> QED
    BY <1>3, <1>5, <1>6, <1>8, <2>1, <2>2
<1> QED
  BY <1>7, <1>8

\* Full nodes and light clients together implement the append-only log: at
\* most one block is ever decided at a height, and the heads that
\* apply_certificate and observe move only go up, to decided blocks, until the
\* reader adopts a set with another set's digest.
THEOREM RefinesFinalityLog == Spec => ImplementsFinalityLog
<1>1. Init => Log!Init
  BY InitRefinesLog
<1>2. AInv /\ AInv' /\ [Next]_vars => [Log!Next]_(Log!logVars)
  <2> SUFFICES ASSUME AInv, AInv', [Next]_vars
               PROVE  Log!Next \/ UNCHANGED Log!logVars
    OBVIOUS
  <2>1. CASE \E v \in Correct, p \in Payload :
                Sign(v, p) /\ UNCHANGED <<nodeVars, clientVars>>
    BY <2>1, SignRefinesLog
  <2>2. CASE \/ NodeNext /\ UNCHANGED <<votes, clientVars>>
             \/ ClientNext /\ UNCHANGED <<votes, nodeVars>>
    BY <2>2, ReaderRefinesLog
  <2>3. CASE UNCHANGED vars
    BY <2>3 DEF vars, nodeVars, clientVars, logHead, SoundNodes, SoundClients,
                logDecided, Certified, SignersOf, At, Log!logVars
  <2> QED
    BY <2>1, <2>2, <2>3 DEF Next
<1>3. Spec => []AInv
  BY InitAInv, NextAInv, PTL DEF Spec
<1> QED
  BY <1>1, <1>2, <1>3, PTL DEF Spec, ImplementsFinalityLog, Log!Spec
==============================================================================
