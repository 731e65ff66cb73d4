-------------------------------- MODULE Votes --------------------------------
(***************************************************************************)
(* What the validators have signed.  The rounds of the consensus protocol  *)
(* are outside this repository (zona-p2p-bft/src/lib.rs, "What this crate  *)
(* does NOT include"), so signing is external: a correct validator signs   *)
(* in the epoch it is a member of, for the heights of that epoch, and at   *)
(* most one block per height.  A Byzantine validator is taken to have      *)
(* signed every payload from the start.                                    *)
(***************************************************************************)
EXTENDS ValidatorSets

CONSTANTS
    Byzantine,   \* validators that sign anything
    MaxHeight,   \* bound: heights are 1..MaxHeight
    MaxEpoch,    \* bound: epochs are 0..MaxEpoch
    Chain,       \* Chain[e]: the validator set that epoch e really has
    EpochOf,     \* EpochOf[h]: the epoch whose validators decide height h
    CandidateSets, \* validator sets that callers hand to advance_epoch: built
                   \* by ValidatorSet::new, or deserialised with any set_hash
    GenesisHash  \* block hash of height 0

VARIABLE votes   \* votes[v]: the payloads that the correct validator v signed

Height == 1..MaxHeight
Epoch == 0..MaxEpoch

ASSUME BoundsAssumption == MaxHeight \in Nat /\ MaxEpoch \in Nat

ASSUME ChainAssumption ==
    /\ Byzantine \subseteq NodeId
    /\ Chain \in [Epoch -> ValidatorSet]
    /\ \A e \in Epoch : Chain[e].epoch = e /\ WellHashed(Chain[e])
    /\ EpochOf \in [Height -> Epoch]
    /\ CandidateSets \subseteq ValidatorSet
    \* Bound: a set whose digest is not its own is within the epochs.
    /\ \A vs \in CandidateSets : WellHashed(vs) \/ vs.epoch \in Epoch

\* At most a third of each epoch's weight is Byzantine: with the committee of
\* ValidatorSet's comment (n = 21, f <= 6), 3 * 6 <= 21.
ASSUME FaultAssumption ==
    \A e \in Epoch :
        3 * WeightOf(Chain[e], Byzantine \cap Members(Chain[e]))
            <= total_weight(Chain[e])

Correct == NodeId \ Byzantine
\* The payloads that exist within the bounds: what epoch, height and hash a
\* certificate may carry.
Payload == [epoch : Epoch, height : Height, block_hash : Hash]
Certificate == [payload : Payload, signers : SUBSET NodeId]

\* The nodes whose signature over p verifies.
SignersOf(p) == Byzantine \cup {v \in Correct : p \in votes[v]}

\* The headers that the finalised log carries, one per epoch; the last epoch's
\* header has no successor to commit to.
Headers ==
    {NewHeader(Chain[e], IF e < MaxEpoch THEN {Chain[e + 1]} ELSE {}) :
        e \in Epoch}

VotesTypeOK == votes \in [Correct -> SUBSET Payload]

VotesInit == votes = [v \in Correct |-> {}]

\* External: the consensus round in which v signs p.
Sign(v, p) ==
    /\ p.epoch = EpochOf[p.height]
    /\ v \in Members(Chain[p.epoch])
    /\ \A q \in votes[v] : q.height # p.height
    /\ votes' = [votes EXCEPT ![v] = @ \cup {p}]

\* p has been signed by a quorum of the validators of its epoch: some
\* certificate over p verifies.
Certified(p) ==
    LET vs == Chain[p.epoch]
    IN  WeightOf(vs, SignersOf(p) \cap Members(vs)) >= quorum_threshold(vs)
==============================================================================
