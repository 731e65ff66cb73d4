---------------------------- MODULE ValidatorSets ----------------------------
(***************************************************************************)
(* Validator sets, certificates and epoch headers of the zona-p2p-bft      *)
(* crate: the pure checks that full nodes (BftState) and light clients     *)
(* (LightClient) share.                                                    *)
(*                                                                         *)
(* Data abstraction.  A SHA-256 digest is the value that it digests (no    *)
(* collisions).  The set_hash of a ValidatorSet is nevertheless a field of *)
(* its own: ValidatorSet::new computes it, a deserialised set carries what *)
(* its sender wrote, and no check computes it again.  A list of signatures *)
(* is the set of its signers: verify_quorum counts a signer once, whatever *)
(* the order (module VerifyQuorum models the loop over the list and checks *)
(* that it decides the same).  A signature over a payload verifies when    *)
(* the signer has signed that payload.                                     *)
(***************************************************************************)
EXTENDS Naturals, FiniteSets

CONSTANTS
    NodeId,      \* identities that may appear as validators or as signers
    MaxWeight,   \* the largest weight of one validator (u64 in the code)
    Hash         \* block hashes

ASSUME NodeIdAssumption == IsFiniteSet(NodeId)
ASSUME MaxWeightAssumption == MaxWeight \in Nat

(***************************************************************************)
(* A validator set: its epoch, a weight for each member, and a digest.     *)
(***************************************************************************)
Entries == UNION {[members -> 0..MaxWeight] : members \in SUBSET NodeId}
SetHash == Nat \X Entries
ValidatorSet == [epoch : Nat, entries : Entries, set_hash : SetHash]

compute_set_hash(e, entries) == <<e, entries>>

\* ValidatorSet::new.
NewSet(e, entries) ==
    [epoch |-> e, entries |-> entries,
     set_hash |-> compute_set_hash(e, entries)]

\* The digest that the set carries is that of its contents.
WellHashed(vs) == vs.set_hash = compute_set_hash(vs.epoch, vs.entries)

Members(vs) == DOMAIN vs.entries

(***************************************************************************)
(* The sum of the weights of the members in S, as the number of weight     *)
(* units <<member, i>> with 1 <= i <= weight.  Counting units instead of   *)
(* folding over S is what lets the additivity of weights be proved.        *)
(***************************************************************************)
Units(vs, S) == {u \in S \X (1..MaxWeight) : u[2] <= vs.entries[u[1]]}
WeightOf(vs, S) == Cardinality(Units(vs, S))

total_weight(vs) == WeightOf(vs, Members(vs))

\* Mutant: the threshold of `at least two thirds'.
QuorumRoundedDown(vs) == (2 * total_weight(vs)) \div 3

quorum_threshold(vs) == (2 * total_weight(vs)) \div 3 + 1

(***************************************************************************)
(* verify_quorum: every signer is known, every signature is genuine and    *)
(* the signers' weight reaches the threshold.  `genuine' is the set of the *)
(* nodes whose signature over the message verifies.                        *)
(***************************************************************************)
verify_quorum(vs, signers, genuine) ==
    /\ signers \subseteq Members(vs)
    /\ signers \subseteq genuine
    /\ WeightOf(vs, signers) >= quorum_threshold(vs)

(***************************************************************************)
(* What validators sign, and a certificate over it.                        *)
(***************************************************************************)
CertPayload == [epoch : Nat, height : Nat, block_hash : Hash]
BftCertificate == [payload : CertPayload, signers : SUBSET NodeId]

\* Mutant: the certificate's epoch is not compared with the set's.
VerifyAnyEpoch(cert, vs, genuine) == verify_quorum(vs, cert.signers, genuine)

verify(cert, vs, genuine) ==
    /\ cert.payload.epoch = vs.epoch
    /\ verify_quorum(vs, cert.signers, genuine)

(***************************************************************************)
(* Epoch headers.  next_validator_commitment is an Option: the set of the  *)
(* committed hashes, with at most one element.  published_at_height is     *)
(* never read by the code.                                                 *)
(***************************************************************************)
EpochHeader ==
    [epoch : Nat, validator_set_hash : SetHash,
     next_validator_commitment : {{}} \cup {{hash} : hash \in SetHash}]

NewHeader(current, next) ==
    [epoch |-> current.epoch,
     validator_set_hash |-> current.set_hash,
     next_validator_commitment |-> {vs.set_hash : vs \in next}]

\* Mutant: a header without a commitment allows any next set.
NextSetUnlessCommitted(header, next_vs) ==
    header.next_validator_commitment \in {{}, {next_vs.set_hash}}

verify_next_set(header, next_vs) ==
    header.next_validator_commitment = {next_vs.set_hash}
==============================================================================
