------------------------------ MODULE BftState -------------------------------
(***************************************************************************)
(* The finality state of full nodes (zona-p2p-bft/src/state.rs): which     *)
(* height is finalised, under which validator set, and whether finality is *)
(* paused.  One action per method; a call that returns Err or Ok(false)    *)
(* changes nothing and is a stuttering step.                               *)
(***************************************************************************)
EXTENDS Votes

CONSTANTS
    Nodes,            \* full nodes, each with a BftState
    CountModulus      \* divergence_count is kept modulo this (2^32 in the code)

ASSUME CountAssumption == CountModulus \in Nat \ {0, 1}

VARIABLES
    finalised_height, block_hash, epoch, validator_set, finality_status,
    divergence_count,
    \* history, read by properties only:
    finalised,        \* finalised[n]: the payloads n has finalised
    diverged,         \* diverged[n]: a divergence since the last resume
    misled            \* nodes that adopted a set with a digest not its own

nodeVars == <<finalised_height, block_hash, epoch, validator_set,
              finality_status, divergence_count, finalised, diverged, misled>>

FinalityStatus == {"Active", "Paused"}

NodeTypeOK ==
    /\ finalised_height \in [Nodes -> 0..MaxHeight]
    /\ block_hash \in [Nodes -> Hash \cup {GenesisHash}]
    /\ epoch \in [Nodes -> Epoch]
    /\ validator_set \in [Nodes -> ValidatorSet]
    /\ finality_status \in [Nodes -> FinalityStatus]
    /\ divergence_count \in [Nodes -> 0..(CountModulus - 1)]
    /\ finalised \in [Nodes -> SUBSET Payload]
    /\ diverged \in [Nodes -> BOOLEAN]
    /\ misled \in SUBSET Nodes

\* BftState::genesis, for every node.
genesis ==
    /\ finalised_height = [n \in Nodes |-> 0]
    /\ block_hash = [n \in Nodes |-> GenesisHash]
    /\ epoch = [n \in Nodes |-> Chain[0].epoch]
    /\ validator_set = [n \in Nodes |-> Chain[0]]
    /\ finality_status = [n \in Nodes |-> "Active"]
    /\ divergence_count = [n \in Nodes |-> 0]
    /\ finalised = [n \in Nodes |-> {}]
    /\ diverged = [n \in Nodes |-> FALSE]
    /\ misled = {}

\* Mutant: a certificate below the finalised height is applied.
ApplyAnyHeight(n, cert) ==
    /\ finality_status[n] = "Active"
    /\ verify(cert, validator_set[n], SignersOf(cert.payload))
    /\ finalised_height' = [finalised_height EXCEPT ![n] = cert.payload.height]
    /\ block_hash' = [block_hash EXCEPT ![n] = cert.payload.block_hash]
    /\ finalised' = [finalised EXCEPT ![n] = @ \cup {cert.payload}]
    /\ UNCHANGED <<epoch, validator_set, finality_status, divergence_count,
                   diverged, misled>>

apply_certificate(n, cert) ==
    /\ finality_status[n] = "Active"
    /\ verify(cert, validator_set[n], SignersOf(cert.payload))
    /\ cert.payload.height > finalised_height[n]
    /\ finalised_height' = [finalised_height EXCEPT ![n] = cert.payload.height]
    /\ block_hash' = [block_hash EXCEPT ![n] = cert.payload.block_hash]
    /\ finalised' = [finalised EXCEPT ![n] = @ \cup {cert.payload}]
    /\ UNCHANGED <<epoch, validator_set, finality_status, divergence_count,
                   diverged, misled>>

\* The header's own epoch and validator_set_hash are not read, and the digest
\* that new_set carries is compared, never computed.
advance_epoch(n, new_set, header) ==
    /\ verify_next_set(header, new_set)
    /\ new_set.epoch = epoch[n] + 1
    /\ epoch' = [epoch EXCEPT ![n] = new_set.epoch]
    /\ validator_set' = [validator_set EXCEPT ![n] = new_set]
    /\ misled' = IF WellHashed(new_set) THEN misled ELSE misled \cup {n}
    /\ UNCHANGED <<finalised_height, block_hash, finality_status,
                   divergence_count, finalised, diverged>>

\* Mutant: the status follows the counter, wrapped or not.
DivergenceByCount(n) ==
    /\ divergence_count' =
          [divergence_count EXCEPT ![n] = (@ + 1) % CountModulus]
    /\ finality_status' =
          [finality_status EXCEPT ![n] =
              IF divergence_count'[n] >= 1 THEN "Paused" ELSE "Active"]
    /\ diverged' = [diverged EXCEPT ![n] = TRUE]
    /\ UNCHANGED <<finalised_height, block_hash, epoch, validator_set,
                   finalised, misled>>

\* divergence_count is a u32: in a release build the increment wraps.
record_divergence(n) ==
    /\ divergence_count' =
          [divergence_count EXCEPT ![n] = (@ + 1) % CountModulus]
    /\ finality_status' =
          [finality_status EXCEPT ![n] =
              IF divergence_count'[n] >= 1 /\ @ = "Active" THEN "Paused" ELSE @]
    /\ diverged' = [diverged EXCEPT ![n] = TRUE]
    /\ UNCHANGED <<finalised_height, block_hash, epoch, validator_set,
                   finalised, misled>>

resume_finality(n) ==
    /\ divergence_count' = [divergence_count EXCEPT ![n] = 0]
    /\ finality_status' = [finality_status EXCEPT ![n] = "Active"]
    /\ diverged' = [diverged EXCEPT ![n] = FALSE]
    /\ UNCHANGED <<finalised_height, block_hash, epoch, validator_set,
                   finalised, misled>>

is_final(n, h) == finality_status[n] = "Active" /\ h <= finalised_height[n]

NodeNext ==
    \E n \in Nodes :
        \/ \E cert \in Certificate : apply_certificate(n, cert)
        \/ \E new_set \in CandidateSets, header \in Headers :
              advance_epoch(n, new_set, header)
        \/ record_divergence(n)
        \/ resume_finality(n)
==============================================================================
