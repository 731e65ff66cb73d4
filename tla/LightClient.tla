----------------------------- MODULE LightClient -----------------------------
(***************************************************************************)
(* Light clients (zona-p2p-bft/src/light_client.rs): a client trusts a     *)
(* certified header once two channels with different referrers reported    *)
(* it, or one channel and an external checkpoint did.  One action per      *)
(* method; a rejected or stale observation is a stuttering step.           *)
(***************************************************************************)
EXTENDS Votes

CONSTANTS
    Clients,          \* light clients
    Referrers,        \* referrer_ids of the channels
    MaxCheckpoints    \* bound on the external checkpoints given to a client

ASSUME CheckpointsAssumption == MaxCheckpoints \in Nat

VARIABLES
    best_height, best_hash, lc_validator_set,
    pending,          \* pending[c][key]: referrers that reported the key
    has_external_checkpoint,
    \* history, read by properties only:
    accepted,         \* accepted[c]: the payloads that advanced the best header
    provided,         \* checkpoints given to c
    lone,             \* headers that c accepted on the word of one channel
    lc_misled         \* clients that adopted a set with a digest not its own

clientVars == <<best_height, best_hash, lc_validator_set, pending,
                has_external_checkpoint, accepted, provided, lone, lc_misled>>

Key == Height \X Hash

ClientTypeOK ==
    /\ best_height \in [Clients -> 0..MaxHeight]
    /\ best_hash \in [Clients -> Hash \cup {GenesisHash}]
    /\ lc_validator_set \in [Clients -> ValidatorSet]
    /\ pending \in [Clients -> [Key -> SUBSET Referrers]]
    /\ has_external_checkpoint \in [Clients -> BOOLEAN]
    /\ accepted \in [Clients -> SUBSET Payload]
    /\ provided \in [Clients -> 0..MaxCheckpoints]
    /\ lone \in [Clients -> Nat]
    /\ lc_misled \in SUBSET Clients

from_genesis ==
    /\ best_height = [c \in Clients |-> 0]
    /\ best_hash = [c \in Clients |-> GenesisHash]
    /\ lc_validator_set = [c \in Clients |-> Chain[0]]
    /\ pending = [c \in Clients |-> [key \in Key |-> {}]]
    /\ has_external_checkpoint = [c \in Clients |-> FALSE]
    /\ accepted = [c \in Clients |-> {}]
    /\ provided = [c \in Clients |-> 0]
    /\ lone = [c \in Clients |-> 0]
    /\ lc_misled = {}

provide_external_checkpoint(c) ==
    /\ provided[c] < MaxCheckpoints
    /\ has_external_checkpoint' = [has_external_checkpoint EXCEPT ![c] = TRUE]
    /\ provided' = [provided EXCEPT ![c] = @ + 1]
    /\ UNCHANGED <<best_height, best_hash, lc_validator_set, pending,
                   accepted, lone, lc_misled>>

\* The referrers of key once referrer r has reported it too.
Confirming(c, key, r) == pending[c][key] \cup {r}

Sufficient(c, refs) ==
    Cardinality(refs) >= 2 \/ has_external_checkpoint[c]

\* Mutant: an accepted header leaves the checkpoint in place.
AcceptKeepingCheckpoint(c, cert, r) ==
    LET height == cert.payload.height
        key == <<height, cert.payload.block_hash>>
        refs == Confirming(c, key, r)
    IN  /\ verify(cert, lc_validator_set[c], SignersOf(cert.payload))
        /\ height > best_height[c]
        /\ Sufficient(c, refs)
        /\ best_height' = [best_height EXCEPT ![c] = height]
        /\ best_hash' = [best_hash EXCEPT ![c] = cert.payload.block_hash]
        /\ pending' =
              [pending EXCEPT ![c] =
                  [k \in Key |-> IF k[1] > height THEN @[k] ELSE {}]]
        /\ accepted' = [accepted EXCEPT ![c] = @ \cup {cert.payload}]
        /\ lone' = [lone EXCEPT ![c] =
                       IF Cardinality(refs) < 2 THEN @ + 1 ELSE @]
        /\ UNCHANGED <<lc_validator_set, provided, has_external_checkpoint,
                       lc_misled>>

\* Mutant: an accepted header evicts only its own key.
AcceptKeepingPending(c, cert, r) ==
    LET height == cert.payload.height
        key == <<height, cert.payload.block_hash>>
        refs == Confirming(c, key, r)
    IN  /\ verify(cert, lc_validator_set[c], SignersOf(cert.payload))
        /\ height > best_height[c]
        /\ Sufficient(c, refs)
        /\ best_height' = [best_height EXCEPT ![c] = height]
        /\ best_hash' = [best_hash EXCEPT ![c] = cert.payload.block_hash]
        /\ has_external_checkpoint' =
              [has_external_checkpoint EXCEPT ![c] = FALSE]
        /\ pending' = [pending EXCEPT ![c][key] = {}]
        /\ accepted' = [accepted EXCEPT ![c] = @ \cup {cert.payload}]
        /\ lone' = [lone EXCEPT ![c] =
                       IF Cardinality(refs) < 2 THEN @ + 1 ELSE @]
        /\ UNCHANGED <<lc_validator_set, provided, lc_misled>>

\* An observation that advances the best header.
observe_accepted(c, cert, r) ==
    LET height == cert.payload.height
        key == <<height, cert.payload.block_hash>>
        refs == Confirming(c, key, r)
    IN  /\ verify(cert, lc_validator_set[c], SignersOf(cert.payload))
        /\ height > best_height[c]
        /\ Sufficient(c, refs)
        /\ best_height' = [best_height EXCEPT ![c] = height]
        /\ best_hash' = [best_hash EXCEPT ![c] = cert.payload.block_hash]
        /\ has_external_checkpoint' =
              [has_external_checkpoint EXCEPT ![c] = FALSE]
        /\ pending' =
              [pending EXCEPT ![c] =
                  [k \in Key |-> IF k[1] > height THEN @[k] ELSE {}]]
        /\ accepted' = [accepted EXCEPT ![c] = @ \cup {cert.payload}]
        /\ lone' = [lone EXCEPT ![c] =
                       IF Cardinality(refs) < 2 THEN @ + 1 ELSE @]
        /\ UNCHANGED <<lc_validator_set, provided, lc_misled>>

\* An observation that is remembered until another channel confirms it.
observe_pending(c, cert, r) ==
    LET height == cert.payload.height
        key == <<height, cert.payload.block_hash>>
        refs == Confirming(c, key, r)
    IN  /\ verify(cert, lc_validator_set[c], SignersOf(cert.payload))
        /\ height > best_height[c]
        /\ ~Sufficient(c, refs)
        /\ pending' = [pending EXCEPT ![c][key] = refs]
        /\ UNCHANGED <<best_height, best_hash, lc_validator_set,
                       has_external_checkpoint, accepted, provided, lone,
                       lc_misled>>

observe(c, cert, r) == observe_accepted(c, cert, r) \/ observe_pending(c, cert, r)

\* Observations pending from the old epoch are kept.
lc_advance_epoch(c, new_set, header) ==
    /\ verify_next_set(header, new_set)
    /\ new_set.epoch = lc_validator_set[c].epoch + 1
    /\ lc_validator_set' = [lc_validator_set EXCEPT ![c] = new_set]
    /\ lc_misled' = IF WellHashed(new_set) THEN lc_misled ELSE lc_misled \cup {c}
    /\ UNCHANGED <<best_height, best_hash, pending, has_external_checkpoint,
                   accepted, provided, lone>>

ClientNext ==
    \E c \in Clients :
        \/ \E cert \in Certificate, r \in Referrers : observe(c, cert, r)
        \/ \E new_set \in CandidateSets, header \in Headers :
              lc_advance_epoch(c, new_set, header)
        \/ provide_external_checkpoint(c)
==============================================================================
