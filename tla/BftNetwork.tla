----------------------------- MODULE BftNetwork ------------------------------
(***************************************************************************)
(* Full nodes and light clients of one network, which meet only through    *)
(* the certificates that the validators' signatures make possible.  A      *)
(* certificate may reach a node or a client late, repeatedly, in any order *)
(* or never, whatever the receiver's epoch is.                             *)
(***************************************************************************)
EXTENDS BftState, LightClient

ASSUME ReadersAssumption == Nodes \cap Clients = {}

vars == <<votes, nodeVars, clientVars>>

Init == VotesInit /\ genesis /\ from_genesis

Next ==
    \/ \E v \in Correct, p \in Payload :
          Sign(v, p) /\ UNCHANGED <<nodeVars, clientVars>>
    \/ NodeNext /\ UNCHANGED <<votes, clientVars>>
    \/ ClientNext /\ UNCHANGED <<votes, nodeVars>>

Spec == Init /\ [][Next]_vars

-----------------------------------------------------------------------------
(***************************************************************************)
(* Properties.                                                             *)
(***************************************************************************)

\* Every variable keeps its type: heights, epochs and the divergence counter
\* stay within their ranges.
TypeOK == VotesTypeOK /\ NodeTypeOK /\ ClientTypeOK

\* The payload that decides height h with block x.
At(h, x) == [epoch |-> EpochOf[h], height |-> h, block_hash |-> x]

\* The readers that only ever adopted validator sets whose set_hash is the
\* digest of their contents, as ValidatorSet::new makes them.
SoundNodes == Nodes \ misled
SoundClients == Clients \ lc_misled

\* Everything such a full node has finalised or such a light client accepted.
Settled ==
    UNION ({finalised[n] : n \in SoundNodes}
              \cup {accepted[c] : c \in SoundClients})

\* No two full nodes or light clients ever settle on different blocks for one
\* height, although certificates arrive in any order, heights are skipped, and
\* each advances its epoch on its own (apply_certificate and observe never
\* compare hashes: only the quorum rule keeps them together).  Readers that
\* took a set with another set's digest settle on anything, the others do not.
Agreement ==
    \A p, q \in Settled : p.height = q.height => p.block_hash = q.block_hash

\* As long as the sets handed to advance_epoch come from ValidatorSet::new, a
\* node's or a client's set is the one its epoch really has, though
\* advance_epoch reads neither the header's epoch nor its validator_set_hash
\* and is handed sets and headers of other epochs.
EpochFollowsChain ==
    /\ \A n \in Nodes : epoch[n] = validator_set[n].epoch
    /\ \A n \in SoundNodes : validator_set[n] = Chain[epoch[n]]
    /\ \A c \in SoundClients :
          lc_validator_set[c] = Chain[lc_validator_set[c].epoch]

\* What verify_next_set's comment says it is called for: a node or a client is
\* never fed a validator set that the chain did not commit to, whoever made it.
NeverFedAnotherSet ==
    /\ \A n \in Nodes : validator_set[n] \in {Chain[e] : e \in Epoch}
    /\ \A c \in Clients : lc_validator_set[c] \in {Chain[e] : e \in Epoch}

\* Whatever a node finalised was certified by the validators of an epoch the
\* node had reached, and later heights never belong to earlier epochs: a stale
\* certificate of a past epoch is not applied after the rotation.
EpochsOrdered ==
    \A n \in Nodes : \A p, q \in finalised[n] :
        /\ p.epoch <= epoch[n]
        /\ p.height < q.height => p.epoch <= q.epoch

\* record_divergence keeps finality paused until resume_finality, even when
\* the u32 counter of divergences wraps around to zero.
DivergencePauses ==
    \A n \in Nodes : diverged[n] <=> finality_status[n] = "Paused"

\* A light client accepts on the word of a single channel at most once per
\* external checkpoint that it was given.
CheckpointsSpentOnce ==
    \A c \in Clients :
        lone[c] + (IF has_external_checkpoint[c] THEN 1 ELSE 0) <= provided[c]

\* What a light client keeps pending is above its best header and still short
\* of the two channels that would have made it accept; it was certified by the
\* validators of its epoch when the client's sets are the chain's.
PendingIsLive ==
    \A c \in Clients : \A key \in Key :
        pending[c][key] # {} =>
            /\ key[1] > best_height[c]
            /\ Cardinality(pending[c][key]) = 1
            /\ c \in SoundClients => Certified(At(key[1], key[2]))

(***************************************************************************)
(* The network implements an append-only log of one block per height, read *)
(* by the full nodes and the light clients: a height is decided when some  *)
(* block has a quorum of signatures at that height.                        *)
(***************************************************************************)
logDecided ==
    [h \in Height |-> {x \in Hash : Certified(At(h, x))}]

logHead ==
    [r \in SoundNodes \cup SoundClients |->
        IF r \in Nodes THEN <<finalised_height[r], block_hash[r]>>
                       ELSE <<best_height[r], best_hash[r]>>]

Log == INSTANCE FinalityLog WITH
          Readers <- Nodes \cup Clients, decided <- logDecided, head <- logHead

\* apply_certificate and observe together implement the log: heads only move
\* up, only to decided blocks, and a height once decided keeps its block; a
\* reader that adopts a set with a digest not its own leaves the log.
ImplementsFinalityLog == Log!Spec
==============================================================================
