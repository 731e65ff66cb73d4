---------------------------- MODULE MCBftNetwork -----------------------------
(***************************************************************************)
(* BftNetwork for TLC: two epochs whose validators have other weights, a   *)
(* Byzantine validator in both; epoch 0 decides the heights up to RotateAt.*)
(***************************************************************************)
EXTENDS BftNetwork, TLC

CONSTANTS v1, v2, byz,
          RotateAt,  \* the last height that epoch 0 decides
          MaxVotes   \* bound: signatures of correct validators in a behaviour

MCEpochOf == [h \in 1..MaxHeight |-> IF h <= RotateAt THEN 0 ELSE 1]

\* Three weighted validators: total 4, threshold 3 in both epochs, and v1 and
\* v2 trade weights.
MCNodeId == {v1, v2, byz}
MCSet(e, heavy) ==
    NewSet(e, [v \in MCNodeId |-> IF v = heavy THEN 2 ELSE 1])
MCChain ==
    [e \in 0..MaxEpoch |-> IF e = 0 THEN MCSet(0, v1) ELSE MCSet(1, v2)]
\* Sets that no header commits to, sets for an epoch too far ahead, and a set
\* of other validators that carries the digest of the next epoch's set.
MCOtherSet == [MCSet(1, byz) EXCEPT !.set_hash = MCChain[1].set_hash]
MCCandidates ==
    {MCSet(e, heavy) : e \in 0..2, heavy \in {v1, v2}} \cup {MCOtherSet}

\* State constraint.  With v1 heavy in epoch 0 and v2 in epoch 1, each needs only
\* byz beside it: two votes are two certificates, of one epoch or of both, or a
\* disputed height, or a height signed by all.
\* The node or the client may be misled, not both: they share no state.
FewVotes ==
    /\ Cardinality(UNION {{v} \X votes[v] : v \in Correct}) <= MaxVotes
    /\ Cardinality(misled \cup lc_misled) <= 1

Symmetry == Permutations(Hash)
==============================================================================
