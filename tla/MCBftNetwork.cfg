\* A full node and a light client.
SPECIFICATION Spec
CONSTANTS
    v1 = v1
    v2 = v2
    byz = byz
    NodeId <- MCNodeId
    MaxWeight = 2
    Hash = {hA, hB}
    Byzantine = {byz}
    MaxHeight = 3
    RotateAt = 2
    MaxEpoch = 1
    Chain <- MCChain
    EpochOf <- MCEpochOf
    Nodes = {n1}
    GenesisHash = genesis0
    CandidateSets <- MCCandidates
    CountModulus = 2
    Clients = {c1}
    Referrers = {r1, r2}
    MaxCheckpoints = 1
    MaxVotes = 2
CONSTRAINT FewVotes
SYMMETRY Symmetry
INVARIANTS TypeOK Agreement EpochFollowsChain EpochsOrdered DivergencePauses CheckpointsSpentOnce PendingIsLive
PROPERTIES ImplementsFinalityLog
