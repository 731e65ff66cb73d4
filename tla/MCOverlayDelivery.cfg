\* Messages of two hops, without losses.
SPECIFICATION MCSpec
CONSTANTS
    MaxId = 3
    NodeId <- MCNodeId
    Distance <- MCDistance
    max_greedy = 3
    self = 0
    Referrers = {1, 2}
    PexLists <- MCPexLists
    Links <- MCLinks
    Announced <- MCAnnounced
    RepairTargets <- MCRepairTargets
    Payloads = {x, y}
    MaxFind = 1
    Ttls = {1, 20}
    Channels <- MCChannels
    Dests = {2}
    Targets = {0}
    MaxInputs = 2
    MaxLosses = 0
    MaxMessageId = 1
CHECK_DEADLOCK FALSE
INVARIANTS DeliveredAtDestination
