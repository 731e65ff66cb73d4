\* One table with three G-slots, where the quota per referrer and replacements
\* both bite; messages of three nodes that talk and one that does not, two calls
\* from outside, one loss.
SPECIFICATION MCSpec
CONSTANTS
    MaxId = 3
    NodeId <- MCNodeId
    Distance <- MCDistance
    max_greedy = 3
    self = 0
    Referrers = {1, 2}
    PexLists <- MCPexLists
    Links <- MCLinks
    Announced <- MCAnnounced
    RepairTargets <- MCRepairTargets
    Payloads = {x, y}
    MaxFind = 1
    Ttls = {1, 20}
    Channels <- MCChannels
    Dests = {2}
    Targets = {0}
    MaxInputs = 2
    MaxLosses = 1
    MaxMessageId = 1
CHECK_DEADLOCK FALSE
INVARIANTS QuotasHold OneReplacementPerTick TypeOK StoreIsBest
PROPERTIES ClosestSurvives IntroductionSurvivesLoss
