\* The start-up of four nodes, two of them each other's seeds, with one crash; a
\* message of a client, a server or a node, with one broken or hanging connection.
SPECIFICATION MCSpec
CONSTANTS
    MaxId = 3
    NodeId <- MCNodeId
    Distance <- MCDistance
    max_greedy = 2
    Seeds <- MCSeeds
    MaxAttempts = 2
    MaxCrashes = 1
    Dest = 0
    Origins <- MCOrigins
    Knowledge <- MCKnowledge
    MaxFaults = 1
    NoNode = NoNode
CHECK_DEADLOCK FALSE
INVARIANTS KeepsClosest EverySlotHasUrl ReportIsTrue OncePerFault
PROPERTIES EveryNodeListens EveryMessageAnswered
