\* Lists of four signatures and four samples; lists end.  Training ends at two
\* samples, or when both routes have one.  An earlier run may have left a sample
\* of each route.  One restart of the host, one exit of zona, one failed
\* exchange, one disk error.
SPECIFICATION MCSpec
CONSTANTS
    a = a
    b = b
    c = c
    d = d
    NodeId <- MCNodeId
    MaxWeight = 3
    Hash = {hA}
    EntryLists <- MCEntryLists
    MaxSignatures = 4
    Modulus = 16
    Keys = {k1, k2}
    Samples <- MCSamples
    MinSamples = 2
    MaxSamples = 4
    None = None
    Lengths = {0, 1, 2, 3, 5, 6}
    Ratios = {NoRatio, 0, 30, 50, 100}
    NoRatio = NoRatio
    Marker = 2
    ByteBits = 2
    a1 = a1
    a2 = a2
    b1 = b1
    b2 = b2
    A = A
    B = B
    Requests <- MCRequests
    Routes = {A, B}
    RouteOf <- MCRouteOf
    min_samples = 1
    total_threshold = 2
    min_ready_routes = 2
    data_path = TRUE
    Earlier = {a1, b1}
    MaxRestarts = 1
    MaxCrashes = 1
    MaxFailures = 1
    MaxDiskErrors = 1
CHECK_DEADLOCK FALSE
INVARIANTS LoopDecidesQuorum ProfilesAreQuantiles ExampleFitsVariant RecordedOnce CompleteMeansReady StatusNeverOverclaims AtMostOneLate HaltMeansComplete
PROPERTIES GateCloses
