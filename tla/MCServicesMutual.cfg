\* Two servers call each other.
SPECIFICATION MCSpec
CONSTANTS
    s1 = s1
    s2 = s2
    c1 = c1
    c2 = c2
    c3 = c3
    Servers = {s1, s2}
    Calls = {c1, c2}
    Caller <- MCMutualCaller
    Callee <- MCMutualCallee
    MaxDuplicates = 1
    MaxRestarts = 0
    MaxCancels = 0
    n1 = n1
    n2 = n2
    dns = dns
    p1 = p1
    p2 = p2
    other = other
    junk = junk
    r1 = r1
    r2 = r2
    NoNode = NoNode
    Requests = {r1}
    Host <- MCHost
    Lower <- MCLower
    Nodes <- MCNodes
    Serves <- MCServes
    Junk = {junk}
    ZoneFile <- MCZoneFile
    Arguments <- MCArguments
    Networks <- MCNetworks
    MaxFaults = 0
    MaxStops = 0
CHECK_DEADLOCK FALSE
INVARIANTS AnswersMatch
