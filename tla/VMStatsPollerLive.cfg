SPECIFICATION FairSpec
CONSTANTS
    k1 = k1  k2 = k2  n1 = n1  n2 = n2  p1 = p1  p2 = p2  p3 = p3
    Keys = {k1, k2}
    Nodes = {n1, n2}
    Pods = {p1, p2}
    PodNode <- MCPodNode
    PodIsHandler <- MCPodIsHandler
    NoNode = NoNode
    MaxUID <- MCMaxUIDOne
    MaxConcurrent = 1
INVARIANTS
    TypeOK
    PollNeverStuck
PROPERTIES
    PollTerminates
    CancelStops
    StaleEventuallyPruned
    EveryNodeIsAsked
