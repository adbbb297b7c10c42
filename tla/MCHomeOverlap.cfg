\* The home view of an agent with two flows at once; the other views are as small as they get.
SPECIFICATION Spec
CONSTANTS
    s1 = s1
    s2 = s2
    c1 = c1
    c2 = c2
    Send = {s1}
    KeyOf <- OneKey
    Contact = {c1, c2}
    Lists <- Both
    SessionCap = 1
    ReconnectCap = 2
    MaxGen = 2
    MaxCalls = 0
    MaxFaults = 0
    a1 = a1
    a2 = a2
    k1 = k1
    k2 = k2
    k3 = k3
    Peer = {a1, a2}
    Conn = {k3}
    PeerOf <- TwoAgents
    Watches = {}
    Fragile = {}
    WatchCap = 1
    MaxUnwatches = 0
    A = A
    B = B
    Relay = {A, B}
    FirstHome = A
    Advertised <- BothRelays
    Flow = {1, 2}
    MaxMoves = 2
    MaxTalks = 0
    MaxMisses = 1
INVARIANT PrimaryFollowsSlot
CHECK_DEADLOCK FALSE
