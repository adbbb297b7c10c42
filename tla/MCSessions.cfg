\* Client: two sends under one key, a cap of two reconnect attempts, two contacts of which
\* the relay watches one, one other call, one fault.
\* Relay: three connections of two agents, three watches, one of them dropped.
\* Home: two relays, two moves, one hint, and one failure or the moves at the same time.
SPECIFICATION Spec
CONSTANTS
    s1 = s1
    s2 = s2
    c1 = c1
    c2 = c2
    Send = {s1, s2}
    KeyOf <- OneKey
    Contact = {c1, c2}
    Lists <- Both
    SessionCap = 1
    ReconnectCap = 2
    MaxGen = 2
    MaxCalls = 1
    MaxFaults = 1
    a1 = a1
    a2 = a2
    k1 = k1
    k2 = k2
    k3 = k3
    Peer = {a1, a2}
    Conn = {k1, k2, k3}
    PeerOf <- TwoAgents
    Watches <- TheWatches
    Fragile = {k1}
    WatchCap = 1
    MaxUnwatches = 1
    A = A
    B = B
    Relay = {A, B}
    FirstHome = A
    Advertised <- BothRelays
    Flow = {1, 2}
    MaxMoves = 2
    MaxTalks = 1
    MaxMisses = 1
INVARIANTS SessionsTypeOK AckedWasAccepted WatchesCarryOver LastWordIsTrue WatchIndexesAgree
    HomeTakesMail
PROPERTIES OnlyOwnSignal SendsEnd SilentIsReaped NoBlackHole SenderFinds
CHECK_DEADLOCK FALSE
