SPECIFICATION Spec
CONSTANTS
    b1 = b1
    b2 = b2
    p1 = p1
    Bubble = {b1, b2}
    Peer = {p1}
    PeerOf <- OnePeer
    GroupCopies = {}
    WithImage = {b1, b2}
    AttachmentCap = 1
    PriorCap = 1
    StallAge = 1
    BackoffBase = 1
    BackoffMax = 1
    MaxDoublings = 0
    OnLan = {}
    MaxCopies = 1
    VaultMayFail = FALSE
SYMMETRY AlikeMessages
INVARIANTS
    AttachmentsBounded
    ClaimGuardsFirstSend
