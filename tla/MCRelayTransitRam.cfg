\* The in-RAM store: ids start again at 1 after a restart.
SPECIFICATION TransitSpec
CONSTANTS
    Agent = {a1}
    Envelope = {e1, e2}
    Recipient <- OneMailbox
    MaxSessions = 2
    MaxRestarts = 1
    RecipientCap = 2
    ReplayBatch = 1
    Ttl = 1
    Durable = FALSE
SYMMETRY AlikeEnvelopes
INVARIANT AckedIsKept
CHECK_DEADLOCK FALSE
