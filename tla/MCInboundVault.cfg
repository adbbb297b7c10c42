\* The durable relay: two deposits, a connection that displaces another, a restart.
\* Frames: two relays, a DM sent to both and a group frame sent to one, a replay window of
\* one, one mishap.  Vault: four calls on one conversation, one death and one failing file
\* operation.  Custody: two files and the identity, two switches, two accidents.
SPECIFICATION VaultSpec
CONSTANTS
    Agent = {a1}
    Envelope = {e1, e2}
    Recipient <- OneMailbox
    MaxSessions = 2
    MaxRestarts = 1
    RecipientCap = 2
    ReplayBatch = 1
    Ttl = 1
    Durable = TRUE
    r1 = r1
    r2 = r2
    Relay = {r1, r2}
    f1 = f1
    f2 = f2
    Frame = {f1, f2}
    Kind <- OneOfEach
    Targets <- Broadcast
    Window = 1
    VaultMayFail = TRUE
    MaxMishaps = 1
    t1 = t1
    t2 = t2
    t3 = t3
    t4 = t4
    w = w
    m = m
    n = n
    Caller = {t1, t2, t3, t4}
    Update = {w, m, n}
    Scenarios <- Mixes
    MaxDeaths = 1
    MaxFailures = 1
    c1 = c1
    c2 = c2
    Conversation = {c1, c2}
    Identity = identity
    MaxPasses = 2
    MaxAccidents = 2
SYMMETRY AlikeEnvelopes
INVARIANTS TransitTypeOK AckedIsKept NoEntryUnnoticed NewestSessionServes
    TypeOK LostInTwoWays ReadOnce NoCopyForgotten
    VaultTypeOK UpdatesAreKept FailedLeavesNoTrace RecordedOnce VaultStaysReadable
CHECK_DEADLOCK FALSE
