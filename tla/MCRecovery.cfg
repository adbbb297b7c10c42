\* Group: two joins, a log of three records in chunks of two, two setbacks of any kind, the
\* loss of a RAM log among them.
\* DM: one scheduled rotation, one mishap, epochs up to three.
SPECIFICATION Spec
CONSTANTS
    MaxJoins = 2
    LogCap = 3
    Chunk = 2
    MaxSetbacks = 2
    a = a
    b = b
    Creator = a
    Joiner = b
    HigherId = a
    MaxJump = 3
    Mobiles <- AtMostJoiner
    MaxEpoch = 3
    MaxAutos = 1
    MaxMishaps = 1
INVARIANTS RepairTypeOK CursorSkipsNothing SeqNamesOne SettledAgrees
PROPERTIES CatchesUp Heals
CHECK_DEADLOCK FALSE
