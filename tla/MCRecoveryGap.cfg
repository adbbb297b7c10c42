\* One join, no setback of any kind: the owner's two records are in the log.
SPECIFICATION Spec
CONSTANTS
    MaxJoins = 1
    LogCap = 3
    Chunk = 2
    MaxSetbacks = 0
    a = a
    b = b
    Creator = a
    Joiner = b
    HigherId = a
    MaxJump = 3
    Mobiles <- AtMostJoiner
    MaxEpoch = 1
    MaxAutos = 0
    MaxMishaps = 0
PROPERTY RecoversFromLog
CHECK_DEADLOCK FALSE
