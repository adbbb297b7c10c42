\* No failure of any kind: a held frame and a second copy of it.
SPECIFICATION Spec
CONSTANTS
    r1 = r1
    r2 = r2
    Relay = {r1, r2}
    f1 = f1
    f2 = f2
    Frame = {f1, f2}
    Kind <- AllGroup
    Targets <- Broadcast
    Window = 1
    VaultMayFail = FALSE
    MaxMishaps = 0
INVARIANT NeverLost
CHECK_DEADLOCK FALSE
