\* A process death between the two vault writes of a direct message.
SPECIFICATION Spec
CONSTANTS
    r1 = r1
    r2 = r2
    Relay = {r1, r2}
    f1 = f1
    f2 = f2
    Frame = {f1, f2}
    Kind <- AllDm
    Targets <- Broadcast
    Window = 1
    VaultMayFail = FALSE
    MaxMishaps = 1
INVARIANT ConfirmAfterPersist
CHECK_DEADLOCK FALSE
