SPECIFICATION Spec
CONSTANTS
    f1 = f1
    f2 = f2
    None = None
    Forms = {f1, f2}
    FAILURE_THRESHOLD = 3
    WINDOW = 3
    LOCKOUT = 3
    Verification = 2
    LimitRetry = 1
    MaxTime = 7
    MaxAttempts = 6
SYMMETRY Symmetry
INVARIANTS
    FailuresLock
    LockIsEarned
    CountdownCoversLock
CHECK_DEADLOCK FALSE
