SPECIFICATION Spec
CONSTANTS
    r1 = r1  r2 = r2  r3 = r3
    Request = {r1, r2, r3}
    Key = {k1}
    Payload = {p1, p2}
    NoHash = NoHash
    NoResponse = NoResponse
    HashRequestBody = TRUE
    ConflictBehaviors = {"wait", "reject"}
    WaitMayTimeOut = TRUE
    Outcomes = {"ok", "uncached", "overflow", "error", "panic"}
    LockTTL = 2
    TTL = 1
    MaxTime = 4
    RedisMayFail = TRUE
    MayCrash = TRUE
    LockOutlives = TRUE
SYMMETRY Symmetry
INVARIANTS MutualExclusion NoMissedSave NoStrayLock ReplayFaithful
CHECK_DEADLOCK FALSE
