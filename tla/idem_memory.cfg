SPECIFICATION FairSpec
CONSTANTS
    r1 = r1  r2 = r2  r3 = r3
    Request = {r1, r2, r3}
    Key = {k1}
    Payload = {p1, p2}
    NoHash = NoHash
    NoResponse = NoResponse
    NoEntry = NoEntry
    HashRequestBody = TRUE
    ConflictBehaviors = {"wait", "reject"}
    WaitMayTimeOut = TRUE
    Outcomes = {"ok", "uncached", "overflow", "error", "panic"}
    TTL = 1
    MaxTime = 3
    SlowFlush = FALSE
INVARIANTS MutualExclusion NoSecondRun NoLostWaiter ReplayFaithful
PROPERTIES KeepsPromise EveryRequestAnswered
CHECK_DEADLOCK FALSE
