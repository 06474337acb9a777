SPECIFICATION FairThrottle
CONSTANTS
    Goroutine = {r1, r2, r3, r4, r5}
    MaxConcurrent = 2
    QueueSize = 2
INVARIANTS NoTokenLeak NoIdleSlot
PROPERTY EveryoneDecided
