SPECIFICATION Spec
CONSTANTS
    Request = {r1, r2}
    Limit = 2
    Cost = 2
    Burst = 3
    slidingBuckets = 4
    subWindow = 1
    EntryTTL = 4
    MaxDelay = 1
    MaxTime = 9
    MaxLog = 6
INVARIANTS RateBound DenialEarned SlidingExact
SYMMETRY Symmetry
CHECK_DEADLOCK FALSE
