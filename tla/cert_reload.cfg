SPECIFICATION FairReload
CONSTANTS
    v1 = v1  v2 = v2  s1 = s1  s2 = s2
    NoPair = NoPair
    Absent = Absent
    Version = {v1, v2}
    Stopper = {s1, s2}
    MaxWrites = 2
INVARIANTS NoMissedChange StopWaits
PROPERTIES EventuallyServed StopReturns
CHECK_DEADLOCK FALSE
