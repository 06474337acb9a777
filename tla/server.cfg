SPECIFICATION FairSpec
CONSTANTS
    c1 = c1  c2 = c2
    Conn = {c1, c2}
    ShutdownTimeout = 2
    MaxTime = 4
    ServeMayFail = TRUE
INVARIANTS EveryExitCleansUp NilMeansDrained
PROPERTY SignalEndsListen
CHECK_DEADLOCK FALSE
