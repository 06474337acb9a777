SPECIFICATION Spec
CONSTANTS
    c1 = c1  c2 = c2
    Conn = {c1}
    ShutdownTimeout = 2
    MaxTime = 4
    ServeMayFail = FALSE
INVARIANT DrainGetsTimeout
CHECK_DEADLOCK FALSE
