SPECIFICATION Spec
CONSTANTS
    m1 = m1  m2 = m2  m3 = m3  m4 = m4  m5 = m5  m6 = m6
    Msg = {m1, m2, m3, m4, m5, m6}
    Key = {"n1", "n2", "n3"}
    Delivery = {d1, d2}
    Class <- MCClass
    KeyOf <- MCKeyOf
    Ts <- MCTs
    SkewSeconds = 1
    NonceTTL = 4
    MaxEntries = 2
    MaxDelay = 1
    MaxTime = 7
    MaxInserts = 5
INVARIANTS NoReplay ReplayNeedsFlood
SYMMETRY Symmetry
CHECK_DEADLOCK FALSE
