SPECIFICATION FairSpec
CONSTANTS
    Request = {r1, r2}
    Writer = {t1, t2}
    Ctx = {c1, c2}
    NoRequest = NoRequest
INVARIANTS NoWriteAfterReturn PanicSurfaces WriterExclusive
PROPERTY DeadlineEnforced
CHECK_DEADLOCK FALSE
