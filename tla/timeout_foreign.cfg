SPECIFICATION Spec
CONSTANTS
    Request = {r1, r2}
    Writer = {t1, t2}
    Ctx = {c1, c2}
    NoRequest = NoRequest
INVARIANT LateWritesBlocked
CHECK_DEADLOCK FALSE
