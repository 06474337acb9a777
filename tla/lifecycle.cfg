CONSTANTS
    Request = {q1, q2}
    Ctx = {c1, c2}
    Wrapper = {x1, x2, x3, x4}
    None = None
    App <- Applications
SYMMETRY Symmetry
CHECK_DEADLOCK FALSE
SPECIFICATION Spec
INVARIANTS RegistryExact ContextKept ValuesReachHandler ResponseFaithful MetricsTrue
