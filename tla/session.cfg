SPECIFICATION Spec
CONSTANTS
    Request = {r1, r2, r3}
    MaxId = 3
    MaxFlight = 2
    MaxOps = 3
    MaxFaults = 1
INVARIANTS NoFixation ElevationFresh LogoutSticks ResponseTells FlashOnce SerialSession
SYMMETRY Symmetry
CHECK_DEADLOCK FALSE
