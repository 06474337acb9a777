----------------------- MODULE MCIdempotencyRedis -----------------------
EXTENDS IdempotencyRedis, TLC
CONSTANTS r1, r2, r3
Symmetry == Permutations(Request)
=============================================================================
