----------------------- MODULE MCTimeoutMiddleware -----------------------
EXTENDS TimeoutMiddleware, TLC
=============================================================================
