SPECIFICATION Spec
CONSTANTS
    Packets = {p1, p2, p3}
    NULL = NULL
    NBuffers = 2
    MaxCookie = 2
    OVERWRITE_SECS = 1
    MaxTime = 5
INVARIANT SavedOnce
