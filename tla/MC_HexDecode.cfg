\* Inputs of up to 6 bytes over {1, a, F, z} cut into runs of 1 to 3 bytes:
\* every split of a digit pair, with skipped bytes between its digits.
CONSTANTS
    Chars = {"1", "a", "F", "z"}
    ChunkMax = 3
    MaxLen = 6
SPECIFICATION Spec
INVARIANT RoundTrip
CHECK_DEADLOCK FALSE
