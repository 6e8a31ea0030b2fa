CONSTANTS
    None = None
    MaxBytes = 2
    Capacity = 1
    SnapBytes = 1
    WireCap = 1
    ChunkSizes <- MCChunkSizes
    MaxStream = 3
    MaxGen = 1
    MaxConnects = 2

SPECIFICATION Spec

\* The process may exit and the terminal be closed for good.
CHECK_DEADLOCK FALSE

INVARIANTS
    NoSilentHole
    SettledMeansComplete

PROPERTIES
    ExitEndsTheLoop
