CONSTANTS
    None = None
    MaxBytes = 3
    PageBytes = 2
    ChunkSizes <- MCChunkSizes
    MaxStream = 7
    MaxEpoch = 1

SPECIFICATION Spec

INVARIANTS
    TypeOK
    HistoryIsSuffix
    PagesHoldTheirBytes
    PagesJoin
    EndIsReal
