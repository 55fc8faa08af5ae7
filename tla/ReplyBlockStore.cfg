\* Three fingerprints, LRU of two, deques of two, five blocks.
CONSTANTS
    Fps = {f1, f2, f3}
    Size = 2
    DequeCap = 2
    MaxBlocks = 5
    MaxBatch = 3
SPECIFICATION Spec
INVARIANT TypeOK
PROPERTY ImplementsSpec
PROPERTY EvictsLeastRecentlyUsed
