CONSTANTS
    MaxReceivers = 104
    ChunkSizes = {3, 10, 100}
SPECIFICATION Spec
INVARIANT SplitIsPartition
INVARIANT TestIsFair
INVARIANT ChunksCoverOnce
