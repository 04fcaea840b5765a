SPECIFICATION FairSpec
CONSTANTS
    MaxItems = 8
    PeekItems = 3
    MaxAttempts = 3
    PerCycle = {1, 2}
    ItemSizes = {10, 20}
    MaxBatchSamples = 30
PROPERTIES KeepsAcking FlushEnds
