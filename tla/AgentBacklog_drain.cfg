SPECIFICATION FairSpec
CONSTANTS
    MaxItems = 8
    PeekItems = 3
    MaxAttempts = 3
    PerCycle = {1}
    ItemSizes = {10}
    MaxBatchSamples = 30
PROPERTY Drains
