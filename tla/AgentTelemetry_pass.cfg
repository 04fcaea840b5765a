SPECIFICATION Spec
CONSTANTS
    MaxItems = 2
    MaxBytes = 512
    PeekItems = 2
    MaxData = 3
    Sizes = {1}
    MaxBatchSamples = 2
    MaxAttempts = 2
    MaxRestarts = 1
    MaxWire = 2
    MaxStored = 1
    MaxFaults = 1
INVARIANTS TypeOK NothingVanishes SequenceNamesOnePayload DropOldest TrimIsTheLoop
PROPERTY BacklogSpec
