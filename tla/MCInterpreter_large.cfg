SPECIFICATION CodeSpec
CONSTANTS
    Programs <- LargePrograms
    Cells = 7
    Chunk = 2
    Batch = 3
    PollInterval = 2
    MaxStops = 1
    MaxFinalizers = 0
INVARIANT InterruptionsUnseen
CHECK_DEADLOCK FALSE
