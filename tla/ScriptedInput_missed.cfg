\* Scripts that run until they are told to stop.
SPECIFICATION FairSpec
CONSTANTS
    Inputs <- ScheduledInputs
    NotANumber = NotANumber
    MaxRuns = 1
    MaxChunks = 1
    PipeCapacity = 1
    Faults = {}
PROPERTY
    StopEndsAll
CHECK_DEADLOCK FALSE
