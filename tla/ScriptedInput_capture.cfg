\* The output of a script against the reader of its pipe: a short one.
SPECIFICATION Spec
CONSTANTS
    Inputs <- ScheduledInputs
    NotANumber = NotANumber
    MaxRuns = 1
    MaxChunks = 2
    PipeCapacity = 2
    Faults = {}
INVARIANT
    OutputCaptured
CHECK_DEADLOCK FALSE
