\* Every stanza, every fault, a pipe smaller than the output; scripts that end by
\* themselves.
SPECIFICATION EndingSpec
CONSTANTS
    Inputs <- AllInputs
    NotANumber = NotANumber
    MaxRuns = 2
    MaxChunks = 2
    PipeCapacity = 1
    Faults = {"pipe", "feed", "spawn"}
INVARIANTS
    TypeOK
    OneProcess
    LossExplained
PROPERTIES
    JobSpec
    ScheduleGoesOn
    StopEndsAll
\* An input that was rejected, or stopped and gone, takes no further step.
CHECK_DEADLOCK FALSE
