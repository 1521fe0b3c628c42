\* A script among other inputs, stopped by a SIGTERM at any time.
SPECIFICATION FairSpec
CONSTANTS
    InputLists <- Lists
    FileStates <- GoodFiles
    Lower <- LowerCase
    RunnerFaults = {"startExporter"}
    MaxSignals = 1
    Inputs <- AllInputs
    NotANumber = NotANumber
    MaxRuns = 2
    MaxChunks = 1
    PipeCapacity = 1
    ScriptFaults = {"spawn"}
    Position = 2
INVARIANTS
    TypeOK
    ServiceDelivers
    LossAccounted
    OrphansExplained
PROPERTIES
    SignalEnds
    ExporterGetsJob
\* The process ends, and so do the scripts.
CHECK_DEADLOCK FALSE
