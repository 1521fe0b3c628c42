\* Every list of stanzas and every state of the files; signals at any time.
SPECIFICATION FairSpec
CONSTANTS
    InputLists <- Lists
    FileStates <- SomeFiles
    Lower <- LowerCase
    Faults = {"config", "newExporter", "startExporter"}
    MaxSignals = 2
INVARIANTS
    TypeOK
    ExporterThere
    ServesAll
    CleanExit
PROPERTY
    SignalEnds
\* The process ends.
CHECK_DEADLOCK FALSE
