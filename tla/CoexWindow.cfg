CONSTANTS
    ChunkMs = 200
    SliceMs = 350
    GapMs = 60
    MinMs = 100
    MaxMs = 2000
    BootWaitMs = 400
    Ceiling = 400
    Defaults <- MCDefaults
    Writes <- MCWrites
SPECIFICATION FairSpec
INVARIANTS
    BoundedStarvation
    PromptNotice
PROPERTIES
    LeaseSpec
    RadioReturns
    SniffingResumes
