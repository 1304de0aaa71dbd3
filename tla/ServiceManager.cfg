SPECIFICATION Spec
CONSTANTS
    Names <- MCNames
    Tables <- MCTables
INVARIANTS
    RunningAboveRunning
    StartedAtMostOnce
    Settled
    DemandOnlyByDependency
PROPERTIES
    StartupEnds
