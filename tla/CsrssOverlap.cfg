SPECIFICATION SpecAnyThread
CONSTANTS
    MaxApps = 3
    MaxTries = 2
    MaxPids = 4
INVARIANTS
    AppsOwned
CHECK_DEADLOCK FALSE
