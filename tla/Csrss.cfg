SPECIFICATION Spec
CONSTANTS
    MaxApps = 3
    MaxTries = 2
    MaxPids = 4
INVARIANTS
    RunningImageKept
    AppsOwned

    
CHECK_DEADLOCK FALSE
