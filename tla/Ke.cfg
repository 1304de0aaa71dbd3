SPECIFICATION Spec
CONSTANTS
    Threads = {t1, t2, t3}
    Events = {e1}
    Mutexes = {m1}
    Null = Null
SYMMETRY MCSymmetry
INVARIANTS
    OneRunning
    MutexExclusion
    AutoResetWakesOne
    ReadyIsQueued
PROPERTIES
    TerminatedNeverResumes
