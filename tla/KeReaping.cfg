SPECIFICATION SpecReaping
CONSTANTS
    Threads = {t1, t2, t3}
    Events = {}
    Mutexes = {}
    Null = Null
INVARIANT
    ReadyIsQueued
