SPECIFICATION Spec
CONSTANTS
    Threads = {t1, t2, t3}
    Events = {e1}
    Mutexes = {}
    Null = Null
PROPERTIES
    ImplementsScheduler
    ReadyEventuallyRuns
    SignaledWaitEnds
