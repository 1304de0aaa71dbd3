SPECIFICATION Spec
CONSTANTS
    MAX_ENDPOINTS = 2
    QUEUE_DEPTH = 2
    Hosts = {h1, h2}
    Requests = {r1, r2, r3}
    Nobody = Nobody
SYMMETRY MCSymmetry
INVARIANTS
    AnswerIsOwn
    NothingLost
PROPERTY
    WrittenWhileWaiting
