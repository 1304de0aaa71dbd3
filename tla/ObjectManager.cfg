SPECIFICATION Spec
CONSTANTS
    MAX_OBJECTS = 3
    MAX_OBJECT_TYPES = 3
    Names <- MCNames
    Cut <- MCCut
    Bodies = {b1, b2, b3}
    Refs = {r1, r2, r3}
    NoObject = NoObject
    NoRef = NoRef
    NoBody = NoBody
SYMMETRY MCSymmetry
INVARIANTS
    TypeOK
    RefCountExact
    OwnedBodyIsLive
    OwnershipExact
    RegistrationIdempotent
