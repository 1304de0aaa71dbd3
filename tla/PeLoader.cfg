SPECIFICATION Spec
CONSTANTS
    Files <- MCFiles
    Names <- MCNames
    FileOf <- MCFileOf
    Found <- MCFound
    Elf <- MCElf
    Needs <- MCNeeds
    Exports <- MCExports
    Apps <- MCApps
    CoreDlls <- MCCoreDlls
    KernelExports = {"k"}
    DriverSymbols = {"d"}
    None = None
    MaxDepth = 2
    MaxCalls = 2
INVARIANTS
    BoundToLive
    NoSelfLoad
    WholeWhenReturned
PROPERTIES
    LoadsReturn
CHECK_DEADLOCK FALSE
