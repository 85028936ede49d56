CONSTANTS
    Users = {root, u1, u2}
    Root = root
    Handlers = {h1, h2}
    Changes <- MCChanges
    MaxFaults = 1
SPECIFICATION Spec
INVARIANTS
    TypeOK
    AdminStays
    KeptClassIsExplained
PROPERTY OnlyTheStaleLockOut
SYMMETRY Symmetry
CHECK_DEADLOCK FALSE
