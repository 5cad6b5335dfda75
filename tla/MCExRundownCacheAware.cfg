CONSTANTS
    a1 = a1
    a2 = a2
    Accessors <- MCAccessors
    Number = 2
    MaxHold = 1
    MaxEarly = 2
    Modulus = 16
    WaitBlockPtr = WaitBlockPtr
    OpenReInit = FALSE
    WaitAgain = FALSE
SPECIFICATION Spec
SYMMETRY Perms
INVARIANTS
    CountsConserved
    RundownSafe
    BlockAccessSafe
    WaiterHasWaker
