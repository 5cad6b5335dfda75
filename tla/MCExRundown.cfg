CONSTANTS
    a1 = a1
    a2 = a2
    Accessors <- TwoAccessors
    MaxHold = 2
    WaitBlockPtr = WaitBlockPtr
SPECIFICATION RundownFairSpec
INVARIANTS
    RundownSafe
    BlockAccessSafe
    OneWakeup
PROPERTIES
    NoGrantWhileActive
    RundownReturns
