CONSTANTS
    Blocks <- MCBlocks
    Values = {v1, v2}
    Torn = Torn
    MinLog = {0}
    SeqModulus = 2
    MaxTime = 1
    CmDoSelfHeal = TRUE
    LateFailure = TRUE
    Down = Down
SPECIFICATION Spec
INVARIANT
    GoodLogInHand
