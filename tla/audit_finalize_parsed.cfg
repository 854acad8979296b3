\* A panic ends the calling thread: a state with fault # "none" has no successor.
CONSTANTS
    Inputs <- MCInputs
    Payloads <- MCPayloads
    BufLens <- MCBufLens
    HeaderEdits <- MCHeaderEdits
    Garbage <- MCGarbage
SPECIFICATION Spec
INVARIANT NoPanicFinalize
CHECK_DEADLOCK FALSE
