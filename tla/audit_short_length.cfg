\* A panic ends the calling thread: a state with fault # "none" has no successor.
CONSTANTS
    Inputs <- MCInputsShort
    Payloads <- MCPayloads
    BufLens <- MCBufLens
    HeaderEdits <- MCHeaderEdits
    Garbage <- MCGarbage
SPECIFICATION Spec
INVARIANT NoPanicFromBytes
CHECK_DEADLOCK FALSE
