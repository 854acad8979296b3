\* A panic ends the calling thread: a state with fault # "none" has no successor.
CONSTANTS
    Inputs <- MCInputs
    Payloads <- MCPayloadsOverrun
    BufLens <- MCBufLens
    HeaderEdits <- MCHeaderEdits
    Garbage <- MCGarbage
SPECIFICATION Spec
INVARIANT EmitParseInverse
CHECK_DEADLOCK FALSE
