SPECIFICATION Spec
CONSTANTS
    Inputs <- MCInputs
    Payloads <- MCPayloads
    Headers <- MCHeaders
    BufLens <- MCBufLens
    HeaderEdits <- MCHeaderEdits
    Garbage <- MCGarbage
PROPERTY SpecifiedLifecycle
CHECK_DEADLOCK FALSE
