SPECIFICATION Spec
CONSTANTS
    Inputs <- MCInputs
    Payloads <- MCPayloads
    Headers <- MCHeaders
    BufLens <- MCBufLens
    HeaderEdits <- MCHeaderEdits
    Garbage <- MCGarbage
INVARIANT
    EmitParseInverse
CHECK_DEADLOCK FALSE
