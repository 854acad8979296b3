\* A panic ends the calling thread, so a state with fault # "none" has no
\* successor; that is the only place the model stops.
CONSTANTS
    Inputs <- MCInputs
    Payloads <- MCPayloads
    BufLens <- MCBufLens
    HeaderEdits <- MCHeaderEdits
    Garbage <- MCGarbage
SPECIFICATION Spec
INVARIANTS
    TypeOK
    RoundTrip
    EmitParseInverse
CHECK_DEADLOCK FALSE
