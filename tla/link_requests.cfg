CONSTANTS
    g1 = g1
    g2 = g2
    d1 = d1
    d2 = d2
    Clients <- MCClients
    Ops <- MCOps
    InitLinks <- MCInitLinks
    Indices <- MCIndices
SPECIFICATION Spec
INVARIANTS
    GetFailsOnlyBusy
    DelReportsOutcome
PROPERTY
    RequestsComplete
CHECK_DEADLOCK FALSE
