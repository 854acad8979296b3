SPECIFICATION Spec
CONSTANTS
    NlaLists <- MCNlaLists
    LinkNlaLists <- MCLinkNlaLists
    Runs <- MCRuns
    NeighHeader <- MCNeighHeader
    LinkHdr <- MCLinkHdr
INVARIANTS
    NeighbourRoundTrip
