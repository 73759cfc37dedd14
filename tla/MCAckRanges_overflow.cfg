\* Receiver ACK range database, a table of one range that overflows:
\* well-formedness and refinement of AckSet (oldest run evicted).
CONSTANTS
    MaxPn <- MCMaxPn
    MAX_RANGES <- MCMaxRanges1
    SendAckBound <- MCSendAckBound
SPECIFICATION Spec
INVARIANTS
    TypeOK
    WellFormed
PROPERTIES
    AckSetRefinement
