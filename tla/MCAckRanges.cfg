\* Receiver ACK range database, a table of two ranges that is never full:
\* well-formedness and refinement of AckSet.
CONSTANTS
    MaxPn <- MCMaxPn
    MAX_RANGES <- MCMaxRanges2
    SendAckBound <- MCSendAckBound
SPECIFICATION Spec
INVARIANTS
    TypeOK
    WellFormed
PROPERTIES
    AckSetRefinement
