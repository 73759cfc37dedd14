\* RFC 9000 13.2.1 (every ack-eliciting packet is acknowledged) against the
\* flush-and-evict path of a full table: a gap split, then a new range in front.
CONSTANTS
    MaxPn <- MCMaxPn7
    MAX_RANGES <- MCMaxRanges1
    SendAckBound <- MCSendAckBound
SPECIFICATION Spec
INVARIANT
    NoUnreportedEviction
