\* The receiver of one context: table and ACK timing together, under the
\* fairness of the event loop.
CONSTANTS
    MaxPn <- MCMaxPn
    MAX_RANGES = 1
    SendAckBound = 2
    MaxAckDelay = 2
SPECIFICATION Spec
INVARIANT
    AckDelayBounded
PROPERTY
    AckEventuallyQueued
