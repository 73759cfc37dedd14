\* One, two or 4097 topics of each of the lengths 0, 1, 65535 (the largest
\* a 2-byte prefix holds) and 65536, over both protocol versions, with and
\* without properties and allocation failures.  4097 topics of 65535 bytes
\* pass the remaining-length limit of 2^28 - 1 without wrapping uint32_t.
CONSTANTS
    TopicLens = {0, 1, 65535, 65536}
    TopicCounts = {1, 2, 4097}
    PropLens = {1, 7}
SPECIFICATION Spec
INVARIANTS
    BodyFillsPacket
