\* A bridge unsubscribing from 65537 topic filters of the largest legal
\* length (about 4 GiB of topics): the uint32_t packetlen wraps.
CONSTANTS
    TopicLens = {65535}
    TopicCounts = {65537}
    PropLens = {1}
SPECIFICATION Spec
INVARIANT
    BodyFillsPacket
