\* Spec 4.E (PINGs in the first due context only) against the loop of
\* njt_quic_pto_handler over every context, with two levels.
CONSTANTS
    Levels <- MCLevels2
    LevelOrder <- MCOrder2
    App = "app"
    MSS = 2
    PktLen = 2
    InitWindow = 4
    InitialRtt = 1
    MaxAckDelay = 1
    AckDelayExponent = 3
    AckDelays = {0}
    MaxIdleTimeout = 1
    Handshaked = TRUE
    Hostile = FALSE
    BadAcks <- MCBadAcks
    MaxPn = 2
    MaxTime = 4
    MaxPto = 2
    MaxData = 2
SPECIFICATION Spec
CHECK_DEADLOCK FALSE
PROPERTY
    PtoProbesFirstDueOnly
