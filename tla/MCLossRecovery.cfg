\* Application level only; the peer acknowledges over a lossy, reordering
\* network and may also send malformed ACK frames.
CONSTANTS
    Levels <- MCLevelsApp
    LevelOrder <- MCOrderApp
    App = "app"
    MSS = 2
    PktLen = 2
    InitWindow = 4
    InitialRtt = 1
    MaxAckDelay = 1
    AckDelayExponent = 3
    AckDelays = {0}
    MaxIdleTimeout = 1
    Handshaked = TRUE
    Hostile = TRUE
    BadAcks <- MCBadAcks
    MaxPn = 3
    MaxTime = 4
    MaxPto = 2
    MaxData = 1
SPECIFICATION Spec
\* The connection stops for good once an ACK frame is rejected, and the
\* clock and packet-number bounds end every behaviour.
CHECK_DEADLOCK FALSE
INVARIANTS
    TypeOK
    InFlightAccounting
    PacketThresholdLoss
    TimerArmed
    NoStall
    DataConservation
    LostTimerDue
PROPERTIES
    PtoTimerProbes
