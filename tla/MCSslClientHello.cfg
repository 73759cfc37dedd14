\* Two client connections handshaking at once; each ClientHello may be
\* followed by a second one (HelloRetryRequest).
CONSTANTS
    Conns = {c1, c2}
    MaxHellos = 2
SPECIFICATION Spec
\* Closed connections and finished handshakes have no events left.
CHECK_DEADLOCK FALSE
INVARIANTS
    TypeOK
    NoPostAfterClose
    AbortTargetsLiveRequest
PROPERTIES
    HandshakeResumes
