\* set_protocols over every inherited option set and every 7-bit mask, and
\* the SNI parser over every extension body of up to 10 bytes built from
\* a 5-byte prefix with length fields of high byte 0 or 1 and low byte
\* 0..7, and up to 5 further bytes.
CONSTANTS
    Lows = {0, 1, 2, 3, 4, 5, 6, 7}
    MaxTail = 5
SPECIFICATION Spec
INVARIANTS
    NoOverRead
    ReturnsFirstHostName
    ExactlyRequested
