\* A chunk that fails to load (handler_file/handler_inline return NJT_ERROR
\* before by_chunk): is the fake request released once the callback has
\* answered?
CONSTANTS
    Conns = {c1, c2}
    MaxHellos = 2
SPECIFICATION Spec
CHECK_DEADLOCK FALSE
INVARIANT
    FakeRequestReleased
