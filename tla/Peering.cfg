\* Tickets whole and cut, given to several receivers, every fault.  A sender
\* may wait for ever for its first receiver.
CONSTANTS
    Chars <- MCChars
    EndpointIds = {"s1", "s2"}
    Receivers = {"r1", "r2"}
    Endpoints <- MCEndpoints
    Damaged = {"r1"}
    Faults = {"crash", "net", "disk"}
SPECIFICATION Spec
INVARIANTS
    TypeOK
    RoundTrip
    SamePeer
    NoHalfEscape
    ServedOnce
PROPERTIES
    DialEnds
CHECK_DEADLOCK FALSE
