\* Safety, refinement of FrameChannel and arrival, with every fault.  The ends
\* stop, so a stop is no deadlock.
CONSTANTS
    BASE = 2
    HEADER_BYTES = 2
    MAX_FRAME_BYTES = 2
    STREAM_BYTES = 3
    Payload <- MCPayload
    MaxMessages = 3
    Faults = {"crash", "cut"}
SPECIFICATION FairSpec
INVARIANTS
    TypeOK
    Aligned
    LimitsAgree
PROPERTIES
    ImplementsFrameChannel
    AllReceived
CHECK_DEADLOCK FALSE
