\* Both transports, every fault: liveness.  A session ends and the system
\* stops there, so a stop is no deadlock; Termination says where it may be.
CONSTANTS
    Byte = {0, 1}
    MaxBytes = 5
    DEFAULT_CHUNK_BYTES = 2
    Versions = {1, 2}
    Sha256Hex <- MCSha256Hex
    Transports = {"tcp", "quic"}
    ChanCap = 1
    Crafts <- MCLongCraft
    OldFiles <- MCOldFiles
    NoFile = NoFile
    NoMeta = NoMeta
    Answers = {"", "n"}
    Faults = {"crash", "reset", "corrupt", "disk", "stdin"}
SPECIFICATION FairSpec
PROPERTIES
    Termination
    Delivery
CHECK_DEADLOCK FALSE
