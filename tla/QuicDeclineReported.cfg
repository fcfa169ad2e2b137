\* QUIC without any fault: DeclineReported does not hold.
CONSTANTS
    Byte = {0, 1}
    MaxBytes = 5
    DEFAULT_CHUNK_BYTES = 2
    Versions = {1, 2}
    Sha256Hex <- MCSha256Hex
    Transports = {"quic"}
    ChanCap = 2
    Crafts <- MCCrafts
    OldFiles <- MCOldFiles
    NoFile = NoFile
    NoMeta = NoMeta
    Answers = {"", "n"}
    Faults = {}
SPECIFICATION Spec
INVARIANTS
    DeclineReported
