\* Both transports, every fault: safety, and refinement of Transfer.
CONSTANTS
    Byte = {0, 1}
    MaxBytes = 5
    DEFAULT_CHUNK_BYTES = 2
    Versions = {1, 2}
    Sha256Hex <- MCSha256Hex
    Transports = {"tcp", "quic"}
    ChanCap = 2
    Crafts <- MCCrafts
    OldFiles <- MCOldFiles
    NoFile = NoFile
    NoMeta = NoMeta
    Answers = {"", "n"}
    Faults = {"crash", "reset", "corrupt", "disk", "stdin"}
SPECIFICATION Spec
INVARIANTS
    TypeOK
    InductiveInv
    SavedIsSent
    SavedMeansSent
    SentMeansVerified
    ConsentBeforeData
    NothingUnread
    ScriptKept
    VerdictsAgree
PROPERTIES
    ImplementsTransfer
