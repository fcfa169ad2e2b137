\* Names, hangars and interleaved reading and saving, every fault.  The run
\* ends when every command has.
CONSTANTS
    Char <- MCChar
    Senders = {"s1", "s2"}
    Receivers = {"r1", "r2"}
    Host = {"A", "B", "C"}
    HEAD_BYTES = 4
    Plans <- MCPlans
    Disks <- MCDisks
    HomeRoots <- MCHomeRoots
    Installs <- MCInstalls
    Faults = {"crash", "disk", "net"}
SPECIFICATION Spec
INVARIANTS
    TypeOK
    OnlyWhatWasReceived
    ArrivesWhole
    KeepsItsName
    FoundAgain
    HangarKept
CHECK_DEADLOCK FALSE
