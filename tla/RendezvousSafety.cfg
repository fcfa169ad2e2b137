\* Safety, with every fault.  Ends may wait for a connection for ever.
CONSTANTS
    Senders = {"s1", "s2"}
    Receivers = {"r1", "r2"}
    Host = {"A", "B"}
    Port = {7878, 9000}
    DEFAULT_PORT = 7878
    Blueprint = {"rocket"}
    Version = {1}
    Plans <- MCPlans
    NoShare = NoShare
    Nobody = Nobody
    Faults = {"crash", "mdns", "lost"}
SPECIFICATION Spec
INVARIANTS
    TypeOK
    Paired
    ServedAsPicked
    RefusedOnlyIfTaken
    AnnouncedByLiving
CHECK_DEADLOCK FALSE
