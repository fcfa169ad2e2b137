\* Liveness.  Ends may wait for a connection for ever: Settled says when.
CONSTANTS
    Senders = {"s1", "s2"}
    Receivers = {"r1", "r2"}
    Host = {"A", "B"}
    Port = {7878, 9000}
    DEFAULT_PORT = 7878
    Blueprint = {"rocket"}
    Version = {1}
    Plans <- MCPlans
    NoShare = NoShare
    Nobody = Nobody
    Faults = {"crash", "mdns"}
SPECIFICATION FairSpec
PROPERTIES
    EveryoneSettles
    NoMutualWait
CHECK_DEADLOCK FALSE
