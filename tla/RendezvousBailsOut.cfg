\* A sender of a newer build, no fault: BailsOutEarly does not hold.
CONSTANTS
    Senders = {"s1", "s2"}
    Receivers = {"r1", "r2"}
    Host = {"A", "B"}
    Port = {7878, 9000}
    DEFAULT_PORT = 7878
    Blueprint = {"rocket"}
    Version = {1, 2}
    Plans <- MCMixedPlans
    NoShare = NoShare
    Nobody = Nobody
    Faults = {}
SPECIFICATION Spec
INVARIANTS
    BailsOutEarly
CHECK_DEADLOCK FALSE
