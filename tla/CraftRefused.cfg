\* A head that may end within a character: RefusedOnlyIfInvalid does not hold.
CONSTANTS
    HEAD_BYTES = 20
    Craft <- MCCraft
    Paths <- MCPaths
SPECIFICATION Spec
INVARIANTS
    RefusedOnlyIfInvalid
CHECK_DEADLOCK FALSE
