\* Fields and the hangar, for every order of up to three fields, cut or not.
\* The run ends when the file is loaded.
CONSTANTS
    HEAD_BYTES = 23
    Craft <- MCCraft
    Paths <- MCPaths
SPECIFICATION Spec
INVARIANTS
    TypeOK
    FieldsRead
    NothingInvented
    HangarKnown
CHECK_DEADLOCK FALSE
