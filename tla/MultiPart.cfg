SPECIFICATION Spec
CONSTANTS
    MaxLength = 7
    Bodies <- MCBodies
INVARIANTS
    TypeOK
    SplitsAtDelimiters
    ReassembledIsSame
PROPERTIES
    ParseEnds
CHECK_DEADLOCK FALSE
