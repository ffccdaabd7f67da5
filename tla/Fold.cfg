SPECIFICATION Spec
CONSTANTS
    MaxLen = 3
    MaxText = 5
    MaxSent = 8
    MaxHead = 3
    MaxBody = 3
    MaxSize = 5
    Received <- MCReceived
    Heads <- MCHeads
    Bodies <- MCBodies
    NewHeaders <- MCNewHeaders
    Replacements <- MCReplacements
INVARIANTS
    AnyHeadersArrive
