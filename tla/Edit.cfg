SPECIFICATION Spec
CONSTANTS
    Node = {n1, n2, n3, n4, n5}
    Null = Null
    Body <- MCBody
    NoBody = "none"
    Leaf = "leaf"
    Inputs <- ParseInputs
    MimeTypes = {"other"}
    Parts <- MCParts
    Embedded <- MCEmbedded
    Fragments = {"fragment"}
    AsMessage <- MCAsMessage
    NodesNeeded <- MCNodesNeeded
    DepthLimit = 2
    MaxOwned = 5
    MaxTexts = 1
    MaxLength = 3
    MaxPosition = 3
    Ops <- EditOps
SYMMETRY Symmetry
INVARIANTS
    TypeOK
    PointersAgree
    OneOwner
PROPERTIES
    ImplementsForest
