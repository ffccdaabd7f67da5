SPECIFICATION FairSpec
CONSTANTS
    Node = {n1, n2, n3}
    Null = Null
    Body <- MCBody
    NoBody = "none"
    Leaf = "leaf"
    Inputs <- DeepInputs
    MimeTypes = {"other"}
    Parts <- MCParts
    Embedded <- MCEmbedded
    Fragments = {"fragment"}
    AsMessage <- MCAsMessage
    NodesNeeded <- MCNodesNeeded
    DepthLimit = 1
    MaxOwned = 1
    MaxTexts = 1
    MaxLength = 3
    MaxPosition = 3
    Ops <- DeepOps
INVARIANTS
    RecursionBounded
PROPERTIES
    ParseReturns
    FrozenSeals
