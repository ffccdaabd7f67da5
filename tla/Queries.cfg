SPECIFICATION Spec
CONSTANTS
    Node = {n1, n2, n3, n4}
    Null = Null
    Kinds <- MCKinds
    MaxTrees = 2
SYMMETRY Symmetry
INVARIANTS
    IsForest
    AttachmentsAgree
    BodyAgrees
PROPERTIES
    AttachmentsStay
