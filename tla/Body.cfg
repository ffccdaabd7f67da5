SPECIFICATION Spec
CONSTANTS
    Data = {d1, d2}
    NoData = NoData
    Garbled = Garbled
    Received <- MCReceived
    Encodings = {"7bit", "qp", "base64", "binary"}
    Ops <- FreezingOps
INVARIANTS
    TypeOK
    FlagIsRight
    ReadBack
    SentIsReadable
PROPERTIES
    FrozenIsImmutable
