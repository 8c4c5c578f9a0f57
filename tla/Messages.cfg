\* Every message type, whole, cut, joined and extended; and any few bytes,
\* for types with each kind of field.
CONSTANTS
    WordBits = 16
    HalfBits = 8
    Kinds <- MessageTypes
    AnyKinds = {"MsgTransactResponse", "QueryParamsResponse", "QueryNullifierStatusResponse",
                "QueryTreeInfoResponse", "QuerySupportedDenomsResponse"}
    Long <- LongString
    Alphabet = {0, 1, 2, 8, 10, 11, 12, 127, 128, 255}
    MaxBytes = 4
SPECIFICATION Spec
INVARIANTS
    WholeIsRestored
    CutIsNoticed
    JoinedIsMerged
    UnknownIsSkipped
    AcceptedIsStable
    TurnsTakeBytes
CHECK_DEADLOCK FALSE
