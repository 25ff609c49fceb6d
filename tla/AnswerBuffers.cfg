SPECIFICATION Spec
CONSTANTS
    ListSize = 262144
    ListSlack = 64
    NameLengths <- MCNameLengths
    MetaExtra = 256
    PathLengths <- MCPathLengths
    ErrorSize = 1400
    MessageLengths <- MCMessageLengths
    WriteSize = 256
    HeaderSize = 256
INVARIANTS
    RoomLeft
    AnswerWhole
