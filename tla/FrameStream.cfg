SPECIFICATION Spec
CONSTANTS
    kMaxBaseLength = 1
    kMaxExtended16Length = 2
    ServerFrames <- MCServerFrames
    Keys <- MCKeys
    Login <- MCLogin
    OkxPong <- MCOkxPong
    kReadChunkSize = 12
    Capacity = 3
    MaxFrames = 3
    MaxConnections = 2
INVARIANTS FramesAsSent MessagesAsSent RepliesAreEchoes
CHECK_DEADLOCK FALSE
