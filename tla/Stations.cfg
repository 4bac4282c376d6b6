SPECIFICATION Spec
CONSTANTS
    Bits = 2
    PointerSize = 2
    Decoders <- MCDecoders
    Packets <- MCPackets
    Frequencies <- MCFrequencies
    TcpBuffer = 4
    MaxConns = 2
    MaxMessages = 2
    MaxLost = 2
    MaxRefused = 1
    MaxUnsent = 1
    MaxMqttSignals = 1
    Jobs <- MCJobs
    FileBuffer = 3
    MaxReloads = 2
INVARIANTS
    ShortestCodes
    PayloadIsPacket
    NoLeftovers
    WholePacketIsServed
    SentInOrder
    FileIsSent
PROPERTIES
    LossHasAReason
    LostIsTriedAgain
CHECK_DEADLOCK FALSE
