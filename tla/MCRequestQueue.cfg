CONSTANTS
    Packet <- MCPacket
    MaxLens <- FixedLen
    QueueTimeouts <- TunedTimeouts
SPECIFICATION Spec
INVARIANTS
    TypeOK
    NoPacketLost
    OldestFirst
    QueueBounded
