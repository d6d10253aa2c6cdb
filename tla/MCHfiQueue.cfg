SPECIFICATION FairSpec
CONSTANTS
    QWords = 4
    HugeWords = 2
    MaxPackets = 2
    Sizes = {1, 2, 3}
    Kinds = {"resp", "skip", "syserr"}
    MaxSend = 3
INVARIANTS
    TypeOK
    QueueIntact
    PacketIntact
    NoLostWakeup
    ResponsePktInBounds
PROPERTIES ImplementsFifo EveryPacketConsumed
CHECK_DEADLOCK FALSE
