SPECIFICATION SpecRing
CONSTANTS
    Capacity = 16
    Modulus = 32
    Header = 2
    Base = 2
    MaxPacket = 3
    Packets <- MCPackets
INVARIANT NoFalseCorruption
INVARIANT NoOverwrite
PROPERTY RingIsQueue
