\* A full incoming channel tears the pump down instead of dropping a packet.
CONSTANTS
    Sides = {a, b}
    Streams = {1, 2, 3}
    Cap = 1
    MaxPkts = 3
SPECIFICATION Spec
PROPERTY FullChannelOnlyDrops
