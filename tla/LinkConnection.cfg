\* Pumps, keepalive respawn and lossy channels on one link.
CONSTANTS
    Sides = {a, b}
    Streams = {1, 2, 3}
    Cap = 1
    MaxPkts = 3
SPECIFICATION Spec
INVARIANT TypeOK
PROPERTY KeepaliveRestored
