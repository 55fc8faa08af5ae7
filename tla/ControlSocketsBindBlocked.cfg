\* Two control tasks, three ids of which two share a shard; no peer is
\* obliged to send to a socket that recv_message awaits, and no bind names
\* an id in use.
CONSTANTS
    Clients = {c1, c2}
    k1 = k1
    k2 = k2
    k3 = k3
    Ids <- MCIds
    ShardOf <- MCShardOf
    MaxBinds = 3
    MaxQueued = 1
    PeersSend = FALSE
SPECIFICATION Spec
CONSTRAINT BindOtherIdsOnly

PROPERTY BindReturns
