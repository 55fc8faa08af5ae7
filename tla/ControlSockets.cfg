\* Two control tasks, three ids of which two share a shard; peers send to
\* every socket a recv_message awaits.
CONSTANTS
    Clients = {c1, c2}
    k1 = k1
    k2 = k2
    k3 = k3
    Ids <- MCIds
    ShardOf <- MCShardOf
    MaxBinds = 3
    MaxQueued = 1
    PeersSend = TRUE
SPECIFICATION Spec
INVARIANT TypeOK
PROPERTY CallsReturn
\* A state with no successor has a client blocked in a call for good (an
\* idle client can always call skt_info), which CallsReturn reports itself.
CHECK_DEADLOCK FALSE
