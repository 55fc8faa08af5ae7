--------------------------- MODULE MCControlSockets ---------------------------
EXTENDS ControlSockets

CONSTANTS k1, k2, k3

\* k1 and k2 hash to the same shard, k3 to another.
MCIds == {k1, k2, k3}

MCShardOf == [k \in Ids |-> IF k = k3 THEN 2 ELSE 1]

\* State constraint: only behaviours in which no bind names an id whose
\* socket a send_message or recv_message is using.  A bind blocked by a Ref
\* is then blocked by a call on another id of the same shard.
BindOtherIdsOnly ==
    \A c, d \in Clients : pc[c] = "bind" /\ held[d] # 0 => key[d] # key[c]

=============================================================================
