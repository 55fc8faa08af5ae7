---------------------------- MODULE ControlSockets ----------------------------
(***************************************************************************)
(* The socket table of ControlProtocolImpl                                 *)
(* (src/daemon/control_protocol_impl.rs): a DashMap from caller-supplied  *)
(* socket ids to bound sockets, used concurrently by control RPC tasks.   *)
(*                                                                         *)
(* A DashMap is a set of shards, each behind a reader-writer lock.  get    *)
(* takes the shard's read lock and returns a Ref that holds it until the   *)
(* Ref is dropped; insert takes the write lock for the duration of the    *)
(* call.  The locks block the calling thread.  send_message and            *)
(* recv_message keep their Ref across the socket's send_to / recv_from    *)
(* await.  Sockets are numbered in bind order; the datagrams queued at     *)
(* each socket are counted.                                                *)
(*                                                                         *)
(* The identity a bind uses (an anonymous one from AnonIdentities, or the *)
(* global one) is a pure function of its arguments and is not modelled.   *)
(***************************************************************************)
EXTENDS Naturals, FiniteSets

CONSTANTS
    Clients,    \* concurrent control RPC tasks
    Ids,        \* socket ids
    ShardOf,    \* ShardOf[k]: the shard of id k (a hash of k)
    MaxBinds,   \* bound on the number of sockets bound
    MaxQueued,  \* bound on the datagrams queued at one socket
    PeersSend   \* TRUE: a peer eventually sends to a socket someone awaits

ASSUME MaxBinds \in Nat /\ MaxQueued \in Nat \ {0} /\ PeersSend \in BOOLEAN

VARIABLES
    sockets,    \* sockets[k]: the socket bound under id k, 0 when none
    nSock,      \* sockets bound so far
    queued,     \* queued[s]: datagrams received by socket s, not yet read
    readers,    \* readers[h]: clients holding a Ref into shard h
    pc,         \* pc[c]: "idle", "bind", "sending" or "receiving"
    key,        \* key[c]: the socket id of c's current call
    held,       \* held[c]: the socket c's Ref points to, 0 when none
    ret         \* ret[c]: outcome of c's last call

vars == <<sockets, nSock, queued, readers, pc, key, held, ret>>

Shards == {ShardOf[k] : k \in Ids}
Socks == 1..MaxBinds
Outcomes == {"none", "ok", "NoSocket", "SendError"}

TypeOK ==
    /\ sockets \in [Ids -> 0..MaxBinds]
    /\ nSock \in 0..MaxBinds
    /\ queued \in [Socks -> 0..MaxQueued]
    /\ readers \in [Shards -> SUBSET Clients]
    /\ pc \in [Clients -> {"idle", "bind", "sending", "receiving"}]
    /\ key \in [Clients -> Ids]
    /\ held \in [Clients -> 0..MaxBinds]
    /\ ret \in [Clients -> Outcomes]
    /\ \A c \in Clients : held[c] # 0 <=> pc[c] \in {"sending", "receiving"}

\* ControlProtocolImpl::new: an empty DashMap.
Init ==
    /\ sockets = [k \in Ids |-> 0]
    /\ nSock = 0
    /\ queued = [s \in Socks |-> 0]
    /\ readers = [h \in Shards |-> {}]
    /\ pc = [c \in Clients |-> "idle"]
    /\ key = [c \in Clients |-> CHOOSE k \in Ids : TRUE]
    /\ held = [c \in Clients |-> 0]
    /\ ret = [c \in Clients |-> "none"]

\* bind_n2r / bind_haven, up to the insert: the identity is looked up and
\* the socket built with it (Socket::bind_*_internal does not await).
StartBind(c, k) ==
    /\ pc[c] = "idle"
    /\ nSock + Cardinality({d \in Clients : pc[d] = "bind"}) < MaxBinds
    /\ pc' = [pc EXCEPT ![c] = "bind"]
    /\ key' = [key EXCEPT ![c] = k]
    /\ UNCHANGED <<sockets, nSock, queued, readers, held, ret>>

\* sockets.insert(socket_id, socket): the write lock of the shard is taken
\* once no Ref into the shard is alive; the new socket replaces (and drops)
\* any socket bound under the same id.
Insert(c) ==
    /\ pc[c] = "bind"
    /\ readers[ShardOf[key[c]]] = {}
    /\ nSock' = nSock + 1
    /\ sockets' = [sockets EXCEPT ![key[c]] = nSock + 1]
    /\ pc' = [pc EXCEPT ![c] = "idle"]
    /\ ret' = [ret EXCEPT ![c] = "ok"]
    /\ UNCHANGED <<queued, readers, key, held>>

\* skt_info: get, local_endpoint, and the Ref is dropped at once.
SktInfo(c, k) ==
    /\ pc[c] = "idle"
    /\ ret' = [ret EXCEPT ![c] = IF sockets[k] = 0 THEN "NoSocket" ELSE "ok"]
    /\ key' = [key EXCEPT ![c] = k]
    /\ UNCHANGED <<sockets, nSock, queued, readers, pc, held>>

\* sockets.get(&socket_id) in send_message (op "sending") or recv_message
\* (op "receiving"): NoSocket, or a Ref that keeps the shard read-locked.
Get(c, k, op) ==
    /\ pc[c] = "idle"
    /\ key' = [key EXCEPT ![c] = k]
    /\ \/ /\ sockets[k] = 0
          /\ ret' = [ret EXCEPT ![c] = "NoSocket"]
          /\ UNCHANGED <<readers, pc, held>>
       \/ /\ sockets[k] # 0
          /\ readers' = [readers EXCEPT ![ShardOf[k]] = @ \cup {c}]
          /\ held' = [held EXCEPT ![c] = sockets[k]]
          /\ pc' = [pc EXCEPT ![c] = op]
          /\ UNCHANGED ret
    /\ UNCHANGED <<sockets, nSock, queued>>

\* The Ref is dropped when the call returns.
Drop(c) ==
    /\ readers' = [readers EXCEPT ![ShardOf[key[c]]] = @ \ {c}]
    /\ held' = [held EXCEPT ![c] = 0]
    /\ pc' = [pc EXCEPT ![c] = "idle"]

\* socket.send_to(content, destination).await? returns Ok or SendError.
SendDone(c) ==
    /\ pc[c] = "sending"
    /\ \E r \in {"ok", "SendError"} : ret' = [ret EXCEPT ![c] = r]
    /\ Drop(c)
    /\ UNCHANGED <<sockets, nSock, queued, key>>

\* Mutant of RecvDone: the Ref outlives the call (kept in a long-lived
\* value), so the shard stays read-locked.
RecvDoneKeepRef(c) ==
    /\ pc[c] = "receiving"
    /\ queued[held[c]] > 0
    /\ queued' = [queued EXCEPT ![held[c]] = @ - 1]
    /\ ret' = [ret EXCEPT ![c] = "ok"]
    /\ held' = [held EXCEPT ![c] = 0]
    /\ pc' = [pc EXCEPT ![c] = "idle"]
    /\ UNCHANGED <<sockets, nSock, readers, key>>

\* Mutant of RecvDone: the receive returns without waiting for a datagram.
RecvDoneEmpty(c) ==
    /\ pc[c] = "receiving"
    /\ queued' = [queued EXCEPT ![held[c]] = @ - 1]
    /\ ret' = [ret EXCEPT ![c] = "ok"]
    /\ Drop(c)
    /\ UNCHANGED <<sockets, nSock, key>>

\* socket.recv_from().await: returns once a datagram is queued at the
\* socket the Ref points to.
RecvDone(c) ==
    /\ pc[c] = "receiving"
    /\ queued[held[c]] > 0
    /\ queued' = [queued EXCEPT ![held[c]] = @ - 1]
    /\ ret' = [ret EXCEPT ![c] = "ok"]
    /\ Drop(c)
    /\ UNCHANGED <<sockets, nSock, key>>

\* A datagram for socket s arrives from the network.
Deliver(s) ==
    /\ s \in 1..nSock
    /\ queued[s] < MaxQueued
    /\ queued' = [queued EXCEPT ![s] = @ + 1]
    /\ UNCHANGED <<sockets, nSock, readers, pc, key, held, ret>>

\* Every bind has been made and every client is idle.
Terminating ==
    /\ nSock = MaxBinds
    /\ \A c \in Clients : pc[c] = "idle"
    /\ UNCHANGED vars

Next ==
    \/ \E c \in Clients :
          \/ Insert(c) \/ SendDone(c) \/ RecvDone(c)
          \/ \E k \in Ids :
                \/ SktInfo(c, k)
                \/ StartBind(c, k)
                \/ \E op \in {"sending", "receiving"} : Get(c, k, op)
    \/ \E s \in Socks : Deliver(s)
    \/ Terminating

\* Every started call is polled until it returns.  Insert and RecvDone are
\* assumed strongly fair.  This is an assumption, not a guarantee of the
\* code: DashMap's shard lock lets new readers in while a writer waits, and
\* several receivers on one socket race for each datagram.  Peers are
\* obliged to send only when PeersSend holds.
Fairness ==
    /\ \A c \in Clients :
          SF_vars(Insert(c)) /\ WF_vars(SendDone(c)) /\ SF_vars(RecvDone(c))
    /\ PeersSend =>
          \A c \in Clients :
             WF_vars(pc[c] = "receiving" /\ Deliver(held[c]))

Spec == Init /\ [][Next]_vars /\ Fairness

-----------------------------------------------------------------------------
(* Properties *)

\* Every control call that has started returns: binds, sends and receives
\* (given that peers keep sending to awaited sockets).
CallsReturn == \A c \in Clients : pc[c] # "idle" ~> pc[c] = "idle"

\* A bind_n2r or bind_haven call returns whatever other control calls are
\* doing: binding a socket never waits for a datagram to reach another one.
BindReturns == \A c \in Clients : pc[c] = "bind" ~> pc[c] = "idle"

=============================================================================
