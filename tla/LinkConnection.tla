--------------------------- MODULE LinkConnection ---------------------------
(***************************************************************************)
(* The onion-packet side of one link (src/daemon/link_connection.rs), seen *)
(* from both of its ends.  Each end has a bounded outgoing channel filled  *)
(* by send_raw_packet and drained by packet pumps, and a bounded incoming  *)
(* channel filled by the pumps and drained by recv_raw_packet.  Each end's *)
(* onion_keepalive task keeps an "onion_packets" substream open; the       *)
(* other end's accept loop runs a pump on it too.  A pump races its up and *)
(* down loops, so when either fails the whole pump ends and its end of    *)
(* the substream is dropped.                                               *)
(*                                                                         *)
(* A substream id is reused once both its ends are gone.  Unreliable       *)
(* datagrams in flight are a set per direction: lossy and unordered.       *)
(***************************************************************************)
EXTENDS Naturals, Sequences, FiniteSets
LOCAL INSTANCE SequencesExt

CONSTANTS
    Sides,     \* the two ends of the link
    Streams,   \* substream ids
    Cap,       \* capacity of the outgoing and incoming channels (100)
    MaxPkts    \* bound on the packets handed to send_raw_packet

ASSUME Cardinality(Sides) = 2 /\ Cap \in Nat \ {0} /\ MaxPkts \in Nat
ASSUME 0 \notin Streams

VARIABLES
    out,       \* out[s]: the outgoing channel of end s
    inc,       \* inc[s]: the incoming channel of end s
    ends,      \* ends[n][s]: "free", "pending" (not yet accepted), "up", "dead"
    flight,    \* flight[n][s]: datagrams on substream n travelling to s
    keep,      \* keep[s]: substream of s's onion_keepalive, 0 while opening
    sent       \* packets handed to send_raw_packet so far

vars == <<out, inc, ends, flight, keep, sent>>

Pkts == 1..MaxPkts
Other(s) == CHOOSE o \in Sides : o # s
EndStates == {"free", "pending", "up", "dead"}

TypeOK ==
    /\ out \in [Sides -> BoundedSeq(Pkts, Cap)]
    /\ inc \in [Sides -> BoundedSeq(Pkts, Cap)]
    /\ ends \in [Streams -> [Sides -> EndStates]]
    /\ flight \in [Streams -> [Sides -> SUBSET Pkts]]
    /\ keep \in [Sides -> Streams \cup {0}]
    /\ sent \in 0..MaxPkts

\* connect: both channels are created empty and the connection loop, with
\* its onion_keepalive, is spawned; no substream is open yet.
Init ==
    /\ out = [s \in Sides |-> <<>>]
    /\ inc = [s \in Sides |-> <<>>]
    /\ ends = [n \in Streams |-> [s \in Sides |-> "free"]]
    /\ flight = [n \in Streams |-> [s \in Sides |-> {}]]
    /\ keep = [s \in Sides |-> 0]
    /\ sent = 0

\* Mutant of PumpEnds: the keepalive is not respawned when its pump ends.
PumpEndsNoRespawn(s, n) ==
    /\ IF ends[n][Other(s)] = "dead"
          THEN /\ ends' = [ends EXCEPT ![n] = [t \in Sides |-> "free"]]
               /\ flight' = [flight EXCEPT ![n] = [t \in Sides |-> {}]]
          ELSE /\ ends' = [ends EXCEPT ![n][s] = "dead"]
               /\ UNCHANGED flight
    /\ UNCHANGED keep

\* The pump of end s on substream n returns an error: its end is dropped,
\* and if it was s's onion_keepalive stream, Immortal respawns the
\* keepalive, which opens a new one.  A substream whose other end is gone
\* too is freed, with whatever it still carried.
PumpEnds(s, n) ==
    /\ IF ends[n][Other(s)] = "dead"
          THEN /\ ends' = [ends EXCEPT ![n] = [t \in Sides |-> "free"]]
               /\ flight' = [flight EXCEPT ![n] = [t \in Sides |-> {}]]
          ELSE /\ ends' = [ends EXCEPT ![n][s] = "dead"]
               /\ UNCHANGED flight
    /\ keep' = [keep EXCEPT ![s] = IF @ = n THEN 0 ELSE @]

\* Mutant of SendRawPacket: the packet is queued even past capacity.
SendRawPacketUnbounded(s) ==
    /\ sent < MaxPkts
    /\ sent' = sent + 1
    /\ out' = [out EXCEPT ![s] = Append(@, sent + 1)]
    /\ UNCHANGED <<inc, ends, flight, keep>>

\* send_raw_packet: try_send, the packet is dropped when the channel is full.
SendRawPacket(s) ==
    /\ sent < MaxPkts
    /\ sent' = sent + 1
    /\ out' = [out EXCEPT ![s] = IF Len(@) < Cap THEN Append(@, sent + 1) ELSE @]
    /\ UNCHANGED <<inc, ends, flight, keep>>

\* recv_raw_packet
RecvRawPacket(s) ==
    /\ inc[s] # <<>>
    /\ inc' = [inc EXCEPT ![s] = Tail(@)]
    /\ UNCHANGED <<out, ends, flight, keep, sent>>

\* onion_keepalive: open_conn("onion_packets") and pump on it.
KeepaliveOpen(s) ==
    /\ keep[s] = 0
    /\ \E n \in Streams :
          /\ ends[n] = [t \in Sides |-> "free"]
          /\ ends' = [ends EXCEPT ![n] = [t \in Sides |->
                                            IF t = s THEN "up" ELSE "pending"]]
          /\ keep' = [keep EXCEPT ![s] = n]
    /\ UNCHANGED <<out, inc, flight, sent>>

\* connection_loop: accept_conn yields an "onion_packets" substream, and a
\* handle_onion_packets task is attached to the reaper.
Accept(s, n) ==
    /\ ends[n][s] = "pending"
    /\ ends' = [ends EXCEPT ![n][s] = "up"]
    /\ UNCHANGED <<out, inc, flight, keep, sent>>

\* up loop: recv_outgoing.recv, then send_urel of the packet's bytes.  A
\* pump whose other end is already gone still takes the packet off the
\* shared channel; the datagram is lost (PeerClosed ends the pump).
PumpUp(s, n) ==
    /\ ends[n][s] = "up"
    /\ out[s] # <<>>
    /\ \/ /\ ends[n][Other(s)] \in {"pending", "up"}
          /\ flight' = [flight EXCEPT ![n][Other(s)] = @ \cup {Head(out[s])}]
       \/ /\ ends[n][Other(s)] = "dead"
          /\ UNCHANGED flight
    /\ out' = [out EXCEPT ![s] = Tail(@)]
    /\ UNCHANGED <<inc, ends, keep, sent>>

\* down loop: recv_urel, then bytemuck::try_from_bytes(..).context(..)?
\* and send_incoming.try_send(pkt)?.  A datagram of the wrong size to be a
\* RawPacket (a peer speaking another format), or a full incoming channel,
\* fails, and the ? ends the pump.
PumpDown(s, n) ==
    /\ ends[n][s] = "up"
    /\ \E p \in flight[n][s] :
          \/ /\ Len(inc[s]) < Cap
             /\ inc' = [inc EXCEPT ![s] = Append(@, p)]
             /\ flight' = [flight EXCEPT ![n][s] = @ \ {p}]
             /\ UNCHANGED <<ends, keep>>
          \/ /\ PumpEnds(s, n)   \* wrong size, or Len(inc[s]) = Cap
             /\ UNCHANGED inc
    /\ UNCHANGED <<out, sent>>

\* The other end was dropped: recv_urel (or send_urel) fails.
PeerClosed(s, n) ==
    /\ ends[n][s] = "up"
    /\ ends[n][Other(s)] = "dead"
    /\ PumpEnds(s, n)
    /\ UNCHANGED <<out, inc, sent>>

\* The unreliable datagram is lost.
LoseDatagram(s, n) ==
    /\ \E p \in flight[n][s] : flight' = [flight EXCEPT ![n][s] = @ \ {p}]
    /\ UNCHANGED <<out, inc, ends, keep, sent>>

\* Every packet has been sent and handled and the pumps idle: the model's
\* bound is reached.
Terminating ==
    /\ sent = MaxPkts
    /\ \A s \in Sides : out[s] = <<>> /\ inc[s] = <<>>
    /\ \A n \in Streams, s \in Sides : flight[n][s] = {}
    /\ UNCHANGED vars

Next ==
    \/ \E s \in Sides :
          \/ SendRawPacket(s) \/ RecvRawPacket(s) \/ KeepaliveOpen(s)
          \/ \E n \in Streams :
                \/ Accept(s, n) \/ PumpUp(s, n) \/ PumpDown(s, n)
                \/ PeerClosed(s, n) \/ LoseDatagram(s, n)
    \/ Terminating

\* Immortal respawns immediately and the executor runs every ready task:
\* the keepalive, accept loop and pumps are weakly fair.  Users sending or
\* receiving, and the network, are not.
Fairness ==
    \A s \in Sides :
        /\ WF_vars(KeepaliveOpen(s))
        /\ \A n \in Streams : WF_vars(Accept(s, n)) /\ WF_vars(PeerClosed(s, n))

Spec == Init /\ [][Next]_vars /\ Fairness

-----------------------------------------------------------------------------
(* Properties *)

\* Each end always eventually again has a live onion_keepalive pump, however
\* often pumps are torn down.
KeepaliveRestored ==
    \A s \in Sides : []<>(keep[s] # 0 /\ ends[keep[s]][s] = "up")

\* Spec 4.5 and 7: a datagram that finds the incoming channel full is
\* dropped, and the pump goes on: a pump only stops because the other end
\* of its substream went away.
FullChannelOnlyDrops ==
    [][\A s \in Sides, n \in Streams :
          (ends[n][s] = "up" /\ ends'[n][s] # "up") => ends[n][Other(s)] = "dead"]_vars

=============================================================================
