------------------------------ MODULE GlobalRpc ------------------------------
(***************************************************************************)
(* GlobalRpcTransport::call_raw (src/global_rpc/transport.rs): one JSON-   *)
(* RPC call to a remote fingerprint over an ephemeral N2R socket.  The     *)
(* request is sent, and a receive races a timer of 2^(retries+1) seconds; *)
(* when the timer wins, retries is incremented and the same request is    *)
(* sent again on the same socket, with no bound on retries.                *)
(*                                                                         *)
(* Time is a clock in whole seconds.  The destination is offline until    *)
(* UpAt; a request sent while it is offline is lost.  Besides, at most    *)
(* MaxLoss faults happen: a datagram lost, or a send_to that fails       *)
(* (no route, no reply block).  The answer to a request                  *)
(* reaches the socket a round-trip time from Delays after it was sent.     *)
(*                                                                         *)
(* The module gives the call's state and steps; HavenRegistration, whose  *)
(* task makes these calls, composes them with its own loop and clock.     *)
(***************************************************************************)
EXTENDS Naturals

CONSTANTS
    Delays,    \* possible round-trip times, in seconds
    MaxLoss,   \* bound on faults: lost datagrams and failed send_to calls
    UpAt,      \* second at which the destination comes online
    MaxTime    \* bound on the clock

ASSUME Delays \subseteq Nat \ {0} /\ MaxLoss \in Nat
ASSUME UpAt \in Nat /\ MaxTime \in Nat

VARIABLES
    now,       \* the clock
    up,        \* the destination is online
    pc,        \* "idle", "send", "wait", "done" (Ok), "failed" (Err)
    retries,   \* call_raw's retries counter
    deadline,  \* the instant the current timer fires
    inflight,  \* arrival instants of answers on the call's socket
    lost       \* faults so far

rpcVars == <<now, up, pc, retries, deadline, inflight, lost>>

TypeOK ==
    /\ now \in 0..MaxTime
    /\ up \in BOOLEAN
    /\ pc \in {"idle", "send", "wait", "done", "failed"}
    /\ retries \in 0..MaxTime
    /\ deadline \in Nat
    /\ inflight \subseteq Nat
    /\ lost \in 0..MaxLoss

RpcInit ==
    /\ now = 0
    /\ up = FALSE
    /\ pc = "idle"
    /\ retries = 0
    /\ deadline = 0
    /\ inflight = {}
    /\ lost = 0

\* Answers that have reached the socket.
Arrived == {a \in inflight : a <= now}

\* call_raw is entered: N2rSocket::bind gives a socket with nothing queued,
\* and retries starts at 0.
Call ==
    /\ pc = "idle"
    /\ pc' = "send"
    /\ retries' = 0
    /\ inflight' = {}
    /\ UNCHANGED <<now, up, deadline, lost>>

\* The request reaches the destination and is answered, or is lost.
Transmit ==
    \/ /\ up
       /\ \E d \in Delays : inflight' = inflight \cup {now + d}
       /\ UNCHANGED lost
    \/ /\ ~up
       /\ UNCHANGED <<inflight, lost>>
    \/ /\ up
       /\ lost < MaxLoss
       /\ lost' = lost + 1
       /\ UNCHANGED inflight

\* socket.send_to(request).await? then the timer of 2^(retries+1) seconds
\* is armed.  A failing send_to (a fault) returns the error through ?.
Send ==
    /\ pc = "send"
    /\ \/ /\ lost < MaxLoss
          /\ lost' = lost + 1
          /\ pc' = "failed"
          /\ UNCHANGED <<deadline, inflight>>
       \/ /\ Transmit
          /\ deadline' = now + 2^(retries + 1)
          /\ pc' = "wait"
    /\ UNCHANGED <<now, up, retries>>

\* select: the receive is polled first, so an answer that has arrived
\* wins over a timer that has fired; the response is parsed and returned.
\* A failing recv_from (a fault) returns "error receiving GlobalRPC
\* response".
Recv ==
    /\ pc = "wait"
    /\ \/ Arrived # {} /\ pc' = "done" /\ UNCHANGED lost
       \/ lost < MaxLoss /\ lost' = lost + 1 /\ pc' = "failed"
    /\ UNCHANGED <<now, up, retries, deadline, inflight>>

\* select: the timer fires first; retries += 1 and the loop sends again.
Timeout ==
    /\ pc = "wait"
    /\ now >= deadline
    /\ Arrived = {}
    /\ retries' = retries + 1
    /\ pc' = "send"
    /\ UNCHANGED <<now, up, deadline, inflight, lost>>

\* The destination comes online at UpAt.
ServerUp ==
    /\ ~up
    /\ now >= UpAt
    /\ up' = TRUE
    /\ UNCHANGED <<now, pc, retries, deadline, inflight, lost>>

\* No step of the call, nor the destination coming online, is due now:
\* the clock may advance.
RpcQuiet ==
    /\ now = UpAt => up
    /\ pc # "send"
    /\ pc = "wait" => now < deadline /\ Arrived = {}

=============================================================================
