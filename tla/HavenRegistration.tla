-------------------------- MODULE HavenRegistration --------------------------
(***************************************************************************)
(* The rendezvous registration task of a server-mode HavenSocket          *)
(* (src/socket/haven_socket.rs, bind), composed with the GlobalRpc call   *)
(* it makes.  The task loops forever: alloc_forward through a fresh       *)
(* GlobalRpcTransport call under a 30 s timeout; on error or timeout it    *)
(* sleeps 3 s and tries again; on success it publishes the HavenLocator    *)
(* with dht_insert (under its own 30 s timeout, whose outcome is not       *)
(* inspected) and sleeps 5 s before registering again.                     *)
(*                                                                         *)
(* The DHT insert is one step: its duration only delays the next attempt.  *)
(***************************************************************************)
EXTENDS GlobalRpc

CONSTANTS
    RegTimeout,   \* alloc_forward(..).timeout(Duration::from_secs(30))
    RetrySleep,   \* Timer::after(3 s) after an error or a timeout
    Reannounce    \* Timer::after(5 s) after a successful announce

VARIABLES
    reg,          \* "register" (calling alloc_forward) or "sleep"
    regStart,     \* instant the current alloc_forward call started
    wake,         \* instant the current sleep ends
    registered,   \* successful alloc_forward calls so far
    published     \* a HavenLocator insert has reached the DHT

vars == <<rpcVars, reg, regStart, wake, registered, published>>

RegTypeOK ==
    /\ TypeOK
    /\ reg \in {"register", "sleep"}
    /\ regStart \in 0..MaxTime
    /\ wake \in Nat
    /\ registered \in Nat
    /\ published \in BOOLEAN
    /\ reg = "register" /\ pc \in {"send", "wait"} => now <= regStart + RegTimeout

Init ==
    /\ RpcInit
    /\ reg = "register"
    /\ regStart = 0
    /\ wake = 0
    /\ registered = 0
    /\ published = FALSE

\* Mutant of Register: the 30 s timeout is measured from the first attempt.
RegisterNoRestart ==
    /\ reg = "register"
    /\ Call
    /\ UNCHANGED <<reg, regStart, wake, registered, published>>

\* gclient.alloc_forward(forward_req.clone()).timeout(30 s): a new call_raw,
\* on a newly bound N2R socket.
Register ==
    /\ reg = "register"
    /\ Call
    /\ regStart' = now
    /\ UNCHANGED <<reg, wake, registered, published>>

\* Steps of the call in progress.
CallStep ==
    /\ reg = "register"
    /\ Send \/ Recv \/ Timeout
    /\ UNCHANGED <<reg, regStart, wake, registered, published>>

\* Mutant of Registered: the loop ends after the first announce.
RegisteredStops ==
    /\ reg = "register"
    /\ pc = "done"
    /\ registered' = registered + 1
    /\ \/ published' = TRUE /\ UNCHANGED lost
       \/ lost < MaxLoss /\ lost' = lost + 1 /\ UNCHANGED published
    /\ reg' = "sleep"
    /\ wake' = MaxTime + 1
    /\ pc' = "idle"
    /\ UNCHANGED <<now, up, retries, deadline, inflight, regStart>>

\* Some(Ok(_)): dht_insert of the HavenLocator under a 30 s timeout, then
\* Timer::after(5 s).  The insert's result is dropped: it reaches the DHT,
\* or fails or times out (a fault), and the loop goes on either way.
Registered ==
    /\ reg = "register"
    /\ pc = "done"
    /\ registered' = registered + 1
    /\ \/ published' = TRUE /\ UNCHANGED lost
       \/ lost < MaxLoss /\ lost' = lost + 1 /\ UNCHANGED published
    /\ reg' = "sleep"
    /\ wake' = now + Reannounce
    /\ pc' = "idle"
    /\ UNCHANGED <<now, up, retries, deadline, inflight, regStart>>

\* Some(Err(e)): Timer::after(3 s), then continue.
RegFailed ==
    /\ reg = "register"
    /\ pc = "failed"
    /\ reg' = "sleep"
    /\ wake' = now + RetrySleep
    /\ pc' = "idle"
    /\ UNCHANGED <<now, up, retries, deadline, inflight, lost,
                   regStart, registered, published>>

\* Mutant of RegTimedOut: the task returns on a timeout instead of looping;
\* it is never woken again.
RegTimedOutReturns ==
    /\ reg = "register"
    /\ pc \in {"send", "wait"}
    /\ now >= regStart + RegTimeout
    /\ Arrived = {}
    /\ reg' = "sleep"
    /\ wake' = MaxTime + 1
    /\ pc' = "idle"
    /\ inflight' = {}
    /\ UNCHANGED <<now, up, retries, deadline, lost, regStart,
                   registered, published>>

\* None: the timeout fires before the call returns.  The call_raw future is
\* dropped with its socket, so answers still travelling to it are lost;
\* then Timer::after(3 s).  Timeout polls the call first, so an answer that
\* has arrived wins.
RegTimedOut ==
    /\ reg = "register"
    /\ pc \in {"send", "wait"}
    /\ now >= regStart + RegTimeout
    /\ Arrived = {}
    /\ reg' = "sleep"
    /\ wake' = now + RetrySleep
    /\ pc' = "idle"
    /\ inflight' = {}
    /\ UNCHANGED <<now, up, retries, deadline, lost, regStart,
                   registered, published>>

\* The sleep ends and the loop registers again.
Wake ==
    /\ reg = "sleep"
    /\ now >= wake
    /\ reg' = "register"
    /\ UNCHANGED <<rpcVars, regStart, wake, registered, published>>

Online ==
    /\ ServerUp
    /\ UNCHANGED <<reg, regStart, wake, registered, published>>

\* One second passes when nothing is due.
RegTick ==
    /\ now < MaxTime
    /\ RpcQuiet
    /\ reg = "register" => pc \in {"wait"} /\ now < regStart + RegTimeout
    /\ reg = "sleep" => now < wake
    /\ now' = now + 1
    /\ UNCHANGED <<up, pc, retries, deadline, inflight, lost,
                   reg, regStart, wake, registered, published>>

\* The clock has reached its bound.
RegTerminating ==
    /\ now = MaxTime
    /\ UNCHANGED vars

RegNext ==
    \/ Register \/ CallStep \/ Registered \/ RegFailed \/ RegTimedOut
    \/ Wake \/ Online \/ RegTick \/ RegTerminating

\* The task is spawned on the executor, which polls every ready future;
\* time passes.
RegSpec ==
    /\ Init /\ [][RegNext]_vars
    /\ WF_vars(Register) /\ WF_vars(CallStep) /\ WF_vars(Registered)
    /\ WF_vars(RegFailed) /\ WF_vars(RegTimedOut) /\ WF_vars(Wake)
    /\ WF_vars(Online) /\ WF_vars(RegTick)

-----------------------------------------------------------------------------
(* Properties *)

\* Spec 4.8: the task retries indefinitely, so once the rendezvous relay is
\* online and loses finitely many datagrams, an alloc_forward succeeds,
\* even when the answers take longer than the resend intervals and the
\* 30 s timeout keeps cutting attempts short.
EventuallyRegistered == <>(registered > 0)

\* Spec 4.8 and scenario 3: the HavenLocator reaches the DHT, even when the
\* dht_insert after a successful alloc_forward fails and its error is
\* dropped: the 5 s reannounce loop publishes it again.
EventuallyPublished == <>published

=============================================================================
