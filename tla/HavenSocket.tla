---------------------------- MODULE HavenSocket ----------------------------
(***************************************************************************)
(* The crypt-session cache of one HavenSocket (src/socket/haven_socket.rs) *)
(* under concurrent send_to calls and the Immortal recv_task.              *)
(*                                                                         *)
(* crypt_sessions maps a remote endpoint to a CryptSession; sessions are   *)
(* numbered in creation order.  CryptSession itself (handshake, crypto,    *)
(* its own send and receive) is outside this repository's sources: here   *)
(* its constructor and its send_outgoing may succeed or fail, as the spec  *)
(* (sections 4.8 and 7) says they can.  Time-to-live eviction by the moka  *)
(* cache is the Expire step.                                               *)
(***************************************************************************)
EXTENDS Naturals

CONSTANTS
    Remotes,      \* remote endpoints
    Senders,      \* tasks calling send_to concurrently
    MaxSessions   \* bound on the number of CryptSessions created

ASSUME MaxSessions \in Nat \ {0}

VARIABLES
    cache,     \* crypt_sessions: cache[e] is a session, 0 when absent
    nSess,     \* CryptSessions created so far
    pc,        \* pc[t]: "idle"; in try_get_with, "init" running the build or
               \* "wait" blocked on another caller's; "sending" in send_outgoing
    ep,        \* ep[t]: the endpoint of t's current send_to
    enc,       \* enc[t]: the session t obtained from try_get_with
    outcome,   \* outcome[t]: result of t's last send_to: "none", "ok", "err"
    rtask,     \* recv_task: "running", or "restarting" after an error
    fed        \* sessions that have been handed an incoming message

vars == <<cache, nSess, pc, ep, enc, outcome, rtask, fed>>

Sessions == 1..MaxSessions

TypeOK ==
    /\ cache \in [Remotes -> 0..MaxSessions]
    /\ nSess \in 0..MaxSessions
    /\ pc \in [Senders -> {"idle", "init", "wait", "sending"}]
    /\ ep \in [Senders -> Remotes]
    /\ enc \in [Senders -> 0..MaxSessions]
    /\ outcome \in [Senders -> {"none", "ok", "err"}]
    /\ rtask \in {"running", "restarting"}
    /\ fed \subseteq Sessions
    /\ \A t \in Senders : pc[t] = "sending" => enc[t] \in Sessions

\* bind: an empty session cache, and the recv_task spawned.
Init ==
    /\ cache = [e \in Remotes |-> 0]
    /\ nSess = 0
    /\ pc = [t \in Senders |-> "idle"]
    /\ ep = [t \in Senders |-> CHOOSE e \in Remotes : TRUE]
    /\ enc = [t \in Senders |-> 0]
    /\ outcome = [t \in Senders |-> "none"]
    /\ rtask = "running"
    /\ fed = {}

(***************************************************************************)
(* send_to, up to the await on send_outgoing: crypt_sessions.try_get_with. *)
(* The init closure, CryptSession::new, runs synchronously on the calling *)
(* executor thread; moka coalesces the calls for one key, so a second     *)
(* caller for the endpoint blocks until the first one's build is done.    *)
(***************************************************************************)
SendTo(t, e) ==
    /\ pc[t] = "idle"
    /\ ep' = [ep EXCEPT ![t] = e]
    /\ outcome' = [outcome EXCEPT ![t] = "none"]
    /\ \/ /\ cache[e] # 0
          /\ enc' = [enc EXCEPT ![t] = cache[e]]
          /\ pc' = [pc EXCEPT ![t] = "sending"]
       \/ /\ cache[e] = 0
          /\ \E u \in Senders : pc[u] = "init" /\ ep[u] = e
          /\ pc' = [pc EXCEPT ![t] = "wait"]
          /\ UNCHANGED enc
       \/ /\ cache[e] = 0
          /\ \A u \in Senders : pc[u] = "init" => ep[u] # e
          /\ pc' = [pc EXCEPT ![t] = "init"]
          /\ UNCHANGED enc
    /\ UNCHANGED <<cache, nSess, rtask, fed>>

\* The callers coalesced on t's build of its endpoint: t and its waiters.
Coalesced(t) == {u \in Senders : u = t \/ (pc[u] = "wait" /\ ep[u] = ep[t])}

\* Mutant of InitDone: a failed CryptSession::new is not returned by ?,
\* and send_to goes on to send on no session.
InitDoneNoErrReturn(t) ==
    /\ pc[t] = "init"
    /\ \/ /\ nSess < MaxSessions
          /\ nSess' = nSess + 1
          /\ cache' = [cache EXCEPT ![ep[t]] = nSess + 1]
          /\ enc' = [u \in Senders |-> IF u \in Coalesced(t) THEN nSess + 1 ELSE enc[u]]
       \/ /\ enc' = [u \in Senders |-> IF u \in Coalesced(t) THEN 0 ELSE enc[u]]
          /\ UNCHANGED <<cache, nSess>>
    /\ pc' = [u \in Senders |-> IF u \in Coalesced(t) THEN "sending" ELSE pc[u]]
    /\ UNCHANGED <<ep, outcome, rtask, fed>>

\* The build ends.  Its session is inserted under the endpoint (moka's
\* try_get_with inserts init's output, over whatever an insert put there
\* meanwhile) and returned to t and to every caller waiting on it; a
\* failed build is not cached, and all of them return the shared error
\* (map_err ... ? gives HavenEncryptionError).
InitDone(t) ==
    /\ pc[t] = "init"
    /\ \/ /\ nSess < MaxSessions
          /\ nSess' = nSess + 1
          /\ cache' = [cache EXCEPT ![ep[t]] = nSess + 1]
          /\ enc' = [u \in Senders |-> IF u \in Coalesced(t) THEN nSess + 1 ELSE enc[u]]
          /\ pc' = [u \in Senders |-> IF u \in Coalesced(t) THEN "sending" ELSE pc[u]]
          /\ UNCHANGED outcome
       \/ /\ outcome' = [u \in Senders |-> IF u \in Coalesced(t) THEN "err" ELSE outcome[u]]
          /\ pc' = [u \in Senders |-> IF u \in Coalesced(t) THEN "idle" ELSE pc[u]]
          /\ UNCHANGED <<cache, nSess, enc>>
    /\ UNCHANGED <<ep, rtask, fed>>

\* enc.send_outgoing(body).await: on error, crypt_sessions.remove(&endpoint)
\* and HavenEncryptionError.
SendDone(t) ==
    /\ pc[t] = "sending"
    /\ \/ /\ outcome' = [outcome EXCEPT ![t] = "ok"]
          /\ UNCHANGED cache
       \/ /\ outcome' = [outcome EXCEPT ![t] = "err"]
          /\ cache' = [cache EXCEPT ![ep[t]] = 0]
    /\ pc' = [pc EXCEPT ![t] = "idle"]
    /\ enc' = [enc EXCEPT ![t] = 0]
    /\ UNCHANGED <<nSess, ep, rtask, fed>>

\* Mutant of RecvClientHs: the old session is removed before the new one is
\* built, so a failed build leaves the endpoint without a session.
RecvClientHsRemoveFirst(e) ==
    /\ rtask = "running"
    /\ \/ /\ nSess < MaxSessions
          /\ nSess' = nSess + 1
          /\ cache' = [cache EXCEPT ![e] = nSess + 1]
          /\ UNCHANGED rtask
       \/ /\ cache' = [cache EXCEPT ![e] = 0]
          /\ rtask' = "restarting"
          /\ UNCHANGED nSess
    /\ UNCHANGED <<pc, ep, enc, outcome, fed>>

\* recv_task receives HavenMsg::ClientHs from e: a new CryptSession seeded
\* with the handshake replaces any cached one; if CryptSession::new fails,
\* its ? ends recv_task before the insert.
RecvClientHs(e) ==
    /\ rtask = "running"
    /\ \/ /\ nSess < MaxSessions
          /\ nSess' = nSess + 1
          /\ cache' = [cache EXCEPT ![e] = nSess + 1]
          /\ UNCHANGED rtask
       \/ /\ rtask' = "restarting"
          /\ UNCHANGED <<cache, nSess>>
    /\ UNCHANGED <<pc, ep, enc, outcome, fed>>

\* recv_task receives ServerHs or Regular from e: it goes to the cached
\* session's send_incoming; without one, bail!("stray msg") ends the task,
\* as does a failing send_incoming.
RecvForward(e) ==
    /\ rtask = "running"
    /\ \/ /\ cache[e] # 0
          /\ fed' = fed \cup {cache[e]}
          /\ UNCHANGED rtask
       \/ /\ rtask' = "restarting"
          /\ UNCHANGED fed
    /\ UNCHANGED <<cache, nSess, pc, ep, enc, outcome>>

\* Immortal::respawn with RespawnStrategy::Immediate.
Respawn ==
    /\ rtask = "restarting"
    /\ rtask' = "running"
    /\ UNCHANGED <<cache, nSess, pc, ep, enc, outcome, fed>>

\* The moka cache's time_to_live of 30 minutes evicts e's session.
Expire(e) ==
    /\ cache[e] # 0
    /\ cache' = [cache EXCEPT ![e] = 0]
    /\ UNCHANGED <<nSess, pc, ep, enc, outcome, rtask, fed>>

Next ==
    \/ \E t \in Senders :
          SendDone(t) \/ InitDone(t) \/ \E e \in Remotes : SendTo(t, e)
    \/ \E e \in Remotes : RecvClientHs(e) \/ RecvForward(e) \/ Expire(e)
    \/ Respawn

Spec == Init /\ [][Next]_vars

-----------------------------------------------------------------------------
(* Properties *)

\* A session leaves the cache only through a failed send_outgoing to its
\* endpoint or through TTL expiry (spec sections 4.8 and 8): a stray
\* message, or a ClientHs whose CryptSession::new fails, never costs an
\* endpoint the session it has.  An expiry step changes nothing else.
SessionRemovedOnlyBySendFailureOrTTL ==
    [][\A e \in Remotes :
          (cache[e] # 0 /\ cache'[e] = 0) =>
             \/ \E t \in Senders :
                   /\ pc[t] = "sending" /\ ep[t] = e
                   /\ outcome'[t] = "err"
             \/ UNCHANGED <<nSess, pc, ep, enc, outcome, rtask, fed>>]_vars

\* A failed send_outgoing evicts the session that failed (spec 4.8 and 7:
\* the session is evicted from the cache), never a newer session that a
\* ClientHs, or another send_to, put in its place while it was sending.
SendFailureEvictsOwnSession ==
    [][\A t \in Senders :
          (pc[t] = "sending" /\ outcome'[t] = "err") =>
             cache[ep[t]] \in {0, enc[t]} \/ cache'[ep[t]] = cache[ep[t]]]_vars

\* A cached session is replaced only by recv_task installing the session of
\* a newer ClientHs (spec 4.8 and 8: a ClientHs replaces any prior session;
\* otherwise a session stays until a transport error or the TTL): a
\* send_to's build that was already running when the ClientHs came never
\* overwrites the session the handshake set up.
SessionReplacedOnlyByClientHs ==
    [][\A e \in Remotes :
          (cache[e] # 0 /\ cache'[e] \notin {0, cache[e]}) =>
             UNCHANGED <<pc, ep, enc, outcome>>]_vars

=============================================================================
