------------------------------ MODULE MuxRpc ------------------------------
(***************************************************************************)
(* The multiplex-backed JSON-RPC transport of a link connection           *)
(* (src/daemon/link_connection.rs): the client side MultiplexRpcTransport *)
(* with its pool of idle "n2n_control" substreams, and the server side    *)
(* task that answers one line per request line on each such substream.    *)
(*                                                                         *)
(* A substream is reliable and in order in each direction, so it is two   *)
(* FIFO sequences.  A request and its response are both represented by    *)
(* the request's id: the server answers request r with response r, so a   *)
(* call has no cross-talk exactly when the id it reads back is its own.   *)
(* Pool age is abstracted to a flag: an entry is fresh until the Age step *)
(* says that POOL_TIMEOUT has elapsed since it was pushed.                 *)
(*                                                                         *)
(* A server task can end: its own ? on a read, parse or write error, or  *)
(* connection_loop dying on accept_conn's error, which drops the          *)
(* TaskReaper and with it every server task; Immortal then restarts the   *)
(* loop, which serves substreams opened afterwards.  A substream whose    *)
(* server task is gone is closed: the client's read_line then reads end  *)
(* of stream, and call_raw returns the parse error of the empty line.     *)
(***************************************************************************)
EXTENDS Naturals, Sequences, FiniteSets

CONSTANTS
    Callers,       \* concurrent tasks calling call_raw on one transport
    Conns,         \* substream identities open_conn may return
    MaxCalls,      \* bound on the number of requests issued
    Cancellation,  \* TRUE: callers may drop an in-flight call_raw future
    MaxLoss,       \* bound on server-task endings (ServeFails, LoopDies)
    NoConn

ASSUME MaxCalls \in Nat \ {0}
ASSUME Cancellation \in BOOLEAN /\ MaxLoss \in Nat
ASSUME NoConn \notin Conns

VARIABLES
    pool,      \* conn_pool: FIFO of [conn, fresh] (ConcurrentQueue)
    opened,    \* substreams opened so far by open_conn("n2n_control")
    toSrv,     \* toSrv[s]: request lines written to substream s, unread
    toCli,     \* toCli[s]: response lines written back on s, unread
    pc,        \* pc[c]: where caller c is in call_raw
    held,      \* held[c]: the PooledConn owned by caller c's scopeguard
    req,       \* req[c]: id of the request of caller c's current call
    result,    \* result[c]: [req, resp] of c's last completed call, or None
    nextId,    \* number of requests issued so far
    dead,      \* substreams whose server task has ended
    losses     \* server-task endings so far

vars == <<pool, opened, toSrv, toCli, pc, held, req, result, nextId, dead, losses>>

None == [req |-> 0, resp |-> 0]
ReqIds == 1..MaxCalls

PoolEntry == [conn : Conns, fresh : BOOLEAN]

TypeOK ==
    /\ pool \in Seq(PoolEntry)
    /\ opened \subseteq Conns
    /\ toSrv \in [Conns -> Seq(ReqIds)]
    /\ toCli \in [Conns -> Seq(ReqIds)]
    /\ pc \in [Callers -> {"idle", "write", "read"}]
    /\ held \in [Callers -> opened \cup {NoConn}]
    /\ \A c \in Callers : (pc[c] = "idle") = (held[c] = NoConn)
    /\ req \in [Callers -> 0..MaxCalls]
    /\ result \in [Callers -> [req : 0..MaxCalls, resp : 0..MaxCalls]]
    /\ nextId \in 0..MaxCalls
    /\ dead \subseteq opened
    /\ losses \in 0..MaxLoss

Init ==
    /\ pool = <<>>
    /\ opened = {}
    /\ toSrv = [s \in Conns |-> <<>>]
    /\ toCli = [s \in Conns |-> <<>>]
    /\ pc = [c \in Callers |-> "idle"]
    /\ held = [c \in Callers |-> NoConn]
    /\ req = [c \in Callers |-> 0]
    /\ result = [c \in Callers |-> None]
    /\ nextId = 0
    /\ dead = {}
    /\ losses = 0

(***************************************************************************)
(* get_conn: pop entries until one younger than POOL_TIMEOUT is found;    *)
(* stale entries popped on the way are discarded.  The loop only uses the *)
(* non-suspending ConcurrentQueue::pop, so it is one step.                 *)
(***************************************************************************)
FirstFresh == CHOOSE i \in 1..Len(pool) + 1 :
                  /\ \A j \in 1..i - 1 : ~pool[j].fresh
                  /\ i <= Len(pool) => pool[i].fresh

\* Mutant of GetConn: the reused entry is peeked and left in the pool.
GetConnPeek(c) ==
    /\ pc[c] = "idle"
    /\ nextId < MaxCalls
    /\ LET i == FirstFresh IN
       \/ /\ i <= Len(pool)
          /\ held' = [held EXCEPT ![c] = pool[i].conn]
          /\ pool' = SubSeq(pool, i, Len(pool))
          /\ pc' = [pc EXCEPT ![c] = "write"]
          /\ UNCHANGED opened
       \/ /\ i = Len(pool) + 1
          /\ \E s \in Conns \ opened :
                /\ held' = [held EXCEPT ![c] = s]
                /\ opened' = opened \cup {s}
          /\ pool' = <<>>
          /\ pc' = [pc EXCEPT ![c] = "write"]
    /\ nextId' = nextId + 1
    /\ req' = [req EXCEPT ![c] = nextId + 1]
    /\ UNCHANGED <<toSrv, toCli, result, dead, losses>>

\* Mutant of GetConn: open_conn's error is swallowed instead of returned
\* by ?, and the call goes on without a substream.
GetConnOpenErrIgnored(c) ==
    /\ pc[c] = "idle"
    /\ nextId < MaxCalls
    /\ LET i == FirstFresh IN
       \/ /\ i <= Len(pool)
          /\ held' = [held EXCEPT ![c] = pool[i].conn]
          /\ pool' = SubSeq(pool, i + 1, Len(pool))
          /\ pc' = [pc EXCEPT ![c] = "write"]
          /\ UNCHANGED opened
       \/ /\ i = Len(pool) + 1
          /\ \E s \in Conns \ opened :
                /\ held' = [held EXCEPT ![c] = s]
                /\ opened' = opened \cup {s}
          /\ pool' = <<>>
          /\ pc' = [pc EXCEPT ![c] = "write"]
       \/ /\ i = Len(pool) + 1
          /\ pool' = <<>>
          /\ pc' = [pc EXCEPT ![c] = "write"]
          /\ UNCHANGED <<held, opened>>
    /\ nextId' = nextId + 1
    /\ req' = [req EXCEPT ![c] = nextId + 1]
    /\ UNCHANGED <<toSrv, toCli, result, dead, losses>>

\* The whole of get_conn followed by the scopeguard taking ownership.
\* Either a fresh pooled conn is reused, or (pool drained) a new substream
\* is opened; open_conn may fail, and the error returns before the guard.
GetConn(c) ==
    /\ pc[c] = "idle"
    /\ nextId < MaxCalls
    /\ LET i == FirstFresh IN
       \/ /\ i <= Len(pool)
          /\ held' = [held EXCEPT ![c] = pool[i].conn]
          /\ pool' = SubSeq(pool, i + 1, Len(pool))
          /\ pc' = [pc EXCEPT ![c] = "write"]
          /\ UNCHANGED opened
       \/ /\ i = Len(pool) + 1
          /\ \E s \in Conns \ opened :
                /\ held' = [held EXCEPT ![c] = s]
                /\ opened' = opened \cup {s}
          /\ pool' = <<>>
          /\ pc' = [pc EXCEPT ![c] = "write"]
       \/ /\ i = Len(pool) + 1
          /\ pool' = <<>>
          /\ UNCHANGED <<held, opened, pc>>
    /\ nextId' = nextId + 1
    /\ req' = [req EXCEPT ![c] = nextId + 1]
    /\ UNCHANGED <<toSrv, toCli, result, dead, losses>>

\* Mutant of WriteReq: the line terminator is not written, so the server's
\* lines() never yields the request.
WriteReqNoNewline(c) ==
    /\ pc[c] = "write"
    /\ pc' = [pc EXCEPT ![c] = "read"]
    /\ UNCHANGED <<pool, opened, toSrv, toCli, held, req, result, nextId, dead, losses>>

\* scopeguard drop: the conn is pushed back, tagged with Instant::now()
Release(c) ==
    /\ pool' = Append(pool, [conn |-> held[c], fresh |-> TRUE])
    /\ held' = [held EXCEPT ![c] = NoConn]
    /\ pc' = [pc EXCEPT ![c] = "idle"]

\* write_all of serde_json::to_string(&req) + "\n".  On a closed substream
\* the write may fail, and ? returns the error through the scopeguard.
WriteReq(c) ==
    /\ pc[c] = "write"
    /\ \/ /\ toSrv' = [toSrv EXCEPT ![held[c]] = Append(@, req[c])]
          /\ pc' = [pc EXCEPT ![c] = "read"]
          /\ UNCHANGED <<pool, held, result>>
       \/ /\ held[c] \in dead
          /\ result' = [result EXCEPT ![c] = None]
          /\ Release(c)
          /\ UNCHANGED toSrv
    /\ UNCHANGED <<opened, toCli, req, nextId, dead, losses>>

\* Mutant of ReadResp: the line is parsed but left in the reader.
ReadRespPeek(c) ==
    /\ pc[c] = "read"
    /\ toCli[held[c]] # <<>>
    /\ result' = [result EXCEPT ![c] = [req |-> req[c],
                                        resp |-> Head(toCli[held[c]])]]
    /\ Release(c)
    /\ UNCHANGED <<opened, toSrv, toCli, req, nextId, dead, losses>>

\* read_line then serde_json::from_str; the response is returned as is,
\* and the guard returns the conn to the pool.  On a closed substream with
\* nothing left to read, read_line reads "" and from_str's error is
\* returned, through the same guard.
ReadResp(c) ==
    /\ pc[c] = "read"
    /\ \/ /\ toCli[held[c]] # <<>>
          /\ result' = [result EXCEPT ![c] = [req |-> req[c],
                                              resp |-> Head(toCli[held[c]])]]
          /\ toCli' = [toCli EXCEPT ![held[c]] = Tail(@)]
       \/ /\ toCli[held[c]] = <<>>
          /\ held[c] \in dead
          /\ result' = [result EXCEPT ![c] = None]
          /\ UNCHANGED toCli
    /\ Release(c)
    /\ UNCHANGED <<opened, toSrv, req, nextId, dead, losses>>

\* The caller drops the call_raw future at its await point (a caller
\* imposed deadline).  The scopeguard still runs and pools the conn.
Cancel(c) ==
    /\ Cancellation
    /\ pc[c] \in {"write", "read"}
    /\ Release(c)
    /\ UNCHANGED <<opened, toSrv, toCli, req, result, nextId, dead, losses>>

\* Server task for an "n2n_control" substream: read one line, respond_raw,
\* write the response line.  The response carries the request's id.
Serve(s) ==
    /\ s \notin dead
    /\ toSrv[s] # <<>>
    /\ toSrv' = [toSrv EXCEPT ![s] = Tail(@)]
    /\ toCli' = [toCli EXCEPT ![s] = Append(@, Head(toSrv[s]))]
    /\ UNCHANGED <<pool, opened, pc, held, req, result, nextId, dead, losses>>

\* The server task of s ends through one of its ?s (a read, parse or write
\* error on its substream), and drops the substream.
ServeFails(s) ==
    /\ s \in opened \ dead
    /\ losses < MaxLoss
    /\ losses' = losses + 1
    /\ dead' = dead \cup {s}
    /\ UNCHANGED <<pool, opened, toSrv, toCli, pc, held, req, result, nextId>>

\* mplex.accept_conn().await? fails: connection_loop returns, its
\* TaskReaper is dropped with every server task, and Immortal respawns the
\* loop, which serves only substreams opened from now on.
LoopDies ==
    /\ opened \ dead # {}
    /\ losses < MaxLoss
    /\ losses' = losses + 1
    /\ dead' = opened
    /\ UNCHANGED <<pool, opened, toSrv, toCli, pc, held, req, result, nextId>>

\* Time passes: an idle pooled conn becomes older than POOL_TIMEOUT.
Age(i) ==
    /\ pool[i].fresh
    /\ pool' = [pool EXCEPT ![i].fresh = FALSE]
    /\ UNCHANGED <<opened, toSrv, toCli, pc, held, req, result, nextId, dead, losses>>

\* All MaxCalls requests have been issued and answered or abandoned: the
\* model's bound is reached, not a state the transport gets stuck in.
Terminating ==
    /\ nextId = MaxCalls
    /\ \A c \in Callers : pc[c] = "idle"
    /\ UNCHANGED vars

Next ==
    \/ \E c \in Callers :
          GetConn(c) \/ WriteReq(c) \/ ReadResp(c) \/ Cancel(c)
    \/ \E s \in Conns : Serve(s) \/ ServeFails(s)
    \/ LoopDies
    \/ \E i \in 1..Len(pool) : Age(i)
    \/ Terminating

\* The executor runs every ready task and the server task of every
\* substream, so each step of a started call, and serving, is weakly fair.
Fairness ==
    /\ \A c \in Callers : WF_vars(WriteReq(c)) /\ WF_vars(ReadResp(c))
    /\ \A s \in Conns : WF_vars(Serve(s))

Spec == Init /\ [][Next]_vars /\ Fairness

-----------------------------------------------------------------------------
(* Properties *)

\* No cross-talk (spec section 8): every call_raw that returns a response
\* returns the response to its own request, however the calls of several
\* callers and the pool's reuse of substreams interleave.
ResponseMatchesRequest ==
    \A c \in Callers : result[c] # None => result[c].resp = result[c].req

\* A pooled substream is owned by at most one in-flight call_raw: no two
\* callers hold the same conn and a held conn is never also in conn_pool.
NoSharedConn ==
    /\ \A c, d \in Callers : c # d /\ held[c] # NoConn => held[c] # held[d]
    /\ \A c \in Callers, i \in 1..Len(pool) : held[c] # pool[i].conn
    /\ \A i, j \in 1..Len(pool) : i # j => pool[i].conn # pool[j].conn

\* Every call that obtained a substream eventually returns (or is
\* cancelled): the server answers every line and the caller reads it.
CallsComplete ==
    \A c \in Callers : pc[c] # "idle" ~> pc[c] = "idle"

=============================================================================
