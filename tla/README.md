# TLA+ models of the earendil daemon

This directory holds TLA+ specifications of the concurrent parts of the
earendil daemon (`src/src/…`). Each one is checked with TLC. Every module is
translated from the Rust source, and `PROJECT.json` "map" names the lines
behind each definition. Code that lives outside `src/` appears only as
environment steps, taken from `spec.md`: the N2R socket, CryptSession, the
relay graph, the neighbour table and the DHT.

## The system and how its parts interact

| Part | Source | State | Operations | Concurrency |
|---|---|---|---|---|
| Reply-block store | `daemon/reply_block_store.rs` | `LruCache<Fingerprint, ReplyBlockDeque>`, deque capacity 1000 | `insert`, `insert_batch`, `get` | `&mut self`, so every call is atomic |
| Link connection | `daemon/link_connection.rs` 36-188 | bounded channels `send_outgoing`/`recv_incoming` (100 each), the multiplex's substreams | `connect`, `send_raw_packet`, `recv_raw_packet`, `connection_loop`, `onion_keepalive`, `handle_onion_packets` | `Immortal` tasks (connection loop, keepalive), one pump task per substream, user tasks |
| Mux RPC transport | `daemon/link_connection.rs` 190-237, 131-142 | `conn_pool: ConcurrentQueue<(PooledConn, Instant)>` | `get_conn`, `call_raw` (with its scopeguard), the server task of an `n2n_control` substream | any number of callers share one transport |
| Link protocol service | `daemon/link_connection.rs` 239-308 | the `RELAY_GRAPH` and `NEIGH_TABLE` of the context | `sign_adjacency`, `adjacencies`, plus read-only `authenticate`, `info`, `identity` | a neighbour calls it over the mux RPC |
| Haven socket | `socket/haven_socket.rs` | moka `Cache<Endpoint, CryptSession>` (TTL 30 min), decrypted channel | `bind`, `send_to`, `recv_from`, `recv_task`, the registration task | concurrent `send_to`s, `recv_task` under `Immortal::respawn` |
| Global RPC transport | `global_rpc/transport.rs` | one N2R socket per call | `call_raw`: resend with timeouts 2, 4, 8, … s | used by the haven registration task and by the control protocol |
| Control protocol | `daemon/control_protocol_impl.rs` | `sockets: DashMap<String, Socket>` | `bind_n2r`, `bind_haven`, `send_message`, `recv_message`, `send_global_rpc`, `graph_dump`, … | one task per control RPC |

How the parts interact:
- A link's onion packets flow through the pumps of `LinkConnection`.
- Its control calls (`LinkClient`) flow through `MultiplexRpcTransport` into the peer's `LinkProtocolImpl`.
- A haven socket sends through CryptSessions over an N2R socket.
- The haven socket's registration task calls the rendezvous relay through the Global RPC transport.
- Control RPC tasks bind, use and replace the daemon's sockets (N2R and haven) through the `sockets` DashMap.

## Hard behaviours, and which property watches each

- **Cancellation of `call_raw`.** The scopeguard pools the substream on every exit, including a dropped future. A later call can then read a stale response. Watched by `ResponseMatchesRequest`.
- **Two callers sharing `conn_pool`.** Watched by `NoSharedConn`.
- **Completion of calls.** Watched by `CallsComplete`.
- **LRU eviction and the deque's capacity edge.** Watched by `EvictsLeastRecentlyUsed` and `ImplementsSpec`.
- **`adjacencies`' `dedup`, which removes only consecutive repeats.** Checked by `AdjacenciesDuplicateFree` in `LinkProtocolDedup.cfg`, which TLC finds violated.
- **`sign_adjacency`'s validity check.** Watched by `SignsOnlyRelays`.
- **Several pumps draining one outgoing channel.** A pump whose peer end is gone still takes packets off it, and they are lost. The datagrams are unreliable by contract, so no property is violated; `PumpUp` models the loss.
- **A full incoming channel, or a datagram of the wrong size, ending a pump, and the keepalive being respawned.** The link recovers only through the respawn: watched by `KeepaliveRestored`.
- **The server task of a substream ending, or `connection_loop` dying, while callers still hold or pool that substream.** The caller's write fails or its read sees EOF, and the call returns an error: watched by `CallsComplete`.
- **`try_get_with` building a session while a ClientHs installs one for the same endpoint.** moka inserts the built value over the one inserted meanwhile: `SessionReplacedOnlyByClientHs` (violated).
- **The haven session cache.** A session read before an `await` is removed by key after it (`SendFailureEvictsOwnSession`). `recv_task` errors happen through `?` (`SessionRemovedOnlyBySendFailureOrTTL`).

- **The registration's 30 s timeout racing `call_raw`'s resends.** The call is dropped between resends, answers in flight are lost, and the next attempt restarts at the 2 s timer. Watched by `EventuallyRegistered` and `RegTypeOK`.
- **A `dht_insert` that fails after a successful `alloc_forward`.** Its result is dropped, so only a later round can publish the locator: watched by `EventuallyPublished`.
- **A DashMap `Ref` held across an `.await`.** A `bind` on the same shard blocks until a datagram arrives (`BindReturns`, violated). Every call returns when peers keep sending and the lock and the socket are assumed fair to waiters (`CallsReturn`).

`PROJECT.json` "hazards" lists these, plus the ones no property covers yet. Each uncovered hazard has a note.

## Modules

### `MuxRpc` (with `MCMuxRpc`)
Models the client pool and the server of `n2n_control` substreams.

**State**
- `pool` is the ConcurrentQueue, a sequence of `[conn, fresh]`. Whether an entry is still fresh stands in for `Instant`; the `Age` step expires it.
- Each substream has two FIFOs: `toSrv` (request lines) and `toCli` (response lines).
- Each caller has:
  - `pc`: idle, write or read;
  - `held`: the conn inside its scopeguard;
  - `req`: the request it sent;
  - `result`.
- A request and its response are both represented by the request id.

**Actions**
- `GetConn` is the whole of `get_conn` (pop stale entries, reuse a fresh one, or `open_conn`, which may fail) plus taking the guard.
- `WriteReq` is `write_all`.
- `ReadResp` is `read_line` and parsing. It then drops the guard (`Release`).
- `Cancel` drops the future at one of its awaits. The guard still runs.
- `Serve` is one iteration of the server task at lines 131-142.
- `ServeFails` is that server task ending (a line that does not parse, or a failed write); `dead` holds its substream. `LoopDies` is `connection_loop` ending, which ends every substream's server task. `losses` counts both, up to `MaxLoss`.
- On a dead substream, `WriteReq` may fail and `ReadResp` may read EOF, which `from_str` rejects. Both return an error (`result = None`), and the scopeguard still pools the substream.

### `ReplyBlockStore`, `ReplyBlockStoreSpec` (with `MCReplyBlockStore`)
`ReplyBlockStoreSpec` is the abstract store. It keeps the set of usable blocks per fingerprint:
- it keeps the `DequeCap` newest blocks;
- `get` returns the newest usable block once;
- at most `Size` fingerprints are held, and taking in a new one may drop one other fingerprint's blocks.

`ReplyBlockStore` models the LRU as a key sequence, least recently used first, with one deque per key:
- `DequeInsert` is `ReplyBlockDeque::insert`.
- `StoreInsert` is `insert`: `get_mut`, or `put`, which evicts the head when full.
- `StoreInsertBatch` is `insert_batch`, written as a `FoldLeft`.
- `NewDeque` is `ReplyBlockDeque::new`, and `DequePop` is its `pop`: `pop_back`, or no block on an empty deque.
- `Get` is `get_mut` followed by `DequePop`.

`Abs` is the refinement mapping, and `ImplementsSpec == Abs!Spec`. The history variable `usedSince` records the keys used since each key was last used.

### `LinkProtocol` (with `MCLinkProtocol`)
Fingerprints are numbers, ordered by `<`. An adjacency is a `[left, right]` record.

**Actions from the source**
- `SignAdjacency` is the whole of `sign_adjacency`: the validity check, then the insert, which fails on a duplicate.
- `Adjacencies` is `adjacencies`. It is built from these operators:
  - `FlatMaps` produces every sequence `flat_map` can produce, for every enumeration order the graph may use (`Enumerations`);
  - `RelayEdge` is the filter;
  - `Dedup` is Itertools' consecutive `dedup`, written as a RECURSIVE operator.

- `GraphDump` is `graph_dump` (`control_protocol_impl.rs` 160-233), abstracted from its text to the sequence of edges it lists:
  - any enumeration order of the graph (`SetToSeqs`);
  - in the human view, only `RelayEdge`s;
  - `SortedByLeft` is the stable `sorted_by` on the left fingerprint, written as a fold over the distinct lefts.
  `dump` holds the last listing.

**Environment actions, from spec section 3**
- `NeighUp` and `NeighDown`.
- `LearnIdentity` and `LearnAdjacency`.

### `LinkConnection` (with `MCLinkConnection`)
Models both ends of one link.

**State**
- Each end has an outgoing channel and an incoming channel, both bounded by `Cap`.
- Each end of each substream is "free", "pending" (opened but not yet accepted), "up" or "dead".
- Each substream carries a set of datagrams in flight in each direction.
- `keep[s]` is the substream of end `s`'s keepalive.

**Actions**
- `SendRawPacket` is `try_send`, which drops the packet when the channel is full.
- `RecvRawPacket`.
- `KeepaliveOpen` is `open_conn("onion_packets")`.
- `Accept` is the accept loop's onion branch.
- `PumpUp` and `PumpDown` are the `up` and `dn` loops. A `PumpUp` whose other end is gone still takes the packet, which is lost. In `PumpDown` a datagram of the wrong size (`try_from_bytes(..)?`) or a full incoming channel (`try_send(pkt)?`) ends the pump.
- `PumpEnds` is the end of a pump. It covers `race`: either loop failing drops the substream end. If it was the keepalive's pump, `?` ends `onion_keepalive`, which `Immortal` respawns.
- `PeerClosed` is the pump failing because the other end is gone.
- `LoseDatagram` is the unreliable transport losing a datagram.

### `HavenSocket` (with `MCHavenSocket`)
Models the session cache of one haven socket.

**State**
- `cache[e]` is a session number, or 0. Sessions are numbered in creation order.
- Each sender `t` has `pc`, `ep` (its endpoint) and `enc` (the session it obtained).

**Actions**
- `SendTo` is the entry of `try_get_with`: the cached session (`sending`), joining a build already running for the endpoint (`wait`), or starting one (`init`).
- `InitDone` ends a build. On success moka inserts the new session, over any session inserted meanwhile, and every `Coalesced` waiter gets it. On failure every waiter returns the error.
- `SendDone` is the `send_outgoing` await. On failure it does `remove(&endpoint)`.
- `RecvClientHs` is a ClientHs: the `CryptSession::new` insert, or a failure that ends `recv_task`.
- `RecvForward` is a ServerHs or Regular message. It goes to the cached session, or, when there is none, the "stray msg" bail ends the task.
- `Respawn` is `Immortal` restarting `recv_task`.
- `Expire` is the 30-minute TTL.

### `GlobalRpc`
Models one `call_raw` of `global_rpc/transport.rs` on a clock in whole seconds. It has no specification of its own: `HavenRegistration` composes its actions.

**State**
- `now`, and `up` (the destination is online).
- `pc`: idle, send, wait, done or failed.
- `retries` and `deadline` (the armed timer).
- `inflight`: the arrival instants of answers on the call's socket.
- `lost`: the faults so far.

**Actions**
- `Call` is entering `call_raw`: a fresh socket, `retries = 0`.
- `Send` is `send_to` and arming the timer of `2^(retries+1)` s. A failing `send_to` returns through `?`.
- `Transmit` is the N2R network: answered after a delay from `Delays`, lost while the destination is offline, or lost as a fault.
- `Recv` is the receive branch of `select`. It is polled first, so an answer that has arrived wins over a fired timer. A `recv_from` error is a fault, and `?` returns it.
- `Timeout` is the timer branch: `retries += 1`, and the loop sends again.
- `ServerUp` is the destination coming online at `UpAt`.

### `HavenRegistration` (with `MCHavenRegistration`)
Models the registration task of a server-mode haven socket (`socket/haven_socket.rs` 71-110). It EXTENDS `GlobalRpc`.

**State**
- `reg`: register or sleep.
- `regStart`: when the current `alloc_forward` started.
- `wake`: when the current sleep ends.
- `registered`: the successful `alloc_forward`s.
- `published`: a locator has reached the DHT.

**Actions**
- `Register` starts `alloc_forward(..).timeout(30 s)`, which is a new `call_raw`.
- `CallStep` is a step of that call.
- `Registered` is `Some(Ok)`: the `dht_insert`, which reaches the DHT or fails (a fault); its result is dropped, then a 5 s sleep.
- `RegFailed` is `Some(Err)`: a 3 s sleep.
- `RegTimedOut` is `None`: the call is dropped with its socket, then a 3 s sleep.
- `Wake` ends a sleep.
- `RegTick` advances the clock when nothing is due.

### `ControlSockets` (with `MCControlSockets`)
Models the `sockets` DashMap of `ControlProtocolImpl` under concurrent control tasks.

**State**
- `sockets[k]`: the socket bound under id `k`. Sockets are numbered in bind order.
- `queued[s]`: the datagrams waiting at socket `s`.
- `readers[h]`: the tasks holding a `Ref` into shard `h`.
- Per task: `pc`, `key`, `held` (the socket its `Ref` points to) and `ret`.

**Actions**
- `StartBind` is `bind_n2r` / `bind_haven` up to the insert.
- `Insert` is `sockets.insert`. It waits until no `Ref` into the shard is alive, and replaces any socket under the same id.
- `SktInfo` is `skt_info`.
- `Get` is the `get` of `send_message` or `recv_message`: `NoSocket`, or a `Ref` that read-locks the shard.
- `SendDone` and `RecvDone` end the `send_to` / `recv_from` await and drop the `Ref`.
- `Deliver` is a datagram arriving from the network.

## Runs

| Run | Checks | Result |
|---|---|---|
| `mux_cancel_crosstalk` (`MuxRpcCancel.cfg`) | `ResponseMatchesRequest`, with cancellation | **violated**: c1 writes request 1 and is cancelled; its substream goes back to the pool, and c2's call reads response 1 for request 2 |
| `mux_liveness` (`MuxRpcLiveness.cfg`) | `TypeOK`, `NoSharedConn`, `CallsComplete`, with cancellation, aging, open failures and the loss of a server task or of `connection_loop` | holds |
| `reply_block_store` (`ReplyBlockStore.cfg`) | `TypeOK`, `ImplementsSpec` (refinement), `EvictsLeastRecentlyUsed` | holds |
| `link_protocol_relay` (`LinkProtocolRelay.cfg`) | `TypeOK` (every stored, signed and returned adjacency has left < right), with every action fired | holds |
| `link_protocol_sign_relay` (`LinkProtocolSign.cfg`) | `SignsOnlyRelays` | **violated**: a client neighbour's adjacency is signed |
| `link_pumps` (`LinkConnection.cfg`) | `TypeOK`, `KeepaliveRestored` | holds |
| `haven_sessions` (`HavenSocket.cfg`) | `TypeOK`, `SessionRemovedOnlyBySendFailureOrTTL` | holds |
| `haven_stale_enc` (`HavenSocketStaleEnc.cfg`) | `SendFailureEvictsOwnSession` | **violated**: t1 sends on session 1, a ClientHs installs session 2, t1's send fails and removes session 2 |
| `haven_hs_race` (`HavenSocketHsRace.cfg`) | `SessionReplacedOnlyByClientHs` | **violated**: t1 starts a build for e1, a ClientHs installs session 1, and t1's build overwrites it with session 2 |
| `haven_registration` (`HavenRegistration.cfg`) | `RegTypeOK`, `EventuallyRegistered`, `EventuallyPublished`, with answers slower than the timers and up to 2 faults | holds |
| `control_sockets` (`ControlSockets.cfg`) | `TypeOK`, `CallsReturn`, with peers that send | holds |
| `control_bind_blocked` (`ControlSocketsBindBlocked.cfg`) | `BindReturns`, with peers that may stay silent, under the state constraint `BindOtherIdsOnly` (no bind names an id in use) | **violated**: c1 starts binding k1; c2 gets a `Ref` to k2's socket and awaits `recv_message`; c1's insert of k1, in the same shard, never returns |

`PROJECT.json` "findings" records what each violation means for the code.

Three further configurations are kept beside the runs:
- `MuxRpcNoCancel.cfg` checks `ResponseMatchesRequest` when callers never cancel, and it holds.
- `LinkConnectionFullChannel.cfg` checks `FullChannelOnlyDrops`, and TLC finds it violated: a full incoming channel ends the pump (`try_send(pkt)?`), whereas spec 4.5 and 7 say the packet is dropped.
- `LinkProtocolDedup.cfg` checks `AdjacenciesDuplicateFree`, and TLC finds it violated: `dedup` removes only consecutive repeats, so edge 1–2 queried with fps `<<1, 2>>` comes back twice.

A divergence seen in the source has no run of its own. `call_raw` arms `2u64.pow(retries + 1)` seconds (transport.rs:52), so resends follow each other by 2, 4, 8, 16 s. Spec 4.4 gives the same formula, `2^(retries+1)`, but says it "starts at 4 s", and section 8 lists 4, 8, 16, 32 s: the spec contradicts itself, and the code follows its formula.

Each property of a passing run also has a mutant in "mutants". A mutant is an operator that reproduces a plausible slip in the code, and TLC finds the property broken when the mutant replaces the original. Examples: `pop_front` instead of `pop_back`, `peek_mut` instead of `get_mut`, a dropped `l < r` check, and an unrespawned keepalive.

## Bounds, and why they are enough

- **MuxRpc:** 2 callers, 3 substreams, 4 requests (3 in `MuxRpcLiveness.cfg`), at most 1 server-task loss.
  - Two callers are the least that can share a pool.
  - Three substreams let a second open happen after an aged-out entry.
  - Four requests allow reuse after a cancellation and after aging.
  - One loss reaches a caller holding, or later pooling, a dead substream; a second adds only more of the same.
  - `MuxRpcNoCancel.cfg` uses symmetry over callers and substreams. No property it checks names one of them.
- **ReplyBlockStore:** 3 fingerprints, `Size` 2, `DequeCap` 2, 5 blocks, batches of up to 3.
  - Three fingerprints with `Size` 2 force eviction.
  - A batch of 3 with `DequeCap` 2 forces the deque to drop its front inside one `insert_batch`.
- **LinkProtocol:** fingerprints {1, 2, 3}, with "me" = 2, and queries of length 2.
  - Me in the middle gives neighbours both left and right of us.
  - A two-element query is the shortest that can repeat an edge non-adjacently.
- **LinkConnection:** channel capacity 1, 3 substream ids, 3 packets.
  - Capacity 1 makes channels fill.
  - Three ids allow a keepalive at each end plus a reopened one while a dead end lingers.
- **HavenSocket:** 2 endpoints, 2 concurrent senders, 3 sessions. That is enough for a replacement session to appear while a send on the old one is in flight, for two senders to coalesce on one build, and for a ClientHs to land during a build.
- **HavenRegistration:** the relay is online from t = 2, round trips of 1 or 17 s, up to 2 faults, 90 s of clock.
  - A 17 s answer outlives the 2, 4 and 8 s timers, so a call resends before it.
  - Answers after the 16 s timer, and faults, make the 30 s timeout cut attempts short.
  - 90 s leaves room for a timed-out attempt, its 3 s pause and a successful one.
- **ControlSockets:** 2 tasks; ids k1 and k2 in one shard and k3 in another; 3 binds; 1 datagram queued per socket.
  - Two ids in one shard are needed for the lock to block a bind of a different id.
  - Three binds allow rebinding an id while a call holds a `Ref` on it.
  - Without `BindOtherIdsOnly`, the shortest counterexample is a bind of the very id a receive is using. The constraint keeps only behaviours where that cannot happen, so the counterexample shows the cross-id block.

Each module has a `Terminating` step, or its bounds leave no deadlock. So the bound of the model is not reported as a deadlock. Deadlock is checked in every run except `control_sockets`. There, a state with no successor is a task blocked for good, and `CallsReturn` reports it: an idle task can always call `skt_info`.

## Fairness

- **MuxRpc:** `WriteReq`, `ReadResp` and `Serve` are weakly fair. `smolscale` runs every ready task, and the server task of a substream loops for as long as the substream is alive. Callers are not obliged to call, and a cancellation is not obliged to happen.
- **LinkConnection:** `KeepaliveOpen`, `Accept` and `PeerClosed` are weakly fair. `Immortal::respawn(RespawnStrategy::Immediate)` restarts a finished keepalive at once. The accept loop is always waiting in `accept_conn`. A pump whose peer end is gone gets an error from `recv_urel`. Users and the network get no fairness.

- **HavenRegistration:** every step of the task and of its call is weakly fair (the executor polls ready futures), and so is the clock. Faults are bounded by `MaxLoss`, so the relay eventually answers.
- **ControlSockets:**
  - Completing a send is weakly fair (`SendDone`): the executor polls it.
  - `Insert` and `RecvDone` are strongly fair. This is an assumption, not something the code guarantees: DashMap's shard lock lets new readers in while a writer waits, and two receivers on one socket race for each datagram. `CallsReturn` therefore holds only under that assumption, and it does not watch a receiver that loses every race.
  - Peers are obliged to send to an awaited socket only when `PeersSend` holds. The `control_bind_blocked` run drops that obligation.

## Not modelled, and why

- `my_routes` and `havens_info` in `control_protocol_impl.rs` format configuration into text. No state changes, and nothing a property could tell apart. (`graph_dump` is modelled, by the edges it lists.)
- `AnonIdentities` memoises `blake3(id)`, a pure function of the id. A cached secret and a re-derived one are equal, so no property can tell them apart, and the identity a bind uses is abstracted away.
- `send_global_rpc`, `insert_rendezvous` and `get_rendezvous` only forward to the Global RPC client and the DHT, which are outside `src/`.
- The cryptography: signatures, CryptSession handshakes and onion packet contents. These are outside `src/`, or they are values that no property tells apart.
- The N2R socket, DHT, relay graph and neighbour table are outside `src/`. They appear only as environment steps.

## Plan for the next modules

1. **`HavenSocket` message routing.** `recv_task` hands ServerHs and Regular messages to whichever session the endpoint maps to now (line 190). Telling whether a message belongs to that session needs CryptSession's handshake state, which is outside `src/`.
2. **`LinkConnection` composition with `MuxRpc`.** Build a composition in which `connect`'s `authenticate` call runs over the mux transport while `connection_loop` is already serving.
3. **Abstract specifications.** Write an abstract `call_raw` (a call eventually returns the answer, or fails) with `GlobalRpc` shown to refine it, and do the same for the socket table.
