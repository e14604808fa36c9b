# lightweight-tunnel: TLA+ models, model checking and proofs

lightweight-tunnel is a VPN in Go. A client and a server exchange IP packets
through packets that look like TCP (raw sockets) or UDP; payloads are sealed with
AES-GCM under a key that the server rotates, are optionally protected by forward
error correction, and clients may talk to each other directly (P2P) after the server
has introduced them. The core is `src/pkg/tunnel/tunnel.go`, one `Tunnel` object
with a dozen goroutines that share maps, mutexes, channels and one connection
variable; `src/pkg/faketcp`, `src/pkg/p2p`, `src/pkg/routing` and `src/pkg/fec` are
the protocols around it.

The models are about what is hard in that code: goroutines that act on state another
goroutine has just changed, packets that are lost, late or out of order, timers that
fire after the situation they were set for, reconnections that overlap with the
teardown of the previous connection, and a server process that ends in the middle of
a rotation. Payload bytes, addresses, logging and header layout are abstracted.

All commands are run in this directory: `tlc -config MCx.cfg MCx` for a run, `tlapm
XProofs.tla` for the proofs of a module.

## 1. Inventory

### Server side of the tunnel (tunnel.go)

* State: `t.clients` (tunnel IP to connection), `t.allClients`, per connection
  `clientIP`, `stopCh`, `stopOnce`, `t.clientRoutes`/`t.advertisedRoutes`, kernel
  routes, `t.stopCh`.
* Operations: `acceptClients`, `handleClient` and its three goroutines
  `clientNetReader`, `clientNetWriter`, `clientKeepalive`; `addClient`,
  `removeClient`, `registerClientRoutes`, `cleanupClientRoutes`,
  `broadcastPeerDisconnect`, `Stop`.
* Hard: a client that reconnects is served by a new connection while the three
  goroutines of the old one are still on their way out; registration, route cleanup
  and the notice to others are separate critical sections.
* Correct when: the IP of a live connection leads to that connection; no dead
  connection is left in a lookup table; whoever is told to stop is torn down.

### Client connection (tunnel.go)

* State: `t.conn`, `connMux`, `lastRecvTime`, positions of `netReader`, `netWriter`,
  `keepalive`, `Stop`.
* Operations: test and use of `t.conn`, drop after an error, `reconnectToServer`
  with its dial loop, `Stop`.
* Hard: `t.conn` is read without the mutex, three goroutines may drop and replace it.
* Correct when: at most one connection is open and it is `t.conn`; an outage ends;
  after `Stop` everybody returns.

### Authentication (tunnel.go, `encrypt_after_auth`)

* State: client flag, server flag per connection, `authResponseChan` (one place), the
  attempt of each waiting goroutine.
* Operations: `performClientAuthentication`, `handleClientAuthentication`, the reader
  that passes the answer on, reconnections with and without authentication.
* Hard: answers that arrive after their attempt; the reader as waiter.
* Correct when: the client's flag implies the server's; nobody waits for ever.

### Key rotation (tunnel.go)

* State: active and previous cipher with generation on each side, the cipher each
  client last used, the key in the config file, the expiry goroutines.
* Operations: `pushConfigUpdate`, `rotateCipher`, `expirePrevCipher`,
  `decryptWithFallback`, `encryptForClient`, `handleConfigUpdate`,
  `persistKeyToConfigFile`.
* Hard: the update is one unacknowledged packet; both keys are on the wire at once;
  a process may end between rotating and writing the file, and the write may fail
  without anyone noticing.
* Correct when: clients are not ahead of the server outside a push, timers of old
  rotations do no harm, and connected clients synchronise. That the file has the key in
  use is not among the promises: a failed write is only logged.

### Forward error correction (fec.go, tunnel.go)

* State: the session counter, shards per session ID, the shard a reader works on.
* Operations: `Encode`, `Decode`, `sendPacketWithFEC`, `processFECShard`, the cleanup.
* Hard: late shards of a packet already decoded, session IDs that wrap, the cleanup
  that removes a session in use.
* Correct when: one lost data shard costs nothing, nothing is handed up twice or mixed,
  `Decode` inverts `Encode`.

### Raw fake-TCP transport (faketcp_raw.go)

* State: `connMap`, `acceptQueue`, per connection `isConnected`, `closed`,
  `recvQueue`, last activity; the dial of a client.
* Operations: `DialRaw`/`performHandshake`, `acceptLoop`, the two-second offer,
  `Accept`, `ReadPacket`, `Close`, `cleanupStaleConnections`, the listener's `Close`.
* Hard: the same remote address dials again while its former connection is half-open,
  queued, closing or being cleaned up.
* Correct when: an open connection keeps its entry, is accepted once, and dead entries
  do not block a new dial.

### P2P manager and routing table (manager.go, peer.go, table.go, tunnel.go)

* State: `m.peers`, `m.connections`, `rt.peers`, `rt.routes`, the `PeerInfo` objects
  that both tables share, a connection's address, RTT, failures, backoff, and
  `handshakeInProgress`.
* Operations: `handlePeerInfoFromServer`, `handlePunchFromServer`,
  `handlePeerDisconnect`, `ConnectToPeer` and its handshake goroutine,
  `handleHandshake`, `handleKeepalive`, `sendKeepalives`, `checkConnectionQuality`,
  `updateRouteForPeer`.
* Hard: two tables under two locks, delayed `ConnectToPeer` calls, a flag that is read
  without its lock, four goroutines that change `Connected`.
* Correct when: the tables agree, a removed peer leaves nothing behind, the route
  follows the connection, a reachable peer is reached again, a lost one is noticed.

### Data path and packet size (tunnel.go, mtu_discovery.go)

* State: `packetPool` and the buffers taken from it, `sendQueue` of the tunnel and of
  each client, the packet in the hand of each reader and writer; `config.MTU`.
* Operations: `tunReader`, `tunReaderServer`, the forwarding part of
  `clientNetReader`, `sendPacketWithRouting`, `sendViaServer`, `netWriter`,
  `clientNetWriter`, `getPacketBuffer`, `releasePacketBuffer`, `prependPacketType`;
  `LoadConfig`, `validateConfig`, `DiscoverOptimalMTU`, the adjustment in `NewTunnel`.
* Hard: a buffer changes hands without a lock, on a dozen paths (queue full, stop, P2P,
  failed send, lost client), and each has to release it exactly once.
* Correct when: a buffer has one owner, what is sent is what was queued, a full queue
  holds nobody up, `Stop` ends everybody, and no packet exceeds a segment, since
  nothing puts segments together again.

### Peer introduction and NAT types (tunnel.go, nat.go, stun.go)

* State: `t.publicAddr`, the goroutines that announce, the server's `lastPeerInfo` of
  each connection, the goroutines of `handleP2PRequest`; `myNATType`.
* Operations: `sendPublicAddrToClient`, `announcePeerInfo`, `retryAnnouncePeerInfo`,
  `reannounceP2PInfoAfterReconnect`, `shouldRequestP2P`, `requestP2PConnection`,
  `handleP2PRequest`, `processP2PConnection`, `sendPeerInfoAndPunch`,
  `broadcastPeerDisconnect`; `DetectNATType`, `detectWithSTUN`,
  `DetectNATTypeWithSTUN`, `hasPublicIP`, `isPrivateIP`, `ShouldInitiateConnection`.
* Hard: two goroutines announce, one of them perhaps an old address; a goroutine on the
  server holds on to connections that may have been replaced; the absence of a reply
  is read as a property of the NAT.
* Correct when: the server ends up with each client's present address, two clients end
  up with each other's, exactly one of them connects, and a NAT is not taken for a
  better one.

### Parts without a model

| part | why |
|---|---|
| `rawsocket.go`, `tun.go`, `iptables.go`, `upnp.go` | system calls and external commands |
| `faketcp.go`, `adapter.go` (UDP mode) | not reachable: `NewTunnel` forces the raw transport (tunnel.go:270) |
| `encryption_detection.go`, `xdp/accelerator.go` | a heuristic on bytes and a cache of it |
| `socks5.go` | a parser and two copy loops per connection, no shared state |
| `crypto.go` | standard library; a payload opens only with its key |
| `config.go`, `main.go` | flags and JSON are copied to a structure; the MTU and the key are in `TunnelMtu` and `KeyRotation` |

## 2. Modules

| module | models | abstract / proofs / runs |
|---|---|---|
| `ClientTable` | what the server promises about tunnel IPs | refined by `ServerRegistry` and `PeerIntroduction` |
| `ServerRegistry` | server side of the tunnel | `ServerRegistryProofs`, `MCServerRegistry` |
| `SingleConnection` | what the client connection promises | refined by `ClientLink` |
| `ClientLink` | client connection | `ClientLinkProofs`, `MCClientLink` |
| `AuthSession` | authentication | proofs in `ClientLinkProofs`, `MCAuthSession` |
| `KeyRotation` | key rotation | `KeyRotationProofs`, `MCKeyRotation` |
| `LossyChannel` | what FEC promises | refined by `FecSession` |
| `FecCodec` | `Encode` and `Decode` as functions | used by `FecSession`, proofs in `FecSessionProofs` |
| `FecSession` | FEC on the wire | `FecSessionProofs`, `MCFecSession` |
| `RawHandshake` | raw transport | `RawHandshakeProofs`, `MCRawHandshake` |
| `P2PLink` | P2P manager and routing table, one peer | `P2PLinkProofs`, `MCP2PLink` |
| `PacketPath` | data path: buffers, queues, readers and writers | `PacketPathProofs`, `MCPacketPath` |
| `TunnelMtu` | the packet size, from the configuration to `Start` | composed with `PacketPath` in `MCPacketPath`, proofs in `PacketPathProofs` |
| `PeerIntroduction` | announcements and introductions, clients and the server | `PeerIntroductionProofs`, `MCPeerIntroduction` |
| `NatDetection` | NAT detection and what two clients make of the types | composed with `PeerIntroduction` in `MCPeerIntroduction`, proofs in `PeerIntroductionProofs` |

An action is one critical section, or one step between two points where another
goroutine can act. Actions carry the name of the function they translate, or of the
step of it; variables carry the name of the field. `PROJECT.json` gives for every
definition the lines it stands for.

**ServerRegistry.** A member of `Conns` is one `ClientConnection`, used once. `pc` is
the position of `handleClient`, `reader` and `helpers` are its three goroutines;
`removeClient` is four steps (`Untrack`, `Unregister`, `CleanupRoutes`,
`BroadcastDisconnect`), as its critical sections are. `ReaderRegisters` is `addClient`
including what it does to a connection that had the IP before. A reader that fails
closes `stopCh`; a TUN write error only ends the reader (`ReaderTunWriteFails`).
`routes` stands for the two route maps, which `routeMux` keeps in step. `ClientTable` is
what all of it amounts to for the IPs: claims, stop signals and departures.

**ClientLink.** The nil test of `t.conn` (`CheckConn`), its evaluation for the call
(`UseConn`) and the call (`IoSucceeds`, `IoFails`) are three steps. A call on nil ends
the process. The idle check compares times and knows nothing of the connection, so it
may drop one at any moment (`ReaderIdle`). Connection names are reused when nobody can
hold the old value, so the number of reconnections is not bounded. `SingleConnection` is
the promise: one slot, filled only when empty, and closed when left.

**AuthSession.** One client, its flag and the server's flag for the current
connection; the requests and answers of a replaced connection are gone. `chan` is
`authResponseChan`. `Start` and `netReader` are the goroutines that wait. An OK or an
INVALID ends an attempt, the latter for good (`GiveUp`); a timeout is retried.

**KeyRotation.** Keys are numbered; a packet is the key it is sealed with and, for a
config update, the key it carries. Sets of packets under way give reordering, `Lose`
gives loss, `Reconnect` and `Restart` the faults; any node may restart, with the key of
its file. `persistKeyToConfigFile` returns silently without a path and only logs a
failed write, so with `WriteFails` every write may leave the file as it was. `behind` and
`unsaved` record that the server has come back with an older key and that its last write
failed. `Timely` restricts a run to keepalives that are frequent against the grace
period, as they are by default.

**FecCodec, FecSession.** A byte is one bit, because XOR works on bits alone. A shard
is the packet it was cut from, its session ID and its index; the counter is read and
written in two steps, because the code shares it without a lock. A decode over shards
of two packets is recorded as `garbage`. `LossyChannel` is the promise to those who send:
packets are lost or late, and nothing worse.

**RawHandshake.** A key is a remote address and port. `loop` is the position of
`acceptLoop`, which holds `l.mu` between lookup and the end of a handler except where
it enqueues data; `offer` is the goroutine that waits two seconds for `acceptQueue`.
The cleanup is two steps, as in the code. Sequence numbers are left out: no branch of
the modelled handlers reads them.

**P2PLink.** Entries of different peers are independent, so one peer is modelled, with
two `PeerInfo` objects (the one in the tables and the one a message brings). NAT types
matter only for the choice of address and initiator; our own type is read at the
moment of use. Time passes in units: ages saturate above both timeouts, the keepalive
and the quality ticker fire when due. `reach` is the set of addresses at which packets
get through. One handshake of the peer is under way at most. The keepalive and the
quality loop run under `m.mu` and are one action for one entry. A handshake goroutine
whose connection was replaced only sends packets and is left out. So is
`handlePeerInfoPacket` (tunnel.go:2618), which would add peers from the P2P receive
goroutine: it is reached by a `PacketTypePeerInfo` on a direct link, and nothing in the
repository sends one there (the only sender over the link, tunnel.go:3327, sends data;
announcements go to the server). `netReader` is therefore the one writer that adds and
removes peers.

**PacketPath.** A buffer is a slot; `pool`, a reader's or a writer's `buf` and a queue
are the places that can refer to it, and `content` is what is in it: the connection the
packet is for and the number of type bytes before it. A release makes the content
`Junk`, because anyone may write to the buffer from then on. A buffer to which nothing
refers stands for a new one. The select with a timer is `Enqueue`, `OfferStopped` and
`OfferTimesOut`; the one after the timer is `Enqueue`, `OfferStopped` and `GiveUp`.
`twice` marks the buffers the forwarding path has released twice (section 4).
Private buffers, encryption and FEC make no difference to who owns a buffer. The TUN
device is a blocking descriptor and `Read` a plain system call (tun.go:75, 218), so a
reader without packets is blocked ("block"), and a close by `Stop` may leave it there.

**TunnelMtu.** `setup` is where a tunnel is between its configuration and `Start`, with
the variables of `DiscoverOptimalMTU`. What a dial of the search finds is not known. It
starts as `Configured`, with a size that `main` lets through, or as `BareZero`, the zero
that `NewTunnel` detects a size for and that `main` never passes on (section 7).
`MCPacketPath` runs it to its end and then the packet path.

**PeerIntroduction.** Connections of a client are numbered and its public address is the
number of the connection it was seen on, so an old address is told from a present one.
`announcer` has a goroutine for each connection and kind: the one that
`PacketTypePublicAddr` starts and the one of `reannounceP2PInfoAfterReconnect`.
`announcePeerInfo` is two steps, since it tests `t.conn` twice; its write may fail on a
connection that is up. A request is not a packet of the model: a client that has packets
for a peer asks every five seconds unless its P2P manager takes the peer for connected,
and that knows nothing of whether the address is the peer's present one
(manager.go:738). So the server may receive a request of a client in `Requesters` at any
time or never (`Requested`), also a late one on a replaced connection. In the same way
an old connection may still be registered by a packet that comes in late (`Registers`).
`spoiled` records what `EventuallyAnnounced` excludes. What a client does with an
introduction is in `P2PLink`; here it replaces the entry.
`addClient` and `removeClient` are one step each; that this is no different from the
goroutines of `ServerRegistry`, as far as the table of IPs goes, is what the two
refinements of `ClientTable` say.

**NatDetection.** `host` is the NAT that is really there and the set of local addresses
(`ips`, empty when they cannot be listed); `hasPublicIP` looks through them, past
loopback and link-local ones. `det` is the detection: the
server that is asked, how it takes a CHANGE-REQUEST, and the test. Each query may be
lost. `Initiates` is the decision of `handlePeerInfoFromServer`.
`MCPeerIntroduction` runs a detection to its end and then an introduction: the
detection of a client comes before its announcement and touches nothing else.

## 3. Plan

The order follows the weight of the behaviour: ownership of IPs on the server, the
client's connection, keys, FEC, authentication, transport, P2P, the data path with the
packet size, and the introduction of peers with NAT detection. These are modelled,
and every invariant and every refinement that a run checks is proved. What is left is
**composition**: of `ClientLink` with `AuthSession` (which goroutine may replace the
connection while another authenticates), and of `PeerIntroduction` with two `P2PLink`
clients in place of its table of peers.

## 4. Runs

Passing runs:

| run | constants | properties |
|---|---|---|
| `registry` | 2 connections, 2 IPs, 1 route, limit 1 | `LiveOwnerReachable`, `CleanedHasNoRoutes`, `TableRefinement`, `StoppedIsTornDown` |
| `link` | reader, writer, `Stop`, 3 names | `OnlyCurrentIsOpen`, `SlotRefinement`, `LinkRecovers`, `StopEndsGoroutines` |
| `rotation` | 1 client, 3 rotations, losses, failed writes, 1 reconnection, 1 restart of any node | `ClientNeverAhead`, `PrevGoesForCause` |
| `rotation_sync` | 2 clients, 2 rotations, no loss, no fault | `EventuallySynchronised` |
| `fec` | 3+2 shards, 2 packets, 2 session IDs, 1 cleanup | `OneLossRecovered`, `DeliveredOnce`, `DecodeIsExact`, `ChannelRefinement` |
| `auth` | 3 attempts, 3 connections, losses | `OkIsEarned`, `AuthEnds` |
| `raw` | 1 remote address, 2 dials, queues of 1 | `OpenIsMapped`, `AcceptedOnce`, `StaleEntriesGo` |
| `p2p` | 2 addresses, 2 NAT types, path that comes and goes | `TablesAgree`, `NothingSurvivesRemoval`, `BackoffCapped`, `RouteFollows`, `NeverGivesUp` |
| `path` | 2 clients, 1 gateway, 2 buffers, queues of 1, both modes, with and without isolation; 17 sizes | `OneOwner`, `SentIntact`, `FullQueueDoesNotBlock`, `StopEndsPath`, `SearchIsComplete`, `NeverSegmented` |
| `intro` | 2 clients, one reconnects and asks, 1 retry, losses; 2 STUN servers, 17 addresses in 20 sets | `GenuineIntroductions`, `EventuallyAnnounced`, `EventuallyIntroduced`, `NeverFlatters`, `RangesAreExact`, `OneInitiator` |

The types of all modules, the invariants `RegistryInv`, `DialIsExclusive` and
`OneRegistered`, `NeverMixed`, which `ChannelRefinement` implies, and the refinement of
`ClientTable` by `PeerIntroduction` are proved for every value of the constants
(section 5) and are not repeated in a run.

What they show:

* `registry`: `removeClient` deletes an entry only if it still owns it, so a late
  teardown never cuts off the replacement; a reader that returns from a blocking read
  after its connection was replaced may still register the IP, but then the former
  owner is told to stop, so a live connection is never silently unreachable; an IP
  changes hands in no other way (`TableRefinement`); routes go with their connection.
* `link`: in every order of drops, redials and `Stop`, at most one connection is open
  and it is `t.conn`; the goroutines implement `SingleConnection`; they recover and
  they stop. A nil call ends the process and is allowed in this run.
* `rotation`, `rotation_sync`: a push always ends with the server on the newest key it
  told anybody, until a restart takes it back to what was saved; the comparison of
  generations protects a newer grace period from an older timer; without losses
  everybody ends on the same key.
* `fec`: the single-loss guarantee holds through reordering and mixing; a session that
  late shards start cannot decode again (nor with any other shape of three data shards
  or more, section 5), also when the cleanup takes a session from under the reader. To
  those above it the whole is a `LossyChannel`.
* `auth`: on the first connection an OK was earned, however late. Later connections are
  excluded because the code lets a stale OK through (section 7).
* `raw`: two-pass cleanup, FIN, `Close`, retransmitted SYNs and reuse of the key leave
  an open connection in the map, and `Accept` returns a connection at most once and only
  when its handshake is complete, through repeated ACKs, data that completes the
  handshake and offers that wait. The exception in `OpenIsMapped` is real: the timer of
  a dropped offer deletes the entry by key.
* `p2p`: see the inventory. `BackoffCapped` and `NeverGivesUp` cross the overflow of the
  backoff shift, `RouteFollows` the unlocked read of `Connected`. The cap depends on
  whether the peer has ever answered, and the wait never exceeds the one that applies.
* `path`: whoever takes a pooled buffer hands it over or releases it once, on every path
  but the one of `path_pool`; hence a writer sends what was queued. A client that does
  not drain its queue costs the others a timer and a packet. `Stop` ends every goroutine
  but a TUN reader that is in `Read` at that moment. The ten attempts of the
  search are enough (the interval has 925 sizes); with a key no packet is segmented,
  except as the only data shard of FEC, whose 13-byte header the adjustment leaves out.
* `intro`: a client's present address reaches the server in the end although an older
  one may be announced first; goroutines that hold replaced connections, lost
  introductions and a DISCONNECT for a client that is back leave no wrong entry for
  good, provided the client keeps asking (`EventuallyIntroduced` has that as its
  premise; section 7 says when a client stops); at no time is a client told an address
  under a wrong name, or one its peer did not have. Detection errs on the side of a
  worse NAT except in the three cases `NeverFlatters` names.

Runs that end in a violation, each against a comment of the code:

| run | property | the code |
|---|---|---|
| `path_pool` | `EveryBufferOneOwner` | `clientNetReader` that gives up on a full queue releases the buffer twice (tunnel.go:2362 and 2367); the pool hands it to two goroutines |
| `auth_reauth` | `ReauthSucceeds` | `netReader` waits for an answer that only `netReader` reads |

### Bounds

* `registry`: every property relates one connection to the one that replaced it, so two
  connections meet every overlap of an old and a new one; two IPs allow the change of
  an IP, and one route is enough because routes are not compared. The proof covers all
  numbers.
* `link`: a name is reused when it is free, and at most `t.conn` and one value per
  goroutine are in use, so three names stand for any number of connections.
  `keepalive` takes the same steps as `netWriter`; the proof covers both sets of
  goroutines.
* `rotation`: three keys give an active, a previous and a forgotten one on each side;
  the properties of one client do not depend on others except through the server's
  previous cipher, which `rotation_sync` has with two clients.
  One packet per direction at a time already allows an update and a keepalive to pass
  each other, because a packet may wait while keys change.
* `fec`: two packets of equal length can be mixed up only by their session ID; the
  counter wraps in the run, but an ID is not in use twice at the same time, as 2^32
  packets and the five-second cleanup lie between two uses in the code. One connection,
  so the counter is not contended (section 7): the reuse of an ID that is still in use,
  which several writers on a server can cause, is not exercised here, and only
  `FecDeliveredOnce` (section 5) covers it. Three data shards are the
  fewest for which "one missing" and "two missing" differ from "all". `DecodeIsExact`
  takes every packet of three bits in shards of at least two, which fill one shard, pad
  the second and leave the third empty; the proofs cover every length and every shape.
* `auth`: three attempts as in the code; the third connection lets answers of the first
  outlive the second.
* `raw`: one address that dials twice is the case of interest, since connections of
  different addresses share only the accept queue; a queue of one place is full after
  one connection.
* `p2p`: timeouts of 0 and periods of 1 make every comparison come out both ways; three
  bits let the backoff shift overflow after two failures. One waiting `ConnectToPeer`
  may overlap a running handshake, a removal and a new introduction.
* `path`: two clients forward to each other and to themselves over the TUN device; two
  buffers and queues of one place let a queue be full while a reader holds a packet and
  a writer another. More buffers only add owners that do not meet; the proof covers all
  numbers. The sizes are the limits in the code and their neighbours. `PoolBound` is 1
  in `path`, where a second copy of a buffer is not followed up, and 2 in `path_pool`.
* `intro`: one client is there first (its own announcement is the same for it), the
  other has two connections, so that an old and a new address, goroutine, announcement,
  waiter and teardown meet; that one is also the one that asks, so that requests come in
  on either of its connections. One retry and one round of
  waiting let each loop both succeed and give up. Two STUN servers let a result come
  from the second after the first has failed; the addresses are the ends of the ranges
  and their neighbours.

Deadlock checking is off where bounds or `Stop` let a behaviour end.

### Fairness

Weak fairness of a goroutine's own step says that the Go scheduler runs a goroutine
that can go on, and that a read returns at its deadline. Beyond that:

* `ClientLink`: strong fairness of taking `connMux` (a Go mutex hands over to starving
  waiters), of seeing the stop channel in a `select` that is executed again and again
  (it picks among ready cases at random), and of a dial that is retried for ever.
* `KeyRotation`: keepalives are sent and delivered (only in `rotation_sync`, where
  nothing is lost), the push loop ends, timers fire.
* `RawHandshake`: only the server's goroutines and the passing of time.
* `P2PLink`: goroutines and time, and strong fairness of a keepalive write that
  succeeds: not every write of a socket that works fails.
* `PacketPath`: timers fire and `ReadPacket` returns at its deadline; after `Stop` a send
  or a reconnection ends; a reader blocked in a TUN `Read` need never return, closed or
  not; strong fairness of the stop case in a
  writer's select. Before `Stop` nothing is assumed of sends, so a queue may stay full.
* `PeerIntroduction`: goroutines go on, a reconnection succeeds and the present
  connection is registered; the public address and the announcement arrive once they are
  written (each is written once); an introduction that is sent again and again arrives at
  some time (strong fairness of `Learns`). Nothing is assumed of requests. The steps
  that a connection takes a bounded number of times share one condition (`Due`): none of
  them can be put off for ever by the others, so it is fairness of each.

Nothing is assumed of clients, peers and the network unless the property's premise says
so.

## 5. Proofs

The theorems hold for every value of the constants under the named assumptions of the
module, which TLC evaluates in every run. They say that the "none" values differ from
real ones (`RegistryAssumption`, `LinkAssumption`, `SessionAssumption`, ...), that
counters, sizes, ports and octets are numbers, that sets of modes are as in the code,
and that an address has four bytes (`DetectionAssumption`: `hasPublicIP` looks at IPv4
addresses only).

| module | theorems | inductive invariant |
|---|---|---|
| `ServerRegistryProofs` | `TypeCorrect`, `OwnerReachable`, `RoutesGoWithConnection`, `RegistryInvariant`, `RegistryRefinesTable` | `TypeOK /\ RegistryInv` |
| `ClientLinkProofs` | `LinkNeverLeaks`, `LinkRefinesSlot` | `LinkInv` |
| | `FirstAuthAgrees` | `AuthTypeOK /\ OkIsEarned` |
| `KeyRotationProofs` | `RotationTypeCorrect`, `ServerCatchesUp` | `TypeOK /\ KeyInv` |
| | `GracePeriodIsKept` | `TypeOK` |
| `FecSessionProofs` | `FecTypeOK` | `TypeOK /\ HandInv` |
| | `FecDecodeIsExact` | none: lemma `DecodeInvertsEncode` |
| | `FecDeliveredOnce` (`D >= 3`) | `OnePlace /\ LittleLeft /\ DeliveredOnce` |
| | `FecNeverMixed` (`OneWriter`) | `WriterIds /\ ReaderIds /\ NeverMixed` |
| | `FecOneLossRecovered` (`OneWriter`) | these and `NoneReady /\ NoneForgotten` |
| | `FecRefinesChannel` (`OneWriter`, `D >= 3`) | `ChannelInv`: those of `FecDeliveredOnce` and `FecNeverMixed` |
| `RawHandshakeProofs` | `OpenKeepsEntry`, `AcceptedAtMostOnce` | `RawInv` |
| `P2PLinkProofs` | `P2PTypes`, `TablesHoldSamePeer`, `RemovedStaysRemoved`, `BackoffKeepsCap` | `P2PInv` |
| `PeerIntroductionProofs` | `IntroductionTypes`, `TableMatchesConnections`, `IntroducedGenuinely`, `IntroductionRefinesTable` | `PeerInv /\ Untouched` |
| | `DetectionNeverFlatters`, `PrivateRangesExact`, `ExactlyOneInitiates` | `NatInv` |
| `PacketPathProofs` | `PathTypes`, `BuffersHaveOneOwner`, `PacketsSentIntact` | `Inv` |
| | `TenAttemptsSuffice`, `KeyedNeverSegmented` | `SetupInv` |

* *Registry.* `LiveOwnerReachable` alone is not inductive: when `Unregister` deletes an
  entry one has to know that the owner of that entry is the connection that is leaving,
  and when an IP is registered that the goroutines of a finished connection cannot do
  it. `RegistryInv` adds where goroutines may run, that an entry's connection has that
  IP and has not left, and that only a connection with an IP goes through the second
  half of `removeClient`. With it each step is one of `ClientTable`: `addClient` a claim,
  because the connection had no IP and so no entry; `Unregister` a departure, because
  the only entry it can have is under its IP; a failing goroutine or `Stop` tells
  connections to stop; the rest does not show.
* *Client link.* A successful dial must find the slot empty; that is `DialIsExclusive`:
  whoever dials holds `connMux`, and while it is held `t.conn` is nil. The refinement
  theorem maps `slot` to `t.conn` and shows each action to be a put, a drop, or a
  stutter.
* *Rotation.* `ClientNeverAhead` compares a client with the server; `KeyInv` compares
  both with the newest key made, which an update under way may carry, and says when the
  server has it: outside a push, unless it is `behind`. A restart puts it behind when
  the file was `unsaved`, which is why the file is in the invariant. `PrevGoesForCause`
  is an action property: of all actions only a receipt, a timer and a restart can clear
  `prev`, and `rotateCipher` never does (`RotateSetsPrev`).
* *Authentication.* The property already speaks of answers under way and in the channel
  and is inductive with the types.
* *FEC, the code.* `DecodeInvertsEncode` is about single bytes, so it needs no induction
  over a packet: byte `i` lies in shard `i \div size` at place `i % size`
  (`PlaceOfByte`), which is present or is the XOR of the others with one parity shard
  (`MissingIsRestored`), and every parity shard is that XOR. It holds for every length,
  with padding and empty shards. XOR is the parity of the number of ones, which
  `XorRestores` follows through the removal of one shard and the addition of another.
* *FEC, delivered once.* `OnePlace`: a shard is under way, in the reader's hand, in one
  session, or gone. A decode needs all data shards but at most one and takes them out
  of circulation, so at most one data shard of a packet that was handed up is left
  (`LittleLeft`), and another decode would need two. That takes three data shards: with
  fewer, and two parity shards, what is left of a packet can decode again, and the
  code accepts such shapes. No assumption is made about session IDs, so several writers
  that share the counter, or a counter that wraps, do not break it.
* *FEC, mixing and recovery.* With `OneWriter` the ID is the packet's number
  (`WriterIds`), hence a session holds shards of one packet (`ReaderIds`). `OneWriter`
  is what the code gives a client: one connection, and fewer than 2^32 packets (in the
  code the cleanup after five seconds separates two uses of an ID, which the model
  does not time). On a server several writers share the counter without a lock
  and can give two packets for one client the same ID, so the theorem is not stated
  there. For the recovery, a session at rest is not yet decodable (`NoneReady`), and a
  shard of a packet not handed up is lost, under way, in hand or in its session
  (`NoneForgotten`): when nothing is under way, what is not lost is in the session, so
  if that were decodable it would have been decoded.
* *FEC, the channel.* `AddShard` is the only step that hands something up. Under
  `OneWriter` the shards it decodes are of one packet, which has been sent, and with
  three data shards or more this packet was not handed up before; both facts come from
  the invariants above, and the step is `HandUp` of that packet (`AddShardRefines`).
* *Raw transport.* `LoopInv` says that the entry found at the lookup is the entry while
  `l.mu` is held, `MapInv` that entries are under their own keys and offers belong to
  established connections. `OfferInv` follows a connection through its one offer, which
  is made, waits, is queued once, and is then accepted or dropped: the count of how often
  `Accept` has returned it is 1 from there on, and no step makes a second offer.
* *P2P.* `LockInv` says that a route update and an addition work on an existing entry
  and that a removal has already emptied the routing table; with it the two tables and
  the connection stay in step. `BackoffBound` shows that the wait computed after a
  failure is within the cap, also through the overflow, because a shifted-out value counts
  as no delay; where the cap changes, at the first answer, the wait starts again from 0
  (`CapBound` bounds both caps for the types).
* *Packet path.* `OneOwner` and `SentIntact` need each other: a hand-over keeps the
  packet intact because nobody else refers to the buffer. `Hands` adds which positions
  of a goroutine have a buffer in hand (a release at "top" would be of nothing), and
  `OfferedIntact` that what a reader offers is the packet for that queue. Buffers in
  `twice` are left out of all of them, and a double release puts the buffer there in
  the same step; a buffer leaves `twice` only when nothing refers to it any more.

* *Packet size.* The search is an interval that at least halves: after `n` attempts it
  has at most `SizesLeft[n + 1]` sizes (925, 462, ..., 0), so the tenth empties it, and
  the best size stays one below the interval. `KeyedNeverSegmented` follows the size
  from there, or from the configuration, through the adjustment to `Start`; `ShardFits`
  shows that a shard fits for every number of data shards from two on.
* *Introduction.* `GenuineIntroductions` speaks of what is on file, under way to a client
  and in a client's table. It needs to know the same of what comes before: that a packet
  that is built, or under way to the server, has its client's name and an address no
  younger than the connection it goes out on (`GenuineAnnouncements`), that addresses and
  registrations are of connections there have been (`Past`), and that a goroutine that
  waits holds connections of two clients (`TwoClients`), so that whenever it wakes up
  nobody is introduced to itself. `OneRegistered` is needed in both directions: a new
  registration closes the right connection because the table has the only one that is
  open, and a late removal of a closed one finds that the entry is not its own.
* *Introduction, the table.* `AddClient` is a claim and `Removes` a departure by
  `OneRegistered`. `Untouched` says that connections still to be made are in their first
  phase, so that a reconnection does not revive one that has left, and that what is
  registered, late or not, is a connection there has been.
* *NAT types.* `NeverFlatters` is inductive with the types: each result is judged in the
  step that finds it. `bytesInRange` compares both bounds in one pass. `BlocksAreExact`
  shows that this is exact when the end has only 255s after the first byte that differs
  from the start; for other ranges it is not, and the ranges of `isPrivateIP` are all of
  that form. `OneInitiator` is a comparison of levels, ports and octets and needs no
  invariant beyond the types.

Left to TLC: everything temporal that needs fairness (`StoppedIsTornDown`,
`LinkRecovers`, `StopEndsGoroutines`, `EventuallySynchronised`, `AuthEnds`,
`StaleEntriesGo`, `RouteFollows`, `NeverGivesUp`, `FullQueueDoesNotBlock`,
`StopEndsPath`, `EventuallyAnnounced`, `EventuallyIntroduced`), which the prover does not
treat.

## 6. Hazards

`PROJECT.json` lists them with their lines and the properties that would catch them.
Those without a property are behaviours the code has: the models contain them, so a
property that forbids them would fail. Some contradict a comment or a document of the
repository; section 7 names the lines. Runs that show a violation are kept for the two
disagreements of section 4, which take several goroutines to come about.

## 7. Behaviours worth knowing

The models contain these; no run is devoted to them.

* `removeClient` of a replaced connection still tells all clients that the IP is gone
  (tunnel.go:733); they forget a live peer until the server names it again. It also
  deletes kernel routes that the replacement has installed.
* The client limit is tested at accept, on registered clients (tunnel.go:1208): more
  connections than the limit may register.
* A failed TUN write ends the server's reader without closing `stopCh` (tunnel.go:2421);
  writer and keepalive keep the connection registered.
* Routes advertised before an IP is registered are never cleaned up.
* `t.conn` is tested and then used without `connMux` (tunnel.go:2008, "Ensure we have a
  live connection before writing"): another goroutine may clear it in between and the
  call panics (`Crash` in `ClientLink`).
* A goroutine whose call on the old connection fails late closes the connection another
  one has just made (tunnel.go:1736); so does the idle check, when the connection was
  made by `netWriter` or `keepalive` and nothing has been received yet (tunnel.go:1672).
  A dial that succeeds after `Stop` stays open.
* A config update that is lost, or sent while a client reconnects, locks that client out
  until the next one.
* The first packet under the new key, from any client, ends the grace period of all
  (tunnel.go:3635), although the comment at 4155 says that the previous cipher stays
  active for it; what the others send is dropped until they switch.
* A server restarted between `rotateCipher` and the config file comes back with the old
  key. So does any node whose file could not be written, or that was started without
  one: `persistKeyToConfigFile` returns silently or logs (tunnel.go:3813, config.go:228),
  and the file stays stale until the next rotation.
* XOR parity repairs one lost data shard whatever the number of parity shards, while the
  repository's README speaks of recovering up to three lost packets. The session
  counter is shared without a lock.
* An OK that arrives after its attempt stays in `authResponseChan` and answers a later
  request; reconnections by idle check, writer and keepalive do not authenticate at all.
* `Accept` throws away what arrived between the handshake and `Accept`
  (faketcp_raw.go:809, which speaks of control packets); a retransmitted SYN finds the
  half-open entry and is not answered; sending to a `recvQueue` that `Close` closes
  panics.
* P2P: every handshake is answered by a handshake; after the local timeout the address
  may be one nobody answered from; after 63 failures the backoff is gone; replies from
  predicted ports are not recognised.
* P2P: `checkConnectionQuality` refreshes `LastSeen` every 30 s from an RTT measured once
  (manager.go:1195), and the stale check wants 60 s without: a peer that vanished stays
  connected and its data goes to the dead address, although the comment at 981 says that
  the loop detects stale connections. For the same reason a client whose peer has a new
  address, and that missed the DISCONNECT, does not ask for it: `IsConnected`
  (manager.go:738) sees an entry that is connected.
* P2P: `handlePeerInfoPacket` (tunnel.go:2618) is not reachable between tunnels of this
  repository. If a peer did send `PacketTypePeerInfo` over a direct link, the P2P receive
  goroutine would add to both tables concurrently with `netReader`, and the tables could
  end up with different objects.
* MTU: config.go:17, the generated configurations (main.go:211, 228, 246) and the comment
  at tunnel.go:296 say that 0 means detection, but `LoadConfig` replaces 0 by 1400
  (config.go:115) and `validateConfig` rejects a 0 from the command line (main.go:193),
  so a tunnel started by `main` never detects; `internal/config` has no other user.
  `SearchIsComplete` is about the search as it is written. A server whose MTU is more than
  128 below a client's panics when it forwards the client's largest packets
  (`forwardBuf[:len(payload)]`, tunnel.go:2336).
* tun.go:304 and tunnel.go:592 say that closing the TUN device unblocks a pending
  `Read`. The device is opened as a blocking descriptor (tun.go:75) and read with a
  plain system call (tun.go:218), which a close in another thread does not necessarily
  end; `Stop` gives up waiting after five seconds (tunnel.go:649). `StopEndsPath`
  excepts a reader in `Read`.
* With client isolation the server's own packets for clients are dropped as well; those
  for a network behind a client are not (tunnel.go:1484). A server's TUN write that
  fails with ENOBUFS five times ends the reader, although the comment at 2391 says "same
  as client tunWriter".
* The public address and the announcement are sent once per connection; if one is lost,
  or the announcement of an old address overtakes the new one, the client is not
  introduced, or wrongly, until it reconnects. Data or an announcement that comes in
  late on an old connection takes the IP from the new one.
* NAT: `Query` does not look at where a reply comes from, so behind a STUN server that
  ignores CHANGE-REQUEST every NAT is a full cone; test 4 compares ports of different
  sockets, so a port-restricted NAT often looks symmetric, and the fallback always says
  symmetric for a private address it can dial from; 100.64.0.0/10 counts as public. The
  better side initiates (nat.go:96), while the comment at 47 and the server
  (tunnel.go:4307) want the worse one. Two clients of the same level with the same port
  and last octet wait for each other until the PUNCH.
