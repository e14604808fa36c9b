------------------------------ MODULE P2PLink ------------------------------
(***************************************************************************)
(* A client's direct (P2P) link to one other client: the P2P manager's     *)
(* entry for the peer, the handshake goroutine that opens the NATs, the    *)
(* keepalive and quality loops, and the routing table, which shares the    *)
(* PeerInfo object with the manager.  The server names peers and asks for  *)
(* connections (PeerInfo, PUNCH, DISCONNECT); netReader applies that to    *)
(* the two tables one after the other while all other goroutines run.      *)
(* netReader is their only writer: handlePeerInfoPacket, which would also  *)
(* add peers, on the receive goroutine, acts on a PeerInfo packet that     *)
(* came over the direct link, and nothing sends one there.  The only call  *)
(* of the manager's SendPacket (sendPacketWithRouting) sends data packets. *)
(*                                                                         *)
(* Entries of different peers are independent, so one peer is modelled.    *)
(* The peer itself and the NATs are the environment: packets pass through  *)
(* the addresses in reach.  Time advances in units; the two tickers fire   *)
(* when they are due.  A connection whose entry was replaced or removed    *)
(* keeps its handshake goroutine, which only sends: it is left out.        *)
(***************************************************************************)
EXTENDS Integers

CONSTANTS
    Addrs,           \* UDP addresses of the peer
    NoAddr,          \* no local address; no packet
    Paths,           \* sets of addresses that work at the same time
    NATs,            \* NAT types that occur: "unknown", "cone", "symmetric"
    Infos,           \* what the server may say of the peer
    Objs,            \* PeerInfo objects; two suffice
    NoPeer,          \* no entry in a table
    NoConn,          \* no entry in m.connections
    KeepalivePeriod, \* m.keepaliveInterval
    QualityPeriod,   \* the ticker of qualityMonitorLoop
    StaleTimeout,    \* ConnectionStaleTimeout
    InitialTimeout,  \* InitialConnectionTimeout
    MaxBackoff,      \* MaxBackoffMultiplier
    InitialBackoff,  \* InitialBackoffMultiplier
    IntWidth,        \* bits of an int; 64 in the code
    MaxPending       \* bound: goroutines about to call ConnectToPeer

ASSUME P2PAssumption ==
    /\ NoAddr \notin Addrs
    /\ Paths \subseteq SUBSET Addrs
    /\ NATs \subseteq {"unknown", "cone", "symmetric"} /\ "unknown" \in NATs
    /\ Infos \subseteq [public : Addrs, local : Addrs \cup {NoAddr}, nat : NATs]
    /\ Infos # {}
    /\ NoPeer \notin Objs
    /\ KeepalivePeriod \in Nat \ {0} /\ QualityPeriod \in Nat \ {0}
    /\ StaleTimeout \in Nat /\ InitialTimeout \in Nat
    /\ MaxBackoff \in Nat /\ InitialBackoff \in Nat
    /\ IntWidth \in Nat \ {0} /\ MaxPending \in Nat \ {0}

VARIABLES
    obj,      \* the PeerInfo objects
    mPeer,    \* m.peers: the manager's object for the peer
    rtPeer,   \* rt.peers: the routing table's object for the peer
    route,    \* rt.routes: the route to the peer
    updater,  \* the route a goroutine inside updateRouteForPeer has decided on
    conn,     \* m.connections
    reader,   \* where netReader is in a handler
    pending,  \* goroutines that sleep before they call ConnectToPeer
    answer,   \* source of a handshake of the peer that is under way (bound: one)
    found,    \* receivePackets has it, and has found the peer it is from
    reach,    \* addresses at which packets get through
    ka, qa    \* time until the keepalive and the quality ticker fire

vars == <<obj, mPeer, rtPeer, route, updater, conn, reader, pending,
          answer, found, reach, ka, qa>>
tableVars == <<mPeer, rtPeer, route, updater>>
netVars == <<answer, found, reach>>
timeVars == <<ka, qa>>

\* Ages are not told apart once they exceed both timeouts.
MaxAge == 1 + (IF StaleTimeout > InitialTimeout THEN StaleTimeout ELSE InitialTimeout)
MaxWait == KeepalivePeriod * (IF MaxBackoff > InitialBackoff THEN MaxBackoff ELSE InitialBackoff)

PeerInfos == [info : Infos, connected : BOOLEAN, throughServer : BOOLEAN,
              age : 0..MaxAge]
Connections == [remote : Addrs, public : Addrs, rtt : BOOLEAN, established : BOOLEAN,
                inProgress : BOOLEAN, phase : {"local", "burst", "done"},
                failures : 0..IntWidth, wait : 0..MaxWait]

TypeOK ==
    /\ obj \in [Objs -> PeerInfos]
    /\ mPeer \in Objs \cup {NoPeer}
    /\ rtPeer \in Objs \cup {NoPeer}
    /\ route \in {"none", "direct", "server"}
    /\ updater \in {"free", "direct", "server"}
    /\ conn \in Connections \cup {NoConn}
    /\ reader \in {"idle", "adding", "removing"}
    /\ pending \in 0..MaxPending
    /\ answer \in Addrs \cup {NoAddr}
    /\ found \in BOOLEAN
    /\ reach \in Paths
    /\ ka \in 0..KeepalivePeriod
    /\ qa \in 0..QualityPeriod

\* NewPeerInfo.
Fresh(info) == [info |-> info, connected |-> FALSE, throughServer |-> FALSE, age |-> 0]

\* An object that no table holds is garbage; its contents do not matter.
Held(o) == [p \in Objs |-> IF p = o THEN obj[p] ELSE Fresh(CHOOSE i \in Infos : TRUE)]

Init ==
    /\ obj = [o \in Objs |-> Fresh(CHOOSE i \in Infos : TRUE)]
    /\ mPeer = NoPeer
    /\ rtPeer = NoPeer
    /\ route = "none"
    /\ updater = "free"
    /\ conn = NoConn
    /\ reader = "idle"
    /\ pending = 0
    /\ answer = NoAddr
    /\ found = FALSE
    /\ reach \in Paths
    /\ ka = KeepalivePeriod
    /\ qa = QualityPeriod

\* isPeerConnected and IsConnected; sendPacketWithRouting sends data directly
\* when IsConnected holds, and through the server otherwise.
isPeerConnected == mPeer # NoPeer /\ obj[mPeer].connected
IsConnected == conn # NoConn /\ isPeerConnected

\* A handshake is sent to an address: the peer answers if it gets through
\* (handleHandshake answers every handshake with a handshake).
Ask(a) == answer' = IF a \in reach /\ ~found THEN a ELSE answer

-----------------------------------------------------------------------------
(* The routing table. *)

\* The decision that takes the peer's ThroughServer flag into account.
UpdateDecidesByFlag ==
    /\ updater = "free"
    /\ rtPeer # NoPeer
    /\ updater' = IF obj[rtPeer].connected /\ ~obj[rtPeer].throughServer
                  THEN "direct" ELSE "server"
    /\ UNCHANGED <<obj, mPeer, rtPeer, route, conn, reader, pending, netVars,
                   timeVars>>

\* updateRouteForPeer, first half, in UpdateRoutes of routeUpdateLoop or of
\* updateRoutesAfterP2PAttempt: peer.Connected is read under rt.mu only, so
\* that the peer may change before the second half.
UpdateDecides ==
    /\ updater = "free"
    /\ rtPeer # NoPeer
    /\ updater' = IF obj[rtPeer].connected THEN "direct" ELSE "server"
    /\ UNCHANGED <<obj, mPeer, rtPeer, route, conn, reader, pending, netVars,
                   timeVars>>

\* updateRouteForPeer, second half: SetThroughServer, then the route.
UpdateApplies ==
    /\ updater # "free"
    /\ obj' = [obj EXCEPT ![rtPeer].throughServer = (updater = "server")]
    /\ route' = updater
    /\ updater' = "free"
    /\ UNCHANGED <<mPeer, rtPeer, conn, reader, pending, netVars, timeVars>>

-----------------------------------------------------------------------------
(* netReader: messages of the server about the peer. *)

\* handlePeerInfoFromServer and handlePunchFromServer up to the routing
\* table: a new object replaces the old one there; its route is the server.
RouteAddPeer(info, o) ==
    /\ reader = "idle" /\ updater = "free"
    /\ o \notin {mPeer, rtPeer}
    /\ pending < MaxPending
    /\ obj' = [obj EXCEPT ![o] = [Fresh(info) EXCEPT !.throughServer = TRUE]]
    /\ rtPeer' = o
    /\ route' = "server"
    /\ reader' = "adding"
    /\ UNCHANGED <<mPeer, updater, conn, pending, netVars, timeVars>>

\* nat.CanTraverseWith, with CanEstablishP2PWith's rule for unknown types.
\* Our own type, mine, is whatever the detection, which runs in goroutines of
\* its own, has found by the time it is read.
CanEstablishP2P(mine, nat) == ~(mine = "symmetric" /\ nat = "symmetric")

\* Who connects after a PeerInfo message: a NAT type is unknown, or ours is the
\* better one.  Equal ones are decided by ports and IPs, here by chance.
ShouldInitiate(mine, nat, tie) ==
    IF "unknown" \in {mine, nat} THEN TRUE
    ELSE IF mine = nat THEN tie ELSE mine = "cone"

\* The manager's AddPeer with an object of its own.
ManagerAddsCopy(kind, mine, tie) ==
    /\ reader = "adding"
    /\ \E o \in Objs \ {rtPeer} :
         /\ mPeer' = o
         /\ obj' = [obj EXCEPT ![o] = obj[rtPeer]]
    /\ reader' = "idle"
    /\ UNCHANGED <<rtPeer, route, updater, conn, pending, netVars, timeVars>>

\* The rest of the two handlers: the manager gets the same object, and unless
\* P2P is not feasible a goroutine will call ConnectToPeer: always after a
\* PUNCH, and after a PeerInfo if this side should initiate.
ManagerAddPeer(kind, mine, tie) ==
    /\ reader = "adding"
    /\ mPeer' = rtPeer
    /\ obj' = Held(rtPeer)
    /\ LET nat == obj[rtPeer].info.nat
       IN  pending' = IF CanEstablishP2P(mine, nat)
                            /\ (kind = "punch" \/ ShouldInitiate(mine, nat, tie))
                      THEN pending + 1 ELSE pending
    /\ reader' = "idle"
    /\ UNCHANGED <<rtPeer, route, updater, conn, netVars, timeVars>>

\* handlePeerDisconnect: first the routing table ...
RouteRemovePeer ==
    /\ reader = "idle" /\ updater = "free"
    /\ rtPeer' = NoPeer
    /\ route' = "none"
    /\ reader' = "removing"
    /\ UNCHANGED <<obj, mPeer, updater, conn, pending, netVars, timeVars>>

\* ... then the manager forgets the peer and its connection.
ManagerRemovePeer ==
    /\ reader = "removing"
    /\ mPeer' = NoPeer
    /\ obj' = Held(NoPeer)
    /\ conn' = NoConn
    /\ reader' = "idle"
    /\ UNCHANGED <<rtPeer, route, updater, pending, netVars, timeVars>>

-----------------------------------------------------------------------------
(* ConnectToPeer and the handshake goroutine. *)

NewConnection(remote, public, inProgress, phase) ==
    [remote |-> remote, public |-> public, rtt |-> FALSE, established |-> FALSE,
     inProgress |-> inProgress, phase |-> phase, failures |-> 0, wait |-> 0]

\* The connection ConnectToPeer makes: port prediction (which does not set
\* handshakeInProgress) if both NATs are symmetric, else the local address
\* first, if the peer has one of its own, else the public one.
NewFor(mine, info) ==
    IF mine = "symmetric" /\ info.nat = "symmetric"
    THEN NewConnection(info.public, info.public, FALSE, "burst")
    ELSE IF info.local \notin {NoAddr, info.public}
    THEN NewConnection(info.local, info.public, TRUE, "local")
    ELSE NewConnection(info.public, info.public, TRUE, "burst")

\* ConnectToPeer that does not look whether the peer is still known.
ConnectToUnknownPeer(mine) ==
    /\ pending > 0
    /\ pending' = pending - 1
    /\ conn' = IF conn # NoConn /\ (isPeerConnected \/ conn.inProgress) THEN conn
               ELSE NewFor(mine, obj[CHOOSE o \in Objs : TRUE].info)
    /\ UNCHANGED <<obj, tableVars, reader, netVars, timeVars>>

\* ConnectToPeer, under m.mu: nothing to do if the peer is connected, its
\* handshake is still running, or the peer was removed meanwhile.
ConnectToPeer(mine) ==
    /\ pending > 0
    /\ pending' = pending - 1
    /\ conn' = IF \/ conn # NoConn /\ (isPeerConnected \/ conn.inProgress)
                  \/ mPeer = NoPeer
               THEN conn
               ELSE NewFor(mine, obj[mPeer].info)
    /\ UNCHANGED <<obj, tableVars, reader, netVars, timeVars>>

\* tryHandshakeWithTimeout or performHandshakeInternal sends a handshake.
HandshakeSend ==
    /\ conn # NoConn /\ conn.phase # "done"
    /\ Ask(conn.remote)
    /\ UNCHANGED <<obj, tableVars, conn, reader, pending, found, reach, timeVars>>

\* The goroutine finds the peer connected and returns.
HandshakeSees ==
    /\ conn # NoConn /\ conn.phase # "done"
    /\ isPeerConnected
    /\ conn' = [conn EXCEPT !.phase = "done", !.inProgress = FALSE]
    /\ UNCHANGED <<obj, tableVars, reader, pending, netVars, timeVars>>

\* performHandshakeWithFallback: LocalConnectionTimeout is over.  The last look
\* at the peer is up to HandshakeInterval ago.
LocalTimeout ==
    /\ conn # NoConn /\ conn.phase = "local"
    /\ conn' = [conn EXCEPT !.remote = conn.public, !.phase = "burst"]
    /\ UNCHANGED <<obj, tableVars, reader, pending, netVars, timeVars>>

\* performHandshakeInternal has used all its attempts.
HandshakeEnds ==
    /\ conn # NoConn /\ conn.phase = "burst"
    /\ conn' = [conn EXCEPT !.phase = "done", !.inProgress = FALSE]
    /\ UNCHANGED <<obj, tableVars, reader, pending, netVars, timeVars>>

-----------------------------------------------------------------------------
(* receivePackets. *)

\* findPeerByAddr.
FindPeer(a) ==
    \/ mPeer # NoPeer /\ a \in {obj[mPeer].info.public, obj[mPeer].info.local}
    \/ conn # NoConn /\ conn.remote = a

\* A handshake arrives; handleHandshake looks up the peer under m.mu ...
ReceiveHandshake ==
    /\ answer # NoAddr /\ ~found
    /\ found' = FindPeer(answer)
    /\ answer' = IF FindPeer(answer) THEN answer ELSE NoAddr
    /\ UNCHANGED <<obj, tableVars, conn, reader, pending, reach, timeVars>>

\* ... and applies it under m.mu again: the connection, if there is one, takes
\* the address, the peer, if it is still known, becomes connected; LastSeen is
\* not touched.  The handshake is answered.
HandleHandshake ==
    /\ found
    /\ obj' = [o \in Objs |-> IF o = mPeer /\ ~obj[o].connected
                              THEN [obj[o] EXCEPT !.connected = TRUE, !.throughServer = FALSE]
                              ELSE obj[o]]
    /\ conn' = IF conn = NoConn THEN conn
               ELSE [conn EXCEPT !.remote = answer, !.rtt = TRUE, !.failures = 0, !.wait = 0,
                                 !.established = @ \/ (mPeer # NoPeer /\ ~obj[mPeer].connected)]
    /\ found' = FALSE
    /\ answer' = IF answer \in reach THEN answer ELSE NoAddr
    /\ UNCHANGED <<tableVars, reader, pending, reach, timeVars>>

\* A keepalive or a data packet arrives: updatePeerLastSeen.
ReceiveOther(a) ==
    /\ a \in reach /\ ~found
    /\ FindPeer(a) /\ mPeer # NoPeer
    /\ obj' = [obj EXCEPT ![mPeer].age = 0]
    /\ UNCHANGED <<tableVars, conn, reader, pending, netVars, timeVars>>

-----------------------------------------------------------------------------
(* Time, sendKeepalives and checkConnectionQuality. *)

\* One unit of time.  A ticker that is due fires first.
Tick ==
    /\ ka > 0 /\ qa > 0
    /\ ka' = ka - 1
    /\ qa' = qa - 1
    /\ obj' = [o \in Objs |-> IF o \in {mPeer, rtPeer} /\ obj[o].age < MaxAge
                              THEN [obj[o] EXCEPT !.age = @ + 1] ELSE obj[o]]
    /\ conn' = IF conn # NoConn /\ conn.wait > 0 THEN [conn EXCEPT !.wait = @ - 1] ELSE conn
    /\ UNCHANGED <<tableVars, reader, pending, netVars>>

\* sendKeepalives is due; it runs under m.mu (read).
KeepaliveDue ==
    /\ ka = 0
    /\ ka' = KeepalivePeriod
    /\ UNCHANGED <<tableVars, reader, pending, found, reach, qa>>

HasEntry == conn # NoConn /\ mPeer # NoPeer

\* The longest backoff of a connection: shorter until it was established once.
MaxMultiplier(c) == IF c.established THEN MaxBackoff ELSE InitialBackoff

\* A backoff without its cap.
BackoffUncapped(failures, cap) ==
    IF failures >= IntWidth - 1 THEN 0 ELSE KeepalivePeriod * 2^failures

\* The backoff after a number of failures: 2^failures intervals, at most the
\* cap.  1 << failures is negative, then zero, when it leaves the int: the next
\* attempt is not delayed at all.
Backoff(failures, cap) ==
    IF failures >= IntWidth - 1 THEN 0
    ELSE KeepalivePeriod * (IF 2^failures \in 0..cap THEN 2^failures ELSE cap)

\* No entry, or the backoff is not over.
KeepaliveNothing ==
    /\ KeepaliveDue
    /\ HasEntry => ~isPeerConnected /\ conn.wait > 0
    /\ UNCHANGED <<obj, conn, answer>>

\* What a failed attempt leaves: failures beyond IntWidth are not told apart.
AfterAttempt(c) ==
    [c EXCEPT !.failures = IF @ < IntWidth THEN @ + 1 ELSE @,
              !.wait = Backoff(c.failures, MaxMultiplier(c))]

\* Continuous handshakes that end after the first failures.
ContinuousHandshakeGivesUp(sent) ==
    /\ KeepaliveDue
    /\ HasEntry /\ ~isPeerConnected /\ conn.wait = 0
    /\ IF sent /\ conn.failures < 2 THEN Ask(conn.remote) ELSE UNCHANGED answer
    /\ obj' = IF sent THEN [obj EXCEPT ![mPeer].age = 0] ELSE obj
    /\ conn' = AfterAttempt(conn)

\* Not connected: send a handshake (the write may fail) and back off.
ContinuousHandshake(sent) ==
    /\ KeepaliveDue
    /\ HasEntry /\ ~isPeerConnected /\ conn.wait = 0
    /\ IF sent THEN Ask(conn.remote) ELSE UNCHANGED answer
    /\ obj' = IF sent THEN [obj EXCEPT ![mPeer].age = 0] ELSE obj
    /\ conn' = AfterAttempt(conn)

IsStale == obj[mPeer].age > (IF conn.established THEN StaleTimeout ELSE InitialTimeout)

\* Connected and not heard of for too long: disconnect, send a handshake.
StaleRefresh ==
    /\ KeepaliveDue
    /\ HasEntry /\ isPeerConnected /\ IsStale
    /\ obj' = [obj EXCEPT ![mPeer].connected = FALSE]
    /\ Ask(conn.remote)
    /\ UNCHANGED conn

\* Connected: the keepalive is sent, or skipped because the last one is recent.
KeepaliveSent ==
    /\ KeepaliveDue
    /\ HasEntry /\ isPeerConnected /\ ~IsStale
    /\ UNCHANGED <<obj, conn, answer>>

\* The keepalive cannot be written: disconnect, retry without delay.
KeepaliveFails ==
    /\ KeepaliveDue
    /\ HasEntry /\ isPeerConnected /\ ~IsStale
    /\ obj' = [obj EXCEPT ![mPeer].connected = FALSE]
    /\ conn' = [conn EXCEPT !.failures = IF @ < IntWidth THEN @ + 1 ELSE @, !.wait = 0]
    /\ UNCHANGED answer

\* checkConnectionQuality: UpdateLatency sets LastSeen whenever an RTT was
\* measured; a critical score (latency and loss, here by chance) of a peer not
\* heard of for half the stale timeout sends its traffic through the server.
CheckQuality(critical) ==
    /\ qa = 0
    /\ qa' = QualityPeriod
    /\ obj' = [o \in Objs |->
         IF HasEntry /\ o = mPeer /\ obj[o].connected
         THEN LET relay == critical /\ 2 * obj[o].age > StaleTimeout
              IN  [obj[o] EXCEPT !.age = IF conn.rtt THEN 0 ELSE @,
                                 !.connected = ~relay,
                                 !.throughServer = @ \/ relay]
         ELSE obj[o]]
    /\ UNCHANGED <<tableVars, conn, reader, pending, netVars, ka>>

-----------------------------------------------------------------------------
(* The environment. *)

\* The peer sends a handshake of its own accord.
PeerSends(a) ==
    /\ a \in reach /\ ~found
    /\ answer' = a
    /\ UNCHANGED <<obj, tableVars, conn, reader, pending, found, reach, timeVars>>

\* The peer, a NAT mapping or a network goes away or comes back.
PathChange(S) ==
    /\ reach' = S
    /\ UNCHANGED <<obj, tableVars, conn, reader, pending, answer, found, timeVars>>

-----------------------------------------------------------------------------

RouteStep == UpdateDecides \/ UpdateApplies

ManagerAdd ==
    \E kind \in {"info", "punch"}, mine \in NATs, tie \in BOOLEAN :
        ManagerAddPeer(kind, mine, tie)

ReaderStep ==
    \/ \E info \in Infos, o \in Objs : RouteAddPeer(info, o)
    \/ ManagerAdd
    \/ RouteRemovePeer
    \/ ManagerRemovePeer

HandshakeStep == HandshakeSend \/ HandshakeSees \/ LocalTimeout \/ HandshakeEnds

ReceiveStep == ReceiveHandshake \/ HandleHandshake

KeepaliveStep ==
    \/ KeepaliveNothing
    \/ \E sent \in BOOLEAN : ContinuousHandshake(sent)
    \/ StaleRefresh \/ KeepaliveSent \/ KeepaliveFails

QualityStep == \E critical \in BOOLEAN : CheckQuality(critical)

Next ==
    \/ RouteStep \/ ReaderStep \/ HandshakeStep \/ ReceiveStep
    \/ KeepaliveStep \/ QualityStep \/ Tick
    \/ \E a \in Addrs : ReceiveOther(a) \/ PeerSends(a)
    \/ \E mine \in NATs : ConnectToPeer(mine)
    \/ \E S \in Paths : PathChange(S)

Spec == Init /\ [][Next]_vars

\* Goroutines run, handshake goroutines come to their end, time passes; the
\* handshake that answers ours arrives; not every write of the keepalive loop
\* fails.  Nothing is assumed of the server, the paths and the peer's own wish
\* to connect.
Fairness ==
    /\ WF_vars(RouteStep)
    /\ WF_vars(ManagerAdd \/ ManagerRemovePeer)
    /\ WF_vars(HandshakeSees \/ LocalTimeout \/ HandshakeEnds)
    /\ WF_vars(ReceiveStep)
    /\ WF_vars(Tick \/ KeepaliveStep \/ QualityStep)
    /\ SF_vars(ContinuousHandshake(TRUE))

FairSpec == Spec /\ Fairness

-----------------------------------------------------------------------------
(* Properties. *)

\* Outside a handler of netReader the manager and the routing table hold the
\* same object, so a handshake the manager sees reaches the route: the two
\* AddPeer calls and the two RemovePeer calls take two different locks, and
\* only netReader makes them.
TablesAgree == reader = "idle" => mPeer = rtPeer

\* A peer that was removed leaves nothing behind: no delayed ConnectToPeer, no
\* handshake looked up before, no route update brings its connection or its
\* route back until the server names it again.
NothingSurvivesRemoval ==
    /\ mPeer = NoPeer => conn = NoConn
    /\ rtPeer = NoPeer <=> route = "none"

\* The next attempt is never further away than the cap of the connection's
\* phase, also when the phase changes between two attempts: 30 s until it was
\* established once, 80 s from then on.
BackoffCapped == conn # NoConn => conn.wait <= KeepalivePeriod * MaxMultiplier(conn)

\* The route follows the connection, although the update reads Connected
\* without the peer's lock and writes ThroughServer afterwards.
RouteFollows ==
    (isPeerConnected /\ route = "server") ~> (~isPeerConnected \/ route = "direct")

\* "Never give up on P2P": a connection whose address can be reached from some
\* time on is in use again and again, whatever failed before.
NeverGivesUp ==
    <>[](conn # NoConn /\ conn.remote \in reach) => []<>IsConnected
=============================================================================
