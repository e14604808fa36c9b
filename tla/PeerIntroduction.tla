------------------------- MODULE PeerIntroduction ---------------------------
(***************************************************************************)
(* How two clients learn each other's addresses through the server.  On    *)
(* every connection the server tells the client its public address once;   *)
(* the client then detects its NAT type and announces both.  After a       *)
(* reconnection a second goroutine announces whatever is known by then.    *)
(* The server keeps the last announcement of each connection and, when a   *)
(* client asks for a peer, sends each of the two the other's; if one is    *)
(* missing a goroutine waits for it, holding on to the two connections it  *)
(* was started with.                                                       *)
(*                                                                         *)
(* Connections of a client are numbered, and its public address is the     *)
(* number of the connection it was seen on.  Packets are unordered and may *)
(* be lost.  What a client does with an introduction is in P2PLink, how    *)
(* the server keeps its connections in ServerRegistry, how a client        *)
(* replaces its own in ClientLink.                                         *)
(***************************************************************************)
EXTENDS Integers, FiniteSets

CONSTANTS
    Clients,       \* clients, named by their tunnel IPs
    Requesters,    \* clients that have packets for their peers
    Early,         \* clients that have announced themselves before the others come
    Conns,         \* bound: how many connections each client makes
    MaxRetries,    \* P2PMaxRetries, and maxRetries of retryAnnouncePeerInfo
    WaitAttempts,  \* maxWaitAttempts of handleP2PRequest
    NoInfo         \* no peer info

ASSUME IntroductionAssumption ==
    /\ Conns \in [Clients -> Nat \ {0}]
    /\ Early \subseteq Clients
    /\ Requesters \subseteq Clients
    /\ MaxRetries \in Nat \ {0} /\ WaitAttempts \in Nat \ {0}

VARIABLES
    conn,          \* number of the connection a client has or had last
    up,            \* t.conn # nil
    publicAddr,    \* t.publicAddr, 0 for none
    announcer,     \* goroutines that announce, by client, kind and connection
    known,         \* the peer info a client has of another
    phase,         \* what the server does with a connection
    hasIP,         \* client.clientIP # nil
    owner,         \* t.clients: the connection of an IP, 0 for none
    lastPeerInfo,  \* client.lastPeerInfo
    waiting,       \* goroutines of handleP2PRequest
    toServer, toClient,
    spoiled        \* history: an announcement was given up, or overtaken by an older one

vars == <<conn, up, publicAddr, announcer, known,
          phase, hasIP, owner, lastPeerInfo, waiting, toServer, toClient, spoiled>>
clientVars == <<conn, up, publicAddr, announcer, known>>
serverVars == <<phase, hasIP, owner, lastPeerInfo, waiting>>

Numbers == UNION {1..Conns[c] : c \in Clients}
Links == {l \in Clients \X Numbers : l[2] <= Conns[l[1]]}
Kinds == {"detect", "reannounce"}
Infos == [ip : Clients, public : Numbers]

Packets ==
    [kind : {"info"}, link : Links, info : Infos]
        \cup [kind : {"addr"}, link : Links]
        \cup [kind : {"peer"}, link : Links, info : Infos]
        \cup [kind : {"disconnect"}, link : Links, ip : Clients]

TypeOK ==
    /\ conn \in [Clients -> Numbers] /\ up \in [Clients -> BOOLEAN]
    /\ publicAddr \in [Clients -> Numbers \cup {0}]
    /\ announcer \in [Links \X Kinds ->
                        [pc : {"idle", "ready", "built"},
                         tries : 0..MaxRetries, info : Infos \cup {NoInfo}]]
    /\ known \in [Clients -> [Clients -> Infos \cup {NoInfo}]]
    /\ phase \in [Links -> {"new", "open", "closing", "gone"}]
    /\ hasIP \subseteq Links
    /\ owner \in [Clients -> Numbers \cup {0}]
    /\ lastPeerInfo \in [Links -> Infos \cup {NoInfo}]
    /\ waiting \subseteq [from : Links, to : Links, left : 1..WaitAttempts]
    /\ toServer \subseteq Packets /\ toClient \subseteq Packets
    /\ spoiled \in [Clients -> BOOLEAN]

Link(c) == <<c, conn[c]>>
Idle == [pc |-> "idle", tries |-> 0, info |-> NoInfo]

\* One packet for each connection.
sendPublicAddrToClient(l) == [kind |-> "addr", link |-> l]

Init ==
    LET first == {<<c, 1>> : c \in Early}
    IN  /\ conn = [c \in Clients |-> 1] /\ up = [c \in Clients |-> TRUE]
        /\ publicAddr = [c \in Clients |-> IF c \in Early THEN 1 ELSE 0]
        /\ announcer = [a \in Links \X Kinds |-> Idle]
        /\ known = [c \in Clients |-> [d \in Clients |-> NoInfo]]
        /\ phase = [l \in Links |-> IF l[2] = 1 THEN "open" ELSE "new"]
        /\ hasIP = first
        /\ owner = [c \in Clients |-> IF c \in Early THEN 1 ELSE 0]
        /\ lastPeerInfo = [l \in Links |-> IF l \in first THEN [ip |-> l[1], public |-> 1]
                                           ELSE NoInfo]
        /\ waiting = {}
        /\ toServer = {}
        /\ toClient = {sendPublicAddrToClient(<<c, 1>>) : c \in Clients \ Early}
        /\ spoiled = [c \in Clients |-> FALSE]

-----------------------------------------------------------------------------
(* The client's connection (external to this module: ClientLink). *)

\* The connection breaks; nothing that was sent to the client on it is read.
Drop(c) ==
    /\ up[c] /\ conn[c] < Conns[c]
    /\ up' = [up EXCEPT ![c] = FALSE]
    /\ toClient' = {p \in toClient : p.link # Link(c)}
    /\ UNCHANGED <<conn, publicAddr, announcer, known,
                   serverVars, toServer, spoiled>>

\* The second goroutine that announces.  A goroutine that finds t.conn nil, and
\* not one that has dropped it, reconnects without.
reannounceP2PInfoAfterReconnect(l) ==
    announcer' \in {announcer, [announcer EXCEPT ![<<l, "reannounce">>].pc = "ready"]}

\* reconnectToServer; on the server handleClient.
Reconnect(c) ==
    LET link == <<c, conn[c] + 1>>
    IN  /\ ~ up[c] /\ link \in Links
        /\ conn' = [conn EXCEPT ![c] = @ + 1] /\ up' = [up EXCEPT ![c] = TRUE]
        /\ reannounceP2PInfoAfterReconnect(link)
        /\ phase' = [phase EXCEPT ![link] = "open"]
        /\ toClient' = toClient \cup {sendPublicAddrToClient(link)}
        /\ spoiled' = [spoiled EXCEPT ![c] = FALSE]
        /\ UNCHANGED <<publicAddr, known, hasIP, owner,
                       lastPeerInfo, waiting, toServer>>

-----------------------------------------------------------------------------
(* Announcing. *)

Receives(c, p) ==
    /\ p \in toClient /\ p.link = Link(c) /\ up[c]
    /\ toClient' = toClient \ {p}

\* The handler that keeps the address for the first connection only.
ReceivesAddrOnce(c, p) ==
    /\ p.kind = "addr" /\ Receives(c, p)
    /\ IF publicAddr[c] = 0
       THEN /\ publicAddr' = [publicAddr EXCEPT ![c] = conn[c]]
            /\ announcer' = [announcer EXCEPT ![<<p.link, "detect">>].pc = "ready"]
       ELSE UNCHANGED <<publicAddr, announcer>>
    /\ UNCHANGED <<conn, up, known, serverVars,
                   toServer, spoiled>>

\* netReader, PacketTypePublicAddr.
ReceivesAddr(c, p) ==
    /\ p.kind = "addr" /\ Receives(c, p)
    /\ publicAddr' = [publicAddr EXCEPT ![c] = conn[c]]
    /\ announcer' = [announcer EXCEPT ![<<p.link, "detect">>].pc = "ready"]
    /\ UNCHANGED <<conn, up, known, serverVars,
                   toServer, spoiled>>

\* A failed announcement of announcePeerInfo: the goroutine of the handler goes
\* on as retryAnnouncePeerInfo, the other one in its loop; both give up in the
\* end.
Fails(a) ==
    LET tries == announcer[a].tries + 1
        limit == IF a[2] = "detect" THEN MaxRetries + 1 ELSE MaxRetries
    IN  announcer' = [announcer EXCEPT ![a] =
                        IF tries < limit THEN [pc |-> "ready", tries |-> tries, info |-> NoInfo]
                        ELSE Idle]

\* announcePeerInfo up to the packet: without a connection or an address it
\* fails.
Builds(c, a) ==
    /\ announcer[a].pc = "ready" /\ a[1][1] = c
    /\ IF up[c] /\ publicAddr[c] # 0
       THEN announcer' = [announcer EXCEPT ![a] =
              [pc |-> "built", tries |-> @.tries, info |-> [ip |-> c, public |-> publicAddr[c]]]]
       ELSE Fails(a)
    /\ UNCHANGED <<conn, up, publicAddr, known,
                   serverVars, toServer, toClient, spoiled>>

\* The rest of it: the packet goes out on the connection there is now, where
\* nobody reads it once the server has closed its end, or the write fails.  When
\* the goroutine of the present connection gives up, nothing announces this
\* connection any more.
Sends(c, a) ==
    /\ announcer[a].pc = "built" /\ a[1][1] = c
    /\ \/ /\ up[c]
          /\ toServer' = IF phase[Link(c)] = "open"
                         THEN toServer \cup {[kind |-> "info", link |-> Link(c),
                                              info |-> announcer[a].info]}
                         ELSE toServer
          /\ announcer' = [announcer EXCEPT ![a] = Idle]
          /\ UNCHANGED spoiled
       \/ /\ Fails(a)
          /\ spoiled' = [spoiled EXCEPT ![c] =
                            @ \/ (a = <<Link(c), "detect">> /\ announcer'[a] = Idle)]
          /\ UNCHANGED toServer
    /\ UNCHANGED <<conn, up, publicAddr, known, serverVars, toClient>>

-----------------------------------------------------------------------------
(* Asking for a peer. *)

Current(c) == [ip |-> c, public |-> conn[c]]

\* netReader, PacketTypePeerInfo and PacketTypePunch, as far as the table of
\* peers goes: the entry is replaced, removed, or ignored as one's own.
Learns(c, p) ==
    LET ip == IF p.kind = "disconnect" THEN p.ip ELSE p.info.ip
    IN  /\ p.kind \in {"peer", "disconnect"} /\ Receives(c, p)
        /\ known' = IF ip = c THEN known
                    ELSE [known EXCEPT ![c][ip] = IF p.kind = "peer" THEN p.info ELSE NoInfo]
        /\ UNCHANGED <<conn, up, publicAddr, announcer, serverVars,
                       toServer, spoiled>>

-----------------------------------------------------------------------------
(* The server. *)

\* client.conn.WritePacket: a packet on a connection the client has given up
\* reaches nobody.
Written(packets) ==
    {p \in packets : /\ p.link = Link(p.link[1]) /\ up[p.link[1]]
                     /\ phase[p.link] = "open"}

\* addClient: the connection that had the IP is closed, whichever is the newer.
AddClient(l) ==
    LET old == <<l[1], owner[l[1]]>>
    IN  IF l \in hasIP THEN UNCHANGED <<owner, hasIP, phase>>
        ELSE /\ owner' = [owner EXCEPT ![l[1]] = l[2]]
             /\ hasIP' = hasIP \cup {l}
             /\ phase' = IF owner[l[1]] # 0 THEN [phase EXCEPT ![old] = "closing"]
                         ELSE phase

\* The part of spoiled that registering l accounts for: it closes the client's
\* present connection.
Closes(l) ==
    LET c == l[1] IN l \notin hasIP /\ l # Link(c) /\ owner[c] = conn[c]

\* clientNetReader: the first data packet of a connection registers it, late
\* ones of a connection the client has given up too.
Registers(l) ==
    /\ phase[l] = "open" /\ l \notin hasIP
    /\ l = Link(l[1]) => up[l[1]]
    /\ AddClient(l)
    /\ spoiled' = [spoiled EXCEPT ![l[1]] = @ \/ Closes(l)]
    /\ UNCHANGED <<clientVars, lastPeerInfo, waiting, toServer, toClient>>

Arrives(p) ==
    /\ p \in toServer /\ phase[p.link] = "open"
    /\ toServer' = toServer \ {p}

\* clientNetReader, PacketTypePeerInfo: registers the connection, if need be,
\* and keeps the announcement.
StoresInfo(c, p) ==
    /\ p.kind = "info" /\ p.link[1] = c /\ Arrives(p)
    /\ AddClient(p.link)
    /\ lastPeerInfo' = [lastPeerInfo EXCEPT ![p.link] = p.info]
    /\ spoiled' = [spoiled EXCEPT ![c] =
                     \/ @ \/ Closes(p.link)
                     \/ /\ p.link = Link(c) /\ lastPeerInfo[p.link] = Current(c)
                        /\ p.info # Current(c)]
    /\ UNCHANGED <<clientVars, waiting, toClient>>

\* The one that tells the requester alone.
IntroductionOneWay(l, m, lInfo, mInfo) ==
    Written({[kind |-> "peer", link |-> l, info |-> mInfo]})

\* The one that mixes up the two ends.
IntroductionSwapped(l, m, lInfo, mInfo) ==
    Written({[kind |-> "peer", link |-> l, info |-> lInfo],
             [kind |-> "peer", link |-> m, info |-> mInfo]})

\* processP2PConnection and sendPeerInfoAndPunch: each end is sent the other's
\* info.  The NAT types decide who is told first, which does not matter on an
\* unordered network; the PUNCH has the same content as the peer info.
Introduction(l, m, lInfo, mInfo) ==
    Written({[kind |-> "peer", link |-> l, info |-> mInfo],
             [kind |-> "peer", link |-> m, info |-> lInfo]})

\* sendPacketWithRouting without a direct path, shouldRequestP2P and
\* requestP2PConnection: what the server may receive.  A request is lost, or
\* late, or sent again after five seconds; a late one may come in on a
\* connection that was replaced.  Whether a client asks at all is up to
\* IsConnected of its P2P manager, an entry that a handshake marks and that knows
\* nothing of the age of an address: it may be unmarked at any time, or stay
\* marked for good, since checkConnectionQuality refreshes LastSeen by itself.
Requested(l, d) ==
    /\ l[1] \in Requesters /\ l[1] # d /\ phase[l] = "open"
    /\ l = Link(l[1]) => up[l[1]]

\* handleP2PRequest.
HandlesRequest(l, d) ==
    LET target == <<d, owner[d]>>
    IN  /\ Requested(l, d)
        /\ l \in hasIP /\ owner[d] # 0
        /\ IF NoInfo \in {lastPeerInfo[l], lastPeerInfo[target]}
           THEN /\ waiting' = waiting \cup
                     {[from |-> l, to |-> target, left |-> WaitAttempts]}
                /\ UNCHANGED toClient
           ELSE /\ toClient' = toClient \cup
                     Introduction(l, target, lastPeerInfo[l], lastPeerInfo[target])
                /\ UNCHANGED waiting
        /\ UNCHANGED <<clientVars, phase, owner, hasIP, lastPeerInfo, toServer, spoiled>>

\* A goroutine of handleP2PRequest looks again, at the connections it was
\* started with.
WaiterLooks(w) ==
    /\ w \in waiting
    /\ IF NoInfo \in {lastPeerInfo[w.from], lastPeerInfo[w.to]}
       THEN /\ waiting' = (waiting \ {w}) \cup
                 (IF w.left > 1 THEN {[w EXCEPT !.left = @ - 1]} ELSE {})
            /\ UNCHANGED toClient
       ELSE /\ waiting' = waiting \ {w}
            /\ toClient' = toClient \cup
                 Introduction(w.from, w.to, lastPeerInfo[w.from], lastPeerInfo[w.to])
    /\ UNCHANGED <<clientVars, phase, owner, hasIP, lastPeerInfo, toServer, spoiled>>

\* handleClient ends: removeClient and broadcastPeerDisconnect, which does not
\* ask whether another connection has the IP by now.
Removes(l) ==
    /\ \/ phase[l] = "closing"
       \/ phase[l] = "open" /\ (l # Link(l[1]) \/ ~ up[l[1]])
    /\ phase' = [phase EXCEPT ![l] = "gone"]
    /\ owner' = IF l \in hasIP /\ owner[l[1]] = l[2] THEN [owner EXCEPT ![l[1]] = 0] ELSE owner
    /\ toClient' = toClient \cup
         IF l \in hasIP
         THEN Written({[kind |-> "disconnect", link |-> <<d, owner[d]>>, ip |-> l[1]] :
                         d \in {d \in Clients \ {l[1]} : owner[d] # 0}})
         ELSE {}
    /\ toServer' = {p \in toServer : p.link # l}
    /\ UNCHANGED <<clientVars, hasIP, lastPeerInfo, waiting, spoiled>>

-----------------------------------------------------------------------------
(* The network. *)

\* An introduction is lost.  PublicAddr and the announcements arrive: they are
\* sent once, and without them there is nothing to introduce until the next
\* connection.
Loses(p) ==
    /\ p \in toClient /\ p.kind \in {"peer", "disconnect"}
    /\ toClient' = toClient \ {p}
    /\ UNCHANGED <<clientVars, serverVars, toServer, spoiled>>

-----------------------------------------------------------------------------
ClientStep(c) ==
    \/ Drop(c) \/ Reconnect(c)
    \/ \E p \in toClient : ReceivesAddr(c, p) \/ Learns(c, p)
    \/ \E a \in Links \X Kinds : Builds(c, a) \/ Sends(c, a)
    \/ \E p \in toServer : StoresInfo(c, p)

Next ==
    \/ \E c \in Clients : ClientStep(c)
    \/ \E w \in waiting : WaiterLooks(w)
    \/ \E l \in Links : Registers(l) \/ Removes(l) \/ \E d \in Clients : HandlesRequest(l, d)
    \/ \E p \in toClient : Loses(p)

Spec == Init /\ [][Next]_vars

\* Steps that each connection and each of its goroutines takes a bounded number
\* of times: a reconnection, the first packet of the present connection, what the
\* goroutines that announce do, the arrival of what was written, the teardown.
Due ==
    \/ \E c \in Clients :
        \/ Reconnect(c) \/ Registers(Link(c))
        \/ \E a \in Links \X Kinds : Builds(c, a) \/ Sends(c, a)
        \/ \E p \in toClient : ReceivesAddr(c, p)
        \/ \E p \in toServer : StoresInfo(c, p)
    \/ \E l \in Links : Removes(l)

\* Goroutines go on, a client sends packets on the connection it has, and a
\* packet that is sent again and again arrives.  As the steps that are due are
\* bounded in number, none of them can be put off for ever by the others, and one
\* condition stands for all.  Nobody need ask for a peer.
Fairness ==
    /\ WF_vars(Due)
    /\ WF_vars(\E w \in waiting : WaiterLooks(w))
    /\ \A c \in Clients : SF_vars(\E p \in toClient : Learns(c, p))

FairSpec == Spec /\ Fairness

-----------------------------------------------------------------------------
(* Properties. *)

\* The table of clients and the connections agree: a connection that has
\* registered and is open is the one the table has for its IP, and the table has
\* no other.  A connection that lost its IP to another one of the same client,
\* older or newer, is not left open.
OneRegistered ==
    \A l \in Links : owner[l[1]] = l[2] <=> l \in hasIP /\ phase[l] = "open"

\* The same table of IPs as ServerRegistry's: addClient and removeClient, each one
\* step here, are those of the goroutines there.
Gone == {l \in Links : phase[l] = "gone"}
Table == INSTANCE ClientTable
         WITH IPs <- Clients, Conns <- Links, NoConn <- <<>>,
              table <- [c \in Clients |-> IF owner[c] = 0 THEN <<>> ELSE <<c, owner[c]>>],
              told <- {l \in Links : phase[l] \in {"closing", "gone"}},
              over <- Gone
TableRefinement == Table!TableSpec

\* What info says of client c on connection g or before: the name is c's and the
\* address one that c had been seen at by then.
Genuine(info, c, g) == info.ip = c /\ info.public <= g

\* However late announcements and the goroutines of handleP2PRequest are, which
\* hold connections that may have been replaced: the server files an
\* announcement under the client that made it, and only on a registered
\* connection that is no older than the address in it; nobody is introduced to
\* itself, or given one client's address under the name of another.
GenuineIntroductions ==
    /\ \A l \in Links : lastPeerInfo[l] # NoInfo =>
          l \in hasIP /\ Genuine(lastPeerInfo[l], l[1], l[2])
    /\ \A p \in toClient : p.kind = "peer" =>
          p.info.ip # p.link[1] /\ p.info.public <= conn[p.info.ip]
    /\ \A c, d \in Clients : known[c][d] # NoInfo =>
          c # d /\ Genuine(known[c][d], d, conn[d])

\* The server has the client's present address and NAT type.
Announced(c) ==
    /\ up[c] /\ owner[c] = conn[c] /\ phase[Link(c)] = "open"
    /\ lastPeerInfo[Link(c)] = Current(c)

\* However connections break, in the end the server has what each client would
\* announce now, unless on the last connection the announcement was given up
\* after its retries, or overtaken by an older one, or the connection closed by
\* a late packet of its predecessor; neither sendPublicAddrToClient nor
\* announcePeerInfo is repeated.
EventuallyAnnounced == <>[](\A c \in Clients : spoiled[c] \/ Announced(c))

\* Both have the other's present address.
Introduced(c, d) == known[c][d] = Current(d) /\ known[d][c] = Current(c)

\* When the server has it, and a client asks for the other again and again, both
\* end up with each other's present info for good: lost requests and
\* introductions are made up for, and neither a goroutine of handleP2PRequest
\* that holds replaced connections nor a late DISCONNECT leaves a wrong entry
\* behind.  Nothing is said of a client that has stopped asking: it does so while
\* its P2P manager calls the peer connected, be its address a stale one.
EventuallyIntroduced ==
    \A c \in Requesters : \A d \in Clients \ {c} :
      /\ <>[](Announced(c) /\ Announced(d))
      /\ []<><<HandlesRequest(Link(c), d)>>_vars
      => <>[] Introduced(c, d)
=============================================================================
