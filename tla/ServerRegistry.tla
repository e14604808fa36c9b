--------------------------- MODULE ServerRegistry ---------------------------
(***************************************************************************)
(* The server side of the tunnel: which client connection owns which       *)
(* tunnel IP, which routes each connection advertises, and how a           *)
(* connection's goroutines (handleClient, clientNetReader, clientNetWriter,*)
(* clientKeepalive) and Tunnel.Stop tear it down.                          *)
(*                                                                         *)
(* A connection is a member of Conns and is used once: a client that       *)
(* reconnects arrives as another member, usually with the same tunnel IP,  *)
(* while the goroutines of its old connection are still running.  Those    *)
(* overlaps are what the properties are about.  Every step is one critical *)
(* section or one blocking call of the code.                               *)
(***************************************************************************)
EXTENDS Naturals, FiniteSets

CONSTANTS
    Conns,          \* client connections the listener may return
    IPs,            \* tunnel IPs that clients use
    Routes,         \* CIDR routes that clients advertise
    MaxClients,     \* config.MaxClients
    MultiClient,    \* config.MultiClient
    P2PEnabled,     \* config.P2PEnabled
    NoIP,           \* clientIP == nil
    NoConn          \* no entry in t.clients

ASSUME RegistryAssumption ==
    /\ NoIP \notin IPs
    /\ NoConn \notin Conns
    /\ IsFiniteSet(IPs)
    /\ MaxClients \in Nat \ {0}
    /\ MultiClient \in BOOLEAN
    /\ P2PEnabled \in BOOLEAN

VARIABLES
    stopPc,      \* progress of Tunnel.Stop; t.stopCh is closed unless "run"
    pc,          \* where handleClient of a connection is
    reader,      \* where clientNetReader of a connection is
    helpers,     \* which of the writer and the keepalive goroutine still run
    stopped,     \* connections whose stopCh is closed (stopOnce used)
    closed,      \* connections whose conn.Close has been called
    clientIP,    \* ClientConnection.clientIP
    clients,     \* t.clients
    allClients,  \* t.allClients
    routes,      \* t.clientRoutes and t.advertisedRoutes, kept in step by routeMux
    pending,     \* routes a reader has registered and not yet given to the OS
    osRoutes,    \* the kernel's routes through the TUN device
    notices      \* IPs a connection was told are disconnected

vars == <<stopPc, pc, reader, helpers, stopped, closed, clientIP, clients,
          allClients, routes, pending, osRoutes, notices>>

goroutineVars == <<reader, helpers>>
registryVars == <<clientIP, clients>>
routeVars == <<routes, pending, osRoutes>>

TypeOK ==
    /\ stopPc \in {"run", "signalled", "registered", "done"}
    /\ pc \in [Conns -> {"idle", "rejected", "accepted", "serving", "untracked",
                         "unregistered", "cleaned", "gone"}]
    /\ reader \in [Conns -> {"off", "top", "read", "install", "exited"}]
    /\ helpers \in [Conns -> SUBSET {"writer", "keepalive"}]
    /\ stopped \in SUBSET Conns
    /\ closed \in SUBSET Conns
    /\ clientIP \in [Conns -> IPs \cup {NoIP}]
    /\ clients \in [IPs -> Conns \cup {NoConn}]
    /\ allClients \in SUBSET Conns
    /\ routes \in [Conns -> SUBSET Routes]
    /\ pending \in [Conns -> SUBSET Routes]
    /\ osRoutes \in SUBSET Routes
    /\ notices \in [Conns -> SUBSET IPs]

Init ==
    /\ stopPc = "run"
    /\ pc = [c \in Conns |-> "idle"]
    /\ reader = [c \in Conns |-> "off"]
    /\ helpers = [c \in Conns |-> {}]
    /\ stopped = {}
    /\ closed = {}
    /\ clientIP = [c \in Conns |-> NoIP]
    /\ clients = [ip \in IPs |-> NoConn]
    /\ allClients = {}
    /\ routes = [c \in Conns |-> {}]
    /\ pending = [c \in Conns |-> {}]
    /\ osRoutes = {}
    /\ notices = [c \in Conns |-> {}]

-----------------------------------------------------------------------------
(* Accepting connections. *)

\* The IPs that have an entry in t.clients; len(t.clients) is its size.
Registered == {ip \in IPs : clients[ip] # NoConn}

HasRoom ==
    /\ MultiClient \/ Cardinality(Registered) < 1
    /\ Cardinality(Registered) < MaxClients

\* acceptClients: the listener returns a connection; it is handed to
\* handleClient, or closed when the client limit is reached.
AcceptClient(c) ==
    /\ stopPc = "run"
    /\ pc[c] = "idle"
    /\ IF HasRoom
       THEN pc' = [pc EXCEPT ![c] = "accepted"] /\ UNCHANGED closed
       ELSE pc' = [pc EXCEPT ![c] = "rejected"] /\ closed' = closed \cup {c}
    /\ UNCHANGED <<stopPc, goroutineVars, stopped, registryVars, allClients,
                   routeVars, notices>>

\* handleClient, up to client.wg.Wait: track the connection, start its three
\* goroutines.
StartHandling(c) ==
    /\ pc[c] = "accepted"
    /\ pc' = [pc EXCEPT ![c] = "serving"]
    /\ allClients' = allClients \cup {c}
    /\ reader' = [reader EXCEPT ![c] = "top"]
    /\ helpers' = [helpers EXCEPT ![c] = {"writer", "keepalive"}]
    /\ UNCHANGED <<stopPc, stopped, closed, registryVars, routeVars, notices>>

-----------------------------------------------------------------------------
(* clientNetReader. *)

\* The select at the top of the reader, writer and keepalive loops.
SeesStop(c) == stopPc # "run" \/ c \in stopped

\* Top of the loop: return when a stop channel is closed, else block in
\* ReadPacket.
ReaderLoop(c) ==
    /\ reader[c] = "top"
    /\ reader' = [reader EXCEPT ![c] = IF SeesStop(c) THEN "exited" ELSE "read"]
    /\ UNCHANGED <<stopPc, pc, helpers, stopped, closed, registryVars,
                   allClients, routeVars, notices>>

\* The idle check or ReadPacket fails: stopOnce closes stopCh (not the
\* connection) and the reader returns.
ReaderFails(c) ==
    /\ reader[c] = "read"
    /\ reader' = [reader EXCEPT ![c] = "exited"]
    /\ stopped' = stopped \cup {c}
    /\ UNCHANGED <<stopPc, pc, helpers, closed, registryVars, allClients,
                   routeVars, notices>>

\* A packet that changes nothing here: keepalive, P2P request, a packet that
\* does not decrypt, a data packet of a registered client.
ReaderHandles(c) ==
    /\ reader[c] = "read"
    /\ reader' = [reader EXCEPT ![c] = "top"]
    /\ UNCHANGED <<stopPc, pc, helpers, stopped, closed, registryVars,
                   allClients, routeVars, notices>>

\* A data packet goes to the TUN device and the write fails (ENOBUFS after
\* all retries, or another error): the reader returns and leaves stopCh open.
ReaderTunWriteFails(c) ==
    /\ reader[c] = "read"
    /\ clientIP[c] # NoIP
    /\ reader' = [reader EXCEPT ![c] = "exited"]
    /\ UNCHANGED <<stopPc, pc, helpers, stopped, closed, registryVars,
                   allClients, routeVars, notices>>

\* addClient that leaves the older connection running.
addClientBeside(c, ip) ==
    /\ clientIP' = [clientIP EXCEPT ![c] = ip]
    /\ clients' = [clients EXCEPT ![ip] = c]
    /\ UNCHANGED <<closed, stopped>>

\* addClient, one critical section of clientsMux: an older connection with
\* the same IP is closed and told to stop (once), then the entry is replaced.
addClient(c, ip) ==
    /\ LET old == {clients[ip]} \ (stopped \cup {NoConn})
       IN  /\ closed' = closed \cup old
           /\ stopped' = stopped \cup old
    /\ clientIP' = [clientIP EXCEPT ![c] = ip]
    /\ clients' = [clients EXCEPT ![ip] = c]

\* The first data packet, or the first peer info, of a connection registers
\* the tunnel IP it names.  The loop does not look at stopCh between
\* ReadPacket and this point.
ReaderRegisters(c, ip) ==
    /\ reader[c] = "read"
    /\ clientIP[c] = NoIP
    /\ addClient(c, ip)
    /\ reader' = [reader EXCEPT ![c] = "top"]
    /\ UNCHANGED <<stopPc, pc, helpers, allClients, routeVars, notices>>

\* registerClientRoutes, the part under routeMux: the advertised set replaces
\* the old one; OS routes of withdrawn entries are left in place.
ReaderAdvertises(c, rs) ==
    /\ reader[c] = "read"
    /\ rs # {}
    /\ reader' = [reader EXCEPT ![c] = "install"]
    /\ routes' = [routes EXCEPT ![c] = rs]
    /\ pending' = [pending EXCEPT ![c] = rs]
    /\ UNCHANGED <<stopPc, pc, helpers, stopped, closed, registryVars,
                   allClients, osRoutes, notices>>

\* registerClientRoutes, after the unlock: addRoute (ip route replace) for one
\* route after the other.
ReaderInstalls(c, r) ==
    /\ reader[c] = "install"
    /\ r \in pending[c]
    /\ osRoutes' = osRoutes \cup {r}
    /\ pending' = [pending EXCEPT ![c] = @ \ {r}]
    /\ reader' = [reader EXCEPT ![c] = IF pending[c] = {r} THEN "top" ELSE @]
    /\ UNCHANGED <<stopPc, pc, helpers, stopped, closed, registryVars,
                   allClients, routes, notices>>

-----------------------------------------------------------------------------
(* clientNetWriter and clientKeepalive. *)

\* A write error: stopOnce closes stopCh.  The keepalive goroutine returns at
\* once, the writer when its select sees the closed channel.
WriteFails(c, h) ==
    /\ h \in helpers[c]
    /\ stopped' = stopped \cup {c}
    /\ helpers' = [helpers EXCEPT ![c] = @ \ ({h} \cap {"keepalive"})]
    /\ UNCHANGED <<stopPc, pc, reader, closed, registryVars, allClients,
                   routeVars, notices>>

\* The writer that returns only when the whole tunnel stops.
HelperExitsOnTunnelStop(c, h) ==
    /\ h \in helpers[c]
    /\ IF h = "writer" THEN stopPc # "run" ELSE SeesStop(c)
    /\ helpers' = [helpers EXCEPT ![c] = @ \ {h}]
    /\ UNCHANGED <<stopPc, pc, reader, stopped, closed, registryVars,
                   allClients, routeVars, notices>>

\* The select of the writer and keepalive loops sees a closed stop channel.
HelperExits(c, h) ==
    /\ h \in helpers[c]
    /\ SeesStop(c)
    /\ helpers' = [helpers EXCEPT ![c] = @ \ {h}]
    /\ UNCHANGED <<stopPc, pc, reader, stopped, closed, registryVars,
                   allClients, routeVars, notices>>

-----------------------------------------------------------------------------
(* handleClient after client.wg.Wait, and removeClient. *)

\* wg.Wait returns; untrackClientConnection.
Untrack(c) ==
    /\ pc[c] = "serving"
    /\ reader[c] = "exited"
    /\ helpers[c] = {}
    /\ pc' = [pc EXCEPT ![c] = "untracked"]
    /\ allClients' = allClients \ {c}
    /\ UNCHANGED <<stopPc, goroutineVars, stopped, closed, registryVars,
                   routeVars, notices>>

\* removeClient that deletes the IP's entry whoever owns it.
UnregisterAnyOwner(c) ==
    /\ pc[c] = "untracked"
    /\ clients' = IF clientIP[c] = NoIP THEN clients
                  ELSE [clients EXCEPT ![clientIP[c]] = NoConn]
    /\ pc' = [pc EXCEPT ![c] = IF clientIP[c] = NoIP THEN "gone" ELSE "unregistered"]
    /\ UNCHANGED <<stopPc, goroutineVars, stopped, closed, clientIP,
                   allClients, routeVars, notices>>

\* removeClient, the part under clientsMux: the entry is deleted only if this
\* connection still owns the IP.  A connection that never registered an IP is
\* finished here.  (Nothing adds a peer to the server's routing table, so the
\* RemovePeer that follows has no effect.)
Unregister(c) ==
    /\ pc[c] = "untracked"
    /\ clients' = [ip \in IPs |-> IF ip = clientIP[c] /\ clients[ip] = c
                                  THEN NoConn ELSE clients[ip]]
    /\ pc' = [pc EXCEPT ![c] = IF clientIP[c] = NoIP THEN "gone" ELSE "unregistered"]
    /\ UNCHANGED <<stopPc, goroutineVars, stopped, closed, clientIP,
                   allClients, routeVars, notices>>

\* removeClient whose route cleanup leaves the advertised entries.
CleanOsRoutesOnly(c) ==
    /\ pc[c] = "unregistered"
    /\ osRoutes' = osRoutes \ routes[c]
    /\ pc' = [pc EXCEPT ![c] = "cleaned"]
    /\ UNCHANGED <<stopPc, goroutineVars, stopped, closed, registryVars,
                   allClients, routes, pending, notices>>

\* cleanupClientRoutes, under routeMux: forget the routes of the connection
\* and delete each from the OS, whoever else advertises it.
CleanupRoutes(c) ==
    /\ pc[c] = "unregistered"
    /\ routes' = [routes EXCEPT ![c] = {}]
    /\ osRoutes' = osRoutes \ routes[c]
    /\ pc' = [pc EXCEPT ![c] = "cleaned"]
    /\ UNCHANGED <<stopPc, goroutineVars, stopped, closed, registryVars,
                   allClients, pending, notices>>

\* broadcastPeerDisconnect: every registered connection with another IP is
\* told that this connection's IP is gone (when P2P is enabled).
BroadcastDisconnect(c) ==
    /\ pc[c] = "cleaned"
    /\ LET told == {clients[ip] : ip \in Registered \ {clientIP[c]}}
       IN  notices' = IF P2PEnabled
                      THEN [d \in Conns |-> IF d \in told
                                            THEN notices[d] \cup {clientIP[c]}
                                            ELSE notices[d]]
                      ELSE notices
    /\ pc' = [pc EXCEPT ![c] = "gone"]
    /\ UNCHANGED <<stopPc, goroutineVars, stopped, closed, registryVars,
                   allClients, routeVars>>

-----------------------------------------------------------------------------
(* Tunnel.Stop. *)

\* close(t.stopCh), then the TUN device and the listener.
StopSignal ==
    /\ stopPc = "run"
    /\ stopPc' = "signalled"
    /\ UNCHANGED <<pc, goroutineVars, stopped, closed, registryVars,
                   allClients, routeVars, notices>>

\* stopOnce.Do(conn.Close; close(stopCh)) for a set of connections.
CloseAndStop(cs) ==
    /\ closed' = closed \cup (cs \ stopped)
    /\ stopped' = stopped \cup cs

\* The loop over t.clients.
StopRegistered ==
    /\ stopPc = "signalled"
    /\ CloseAndStop({clients[ip] : ip \in Registered})
    /\ stopPc' = "registered"
    /\ UNCHANGED <<pc, goroutineVars, registryVars, allClients, routeVars, notices>>

\* The loop over t.allClients.
StopTracked ==
    /\ stopPc = "registered"
    /\ CloseAndStop(allClients)
    /\ stopPc' = "done"
    /\ UNCHANGED <<pc, goroutineVars, registryVars, allClients, routeVars, notices>>

-----------------------------------------------------------------------------

ReaderStep(c) ==
    \/ ReaderLoop(c)
    \/ ReaderFails(c)
    \/ ReaderHandles(c)
    \/ ReaderTunWriteFails(c)
    \/ \E ip \in IPs : ReaderRegisters(c, ip)
    \/ \E rs \in SUBSET Routes : ReaderAdvertises(c, rs)
    \/ \E r \in Routes : ReaderInstalls(c, r)

HelperStep(c) ==
    \E h \in {"writer", "keepalive"} : WriteFails(c, h) \/ HelperExits(c, h)

HandlerStep(c) ==
    \/ StartHandling(c)
    \/ Untrack(c)
    \/ Unregister(c)
    \/ CleanupRoutes(c)
    \/ BroadcastDisconnect(c)

StopStep == StopSignal \/ StopRegistered \/ StopTracked

Next ==
    \/ \E c \in Conns : AcceptClient(c) \/ ReaderStep(c) \/ HelperStep(c)
                        \/ HandlerStep(c)
    \/ StopStep

Spec == Init /\ [][Next]_vars

\* Goroutines that can run do run.  ReadPacket returns within its 30 s
\* deadline, with a packet or an error, so a blocked reader moves on; nothing
\* makes a packet arrive, and nothing makes a write fail.
Fairness ==
    \A c \in Conns :
        /\ WF_vars(ReaderStep(c))
        /\ \A h \in {"writer", "keepalive"} : WF_vars(HelperExits(c, h))
        /\ WF_vars(HandlerStep(c))

FairSpec == Spec /\ Fairness

-----------------------------------------------------------------------------
(* Properties. *)

\* t.clients never points to a connection that has finished: an entry's
\* connection believes it has that IP and has not yet run removeClient.
RegistryEntryAlive ==
    \A ip \in IPs : clients[ip] # NoConn =>
        /\ clientIP[clients[ip]] = ip
        /\ pc[clients[ip]] \in {"serving", "untracked"}

\* A connection that registered an IP and was not told to stop is the one
\* t.clients routes that IP to, so no teardown of an older connection with the
\* same IP (removeClient's ownership check) can cut off its replacement.
LiveOwnerReachable ==
    \A c \in Conns : (clientIP[c] # NoIP /\ c \notin stopped /\ pc[c] = "serving")
                         => clients[clientIP[c]] = c

\* Once removeClient is past its route cleanup, no route lookup can return the
\* dead connection, provided it had registered an IP (removeClient returns
\* early otherwise).
CleanedHasNoRoutes ==
    \A c \in Conns : pc[c] \in {"cleaned", "gone"} /\ clientIP[c] # NoIP
                         => routes[c] = {}

\* The inductive invariant behind the three: goroutines run only while
\* handleClient waits for them, a connection has no IP before that, and only
\* a connection with an IP goes through the rest of removeClient.
RegistryInv ==
    /\ \A c \in Conns : reader[c] \in {"top", "read", "install"} => pc[c] = "serving"
    /\ \A c \in Conns : pc[c] \in {"idle", "rejected", "accepted"} => clientIP[c] = NoIP
    /\ \A c \in Conns : pc[c] \in {"unregistered", "cleaned"} => clientIP[c] # NoIP
    /\ RegistryEntryAlive
    /\ LiveOwnerReachable
    /\ CleanedHasNoRoutes

\* Connections, their goroutines and Stop together keep one table of IPs.  A
\* connection has left it when removeClient is past clientsMux.
Finished == {c \in Conns : pc[c] \in {"unregistered", "cleaned", "gone"}}
Table == INSTANCE ClientTable
         WITH table <- clients, told <- stopped \cup Finished, over <- Finished
TableRefinement == Table!TableSpec

\* A connection that is told to stop is eventually torn down completely:
\* all three goroutines end and handleClient runs removeClient.
StoppedIsTornDown ==
    \A c \in Conns : (c \in stopped /\ pc[c] = "serving") ~> (pc[c] = "gone")
=============================================================================
