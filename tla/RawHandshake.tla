---------------------------- MODULE RawHandshake ----------------------------
(***************************************************************************)
(* The fake-TCP transport over raw sockets: the client's three-way         *)
(* handshake (performHandshake), and on the server the acceptLoop that     *)
(* demultiplexes all packets of the listener's port to connections, the    *)
(* goroutine that offers a new connection to Accept for two seconds, the   *)
(* two-pass cleanup of stale connections, and Close.                       *)
(*                                                                         *)
(* A key is a remote address and port; connMap maps it to a ConnRaw.  The  *)
(* same key may dial again while the server still works on its former      *)
(* connection.  Packets may be lost and may overtake each other.  Sequence *)
(* numbers are left out: no branch of the code looks at them.  Packets to  *)
(* a client other than SYN-ACK are left out: the client's recvLoop acts on *)
(* no flag once connected, so they change no state of the handshake.       *)
(***************************************************************************)
EXTENDS Naturals, Sequences, FiniteSets

CONSTANTS
    Keys,        \* remote addresses
    MaxConns,    \* bound: ConnRaw objects the listener creates
    NoPkt,
    MaxRetries,  \* performHandshake: SYNs of one dial
    MaxDials,    \* bound: dials from one key
    AcceptCap,   \* capacity of acceptQueue
    QueueCap     \* capacity of a recvQueue (rawRecvQueueSize)

ASSUME RawAssumption ==
    /\ MaxConns \in Nat
    /\ MaxRetries \in Nat \ {0}
    /\ MaxDials \in Nat
    /\ AcceptCap \in Nat \ {0}
    /\ QueueCap \in Nat \ {0}

\* Server connections, numbered as they are created; 0 is no entry in connMap.
Conns == 1..MaxConns
NoConn == 0

\* What a packet's flags and payload amount to.  Retransmitted SYNs are told
\* apart, so that several of them may be under way.
Packets ==
    [key : Keys, is : {"SYN"}, try : 1..MaxRetries]
        \cup [key : Keys, is : {"ACK", "DATA", "FIN", "SYNACK"}, try : {0}]

Pkt(k, is) == [key |-> k, is |-> is, try |-> 0]

VARIABLES
    net,          \* packets under way
    client,       \* the dial of each key
    tries,        \* SYNs sent by the current dial of each key
    dials,        \* dials so far of each key
    connMap,      \* l.connMap
    key,          \* remote address of each connection
    isConnected,  \* connections whose handshake is complete
    created,      \* connections created so far
    closed,       \* connections with closed = 1
    idle,         \* connections not heard of for staleConnectionTimeout
    offer,        \* the goroutine that offers a connection to Accept
    acceptQueue,  \* l.acceptQueue
    accepts,      \* history: how often Accept has returned each connection
    backlog,      \* data packets in each recvQueue
    recvQueue,    \* "open", "closing" (inside Close) or "closed"
    loop,         \* acceptLoop: the packet in hand and the connection found
    sweep,        \* cleanupStaleConnections: staleKeys of the first pass
    server        \* "listening", "stopped" or "panicked"

clientVars == <<client, tries, dials>>
connVars == <<key, isConnected, created, closed, idle>>
queueVars == <<offer, acceptQueue, accepts, backlog, recvQueue>>
vars == <<net, clientVars, connMap, connVars, queueVars, loop, sweep, server>>

ClientType ==
    /\ client \in [Keys -> {"idle", "syn", "wait", "up", "closed"}]
    /\ tries \in [Keys -> 0..MaxRetries]
    /\ dials \in [Keys -> 0..MaxDials]

ConnType ==
    /\ connMap \in [Keys -> Conns \cup {NoConn}]
    /\ key \in [Conns -> Keys]
    /\ created \in 0..MaxConns
    /\ isConnected \in SUBSET Conns
    /\ closed \in SUBSET Conns
    /\ idle \in SUBSET Conns

QueueType ==
    /\ offer \in [Conns -> {"none", "waiting", "queued", "accepted", "expired", "dropped"}]
    /\ acceptQueue \in Seq(Conns) /\ Len(acceptQueue) <= AcceptCap
    /\ accepts \in [Conns -> Nat]
    /\ backlog \in [Conns -> 0..QueueCap]
    /\ recvQueue \in [Conns -> {"open", "closing", "closed"}]

LoopType ==
    /\ loop \in [at : {"recv", "locked", "enqueue"}, pkt : Packets \cup {NoPkt},
                 conn : Conns \cup {NoConn}]
    /\ net \in SUBSET Packets
    /\ sweep \in SUBSET Keys
    /\ server \in {"listening", "stopped", "panicked"}

TypeOK == ClientType /\ ConnType /\ QueueType /\ LoopType

Receiving == [at |-> "recv", pkt |-> NoPkt, conn |-> NoConn]

\* Nothing is made yet; the remote address of a connection that is not made
\* means nothing.
Init ==
    /\ net = {}
    /\ client = [k \in Keys |-> "idle"]
    /\ tries = [k \in Keys |-> 0]
    /\ dials = [k \in Keys |-> 0]
    /\ connMap = [k \in Keys |-> NoConn]
    /\ key \in [Conns -> Keys]
    /\ isConnected = {} /\ created = 0 /\ closed = {} /\ idle = {}
    /\ offer = [c \in Conns |-> "none"]
    /\ acceptQueue = <<>>
    /\ accepts = [c \in Conns |-> 0]
    /\ backlog = [c \in Conns |-> 0]
    /\ recvQueue = [c \in Conns |-> "open"]
    /\ loop = Receiving
    /\ sweep = {}
    /\ server = "listening"

-----------------------------------------------------------------------------
(* The client: DialRaw and performHandshake. *)

\* DialRaw: a new ConnRaw and its recvLoop.
Dial(k) ==
    /\ client[k] \in {"idle", "closed"}
    /\ dials[k] < MaxDials
    /\ dials' = [dials EXCEPT ![k] = @ + 1]
    /\ tries' = [tries EXCEPT ![k] = 0]
    /\ client' = [client EXCEPT ![k] = "syn"]
    /\ UNCHANGED <<net, connMap, connVars, queueVars, loop, sweep, server>>

\* One round of the retry loop: send SYN; the second disjunct is SendPacket
\* that fails, which goes on to the next round.
SendSyn(k) ==
    /\ client[k] = "syn"
    /\ tries[k] < MaxRetries
    /\ tries' = [tries EXCEPT ![k] = @ + 1]
    /\ \/ /\ net' = net \cup {[key |-> k, is |-> "SYN", try |-> tries[k] + 1]}
          /\ client' = [client EXCEPT ![k] = "wait"]
       \/ UNCHANGED <<net, client>>
    /\ UNCHANGED <<dials, connMap, connVars, queueVars, loop, sweep, server>>

\* The deadline of this round passes without a SYN-ACK.
SynTimeout(k) ==
    /\ client[k] = "wait"
    /\ client' = [client EXCEPT ![k] = "syn"]
    /\ UNCHANGED <<net, tries, dials, connMap, connVars, queueVars, loop, sweep, server>>

\* recvLoop queues the SYN-ACK and performHandshake takes it: send ACK, mark
\* the connection, drop what else the handshake left in recvQueue.  When the
\* ACK cannot be sent the handshake fails without another round, and DialRaw
\* closes the connection, which sends FIN|ACK.
TakeSynAck(k) ==
    /\ client[k] = "wait"
    /\ Pkt(k, "SYNACK") \in net
    /\ \E sent \in BOOLEAN :
        /\ net' = (net \ {Pkt(k, "SYNACK")}) \cup {Pkt(k, IF sent THEN "ACK" ELSE "FIN")}
        /\ client' = [client EXCEPT ![k] = IF sent THEN "up" ELSE "closed"]
    /\ UNCHANGED <<tries, dials, connMap, connVars, queueVars, loop, sweep, server>>

\* No SYN-ACK after MaxRetries rounds: DialRaw closes the connection, and
\* Close sends FIN|ACK.
HandshakeFails(k) ==
    /\ client[k] = "syn"
    /\ tries[k] = MaxRetries
    /\ client' = [client EXCEPT ![k] = "closed"]
    /\ net' = net \cup {Pkt(k, "FIN")}
    /\ UNCHANGED <<tries, dials, connMap, connVars, queueVars, loop, sweep, server>>

\* WritePacket on the client: PSH|ACK with a payload.
ClientWrite(k) ==
    /\ client[k] = "up"
    /\ net' = net \cup {Pkt(k, "DATA")}
    /\ UNCHANGED <<clientVars, connMap, connVars, queueVars, loop, sweep, server>>

\* Close on the client.
ClientClose(k) ==
    /\ client[k] = "up"
    /\ client' = [client EXCEPT ![k] = "closed"]
    /\ net' = net \cup {Pkt(k, "FIN")}
    /\ UNCHANGED <<tries, dials, connMap, connVars, queueVars, loop, sweep, server>>

\* The network loses a packet.
Lose(m) ==
    /\ m \in net
    /\ net' = net \ {m}
    /\ UNCHANGED <<clientVars, connMap, connVars, queueVars, loop, sweep, server>>

-----------------------------------------------------------------------------
(* acceptLoop.  l.mu is held while loop.at = "locked". *)

Unlocked == loop.at # "locked"

\* RecvPacket, l.mu.Lock, the lookup, and the removal of a closed entry.
\* Bound: no SYN is received once MaxConns connections were made.
LoopReceive(m) ==
    /\ server = "listening"
    /\ loop.at = "recv"
    /\ m \in net /\ m.is # "SYNACK"
    /\ m.is = "SYN" => created < MaxConns
    /\ net' = net \ {m}
    /\ LET found == connMap[m.key]
       IN  IF found \in closed
           THEN /\ connMap' = [connMap EXCEPT ![m.key] = NoConn]
                /\ loop' = [at |-> "locked", pkt |-> m, conn |-> NoConn]
           ELSE /\ loop' = [at |-> "locked", pkt |-> m, conn |-> found]
                /\ UNCHANGED connMap
    /\ UNCHANGED <<clientVars, connVars, queueVars, sweep, server>>

Here(is) == loop.at = "locked" /\ loop.pkt.is = is

\* 1. SYN of an unknown key: answer SYN-ACK and make a half-open connection
\* (nothing is made when SendPacket fails).
HandleSyn ==
    /\ Here("SYN") /\ loop.conn = NoConn
    /\ \/ /\ net' = net \cup {Pkt(loop.pkt.key, "SYNACK")}
          /\ created' = created + 1
          /\ key' = [key EXCEPT ![created + 1] = loop.pkt.key]
          /\ connMap' = [connMap EXCEPT ![loop.pkt.key] = created + 1]
       \/ UNCHANGED <<net, created, key, connMap>>
    /\ loop' = Receiving
    /\ UNCHANGED <<clientVars, isConnected, closed, idle, queueVars, sweep, server>>

\* Case 2 that does not look at isConnected.
HandleAckAgain ==
    /\ loop.at = "locked" /\ loop.pkt.is \in {"ACK", "DATA", "FIN"}
    /\ loop.conn # NoConn
    /\ isConnected' = isConnected \cup {loop.conn}
    /\ idle' = idle \ {loop.conn}
    /\ offer' = [offer EXCEPT ![loop.conn] = "waiting"]
    /\ loop' = IF loop.pkt.is = "DATA" THEN [loop EXCEPT !.at = "enqueue"] ELSE Receiving
    /\ UNCHANGED <<net, clientVars, connMap, key, created, closed, acceptQueue, accepts, backlog,
                   recvQueue, sweep, server>>

\* 2. A packet with ACK and without SYN completes a half-open connection: ACK,
\* PSH|ACK and FIN|ACK alike.  A goroutine starts to offer it to Accept; a
\* payload is queued after l.mu is released.
HandleAck ==
    /\ loop.at = "locked" /\ loop.pkt.is \in {"ACK", "DATA", "FIN"}
    /\ loop.conn # NoConn /\ loop.conn \notin isConnected
    /\ isConnected' = isConnected \cup {loop.conn}
    /\ idle' = idle \ {loop.conn}
    /\ offer' = [offer EXCEPT ![loop.conn] = "waiting"]
    /\ loop' = IF loop.pkt.is = "DATA" THEN [loop EXCEPT !.at = "enqueue"] ELSE Receiving
    /\ UNCHANGED <<net, clientVars, connMap, key, created, closed, acceptQueue, accepts, backlog,
                   recvQueue, sweep, server>>

\* conn.recvQueue <- fullData, dropped when the queue is full.  Close may have
\* closed the queue since the lookup, and the send panics.
Enqueue(c) ==
    IF recvQueue[c] = "closed"
    THEN server' = "panicked" /\ UNCHANGED backlog
    ELSE /\ backlog' = [backlog EXCEPT ![c] = IF @ < QueueCap THEN @ + 1 ELSE @]
         /\ UNCHANGED server

\* The payload of case 2.
EnqueuePayload ==
    /\ loop.at = "enqueue"
    /\ Enqueue(loop.conn)
    /\ loop' = Receiving
    /\ UNCHANGED <<net, clientVars, connMap, connVars, offer, acceptQueue, accepts, recvQueue, sweep>>

\* 3. A packet of an established connection with a payload.
HandleData ==
    /\ Here("DATA") /\ loop.conn \in isConnected
    /\ idle' = idle \ {loop.conn}
    /\ Enqueue(loop.conn)
    /\ loop' = Receiving
    /\ UNCHANGED <<net, clientVars, connMap, key, isConnected, created, closed, offer,
                   acceptQueue, accepts, recvQueue, sweep>>

\* 3. FIN: mark the connection closed and remove it.  recvQueue stays open.
HandleFin ==
    /\ Here("FIN") /\ loop.conn \in isConnected
    /\ closed' = closed \cup {loop.conn}
    /\ idle' = idle \ {loop.conn}
    /\ connMap' = [connMap EXCEPT ![loop.pkt.key] = NoConn]
    /\ loop' = Receiving
    /\ UNCHANGED <<net, clientVars, key, isConnected, created, queueVars, sweep, server>>

\* Any other packet: it refreshes an established connection, and is ignored
\* otherwise (a SYN for a half-open connection is not answered again).
HandleOther ==
    /\ loop.at = "locked"
    /\ \/ loop.conn = NoConn /\ loop.pkt.is # "SYN"
       \/ loop.conn \in isConnected /\ loop.pkt.is \in {"SYN", "ACK"}
       \/ loop.conn # NoConn /\ loop.conn \notin isConnected /\ loop.pkt.is = "SYN"
    /\ idle' = IF loop.conn \in isConnected THEN idle \ {loop.conn} ELSE idle
    /\ loop' = Receiving
    /\ UNCHANGED <<net, clientVars, connMap, key, isConnected, created, closed, queueVars,
                   sweep, server>>

-----------------------------------------------------------------------------
(* The goroutine of case 2 and Accept. *)

\* A panic ends all goroutines of the server's process.
Running == server # "panicked"

\* acceptQueue has room, at once or before the two seconds are over.
OfferTaken(c) ==
    /\ Running
    /\ offer[c] = "waiting"
    /\ Len(acceptQueue) < AcceptCap
    /\ acceptQueue' = Append(acceptQueue, c)
    /\ offer' = [offer EXCEPT ![c] = "queued"]
    /\ UNCHANGED <<net, clientVars, connMap, connVars, accepts, backlog, recvQueue, loop, sweep, server>>

\* acceptQueue stayed full for two seconds.
OfferExpires(c) ==
    /\ Running
    /\ offer[c] = "waiting"
    /\ Len(acceptQueue) = AcceptCap
    /\ offer' = [offer EXCEPT ![c] = "expired"]
    /\ UNCHANGED <<net, clientVars, connMap, connVars, acceptQueue, accepts, backlog, recvQueue,
                   loop, sweep, server>>

\* ... and the entry of its key is removed, whichever connection that is now.
OfferDropped(c) ==
    /\ Running
    /\ offer[c] = "expired"
    /\ Unlocked
    /\ offer' = [offer EXCEPT ![c] = "dropped"]
    /\ connMap' = [connMap EXCEPT ![key[c]] = NoConn]
    /\ UNCHANGED <<net, clientVars, connVars, acceptQueue, accepts, backlog, recvQueue, loop, sweep,
                   server>>

\* Accept: take a connection and empty its recvQueue.
Accept ==
    /\ server = "listening"
    /\ acceptQueue # <<>>
    /\ LET c == Head(acceptQueue)
       IN  /\ offer' = [offer EXCEPT ![c] = "accepted"]
           /\ accepts' = [accepts EXCEPT ![c] = @ + 1]
           /\ backlog' = [backlog EXCEPT ![c] = 0]
    /\ acceptQueue' = Tail(acceptQueue)
    /\ UNCHANGED <<net, clientVars, connMap, connVars, recvQueue, loop, sweep, server>>

-----------------------------------------------------------------------------
(* An accepted connection in the hands of the tunnel. *)

\* ReadPacket returns a packet.
ServerRead(c) ==
    /\ Running
    /\ offer[c] = "accepted"
    /\ backlog[c] > 0
    /\ backlog' = [backlog EXCEPT ![c] = @ - 1]
    /\ UNCHANGED <<net, clientVars, connMap, connVars, offer, acceptQueue, accepts, recvQueue, loop,
                   sweep, server>>

\* Close: the compare-and-swap of closed.  A connection that a FIN has closed
\* stays as it is.
CloseMarks(c) ==
    /\ Running
    /\ offer[c] = "accepted"
    /\ c \notin closed
    /\ closed' = closed \cup {c}
    /\ recvQueue' = [recvQueue EXCEPT ![c] = "closing"]
    /\ UNCHANGED <<net, clientVars, connMap, key, isConnected, created, idle, offer, acceptQueue,
                   accepts, backlog, loop, sweep, server>>

\* Close: close(c.recvQueue).
CloseQueue(c) ==
    /\ Running
    /\ recvQueue[c] = "closing"
    /\ recvQueue' = [recvQueue EXCEPT ![c] = "closed"]
    /\ UNCHANGED <<net, clientVars, connMap, connVars, offer, acceptQueue, accepts, backlog, loop,
                   sweep, server>>

-----------------------------------------------------------------------------
(* cleanupStaleConnections, and time. *)

InMap(c) == c <= created /\ connMap[key[c]] = c

\* staleConnectionTimeout passes without a packet for c.  Time does not pass
\* inside a cleanup, which compares with the moment it began.
BecomeIdle(c) ==
    /\ Running
    /\ InMap(c)
    /\ c \notin idle
    /\ sweep = {}
    /\ idle' = idle \cup {c}
    /\ UNCHANGED <<net, clientVars, connMap, key, isConnected, created, closed, queueVars, loop,
                   sweep, server>>

\* A cleanup that only looks at the closed flag.
StaleClosedOnly(k) == connMap[k] \in closed

\* closed != 0, or no activity for staleConnectionTimeout.
Stale(k) == connMap[k] \in closed \cup idle

\* First pass, under the read lock.
SweepFind ==
    /\ server = "listening"
    /\ sweep = {}
    /\ Unlocked
    /\ sweep' = {k \in Keys : Stale(k)}
    /\ UNCHANGED <<net, clientVars, connMap, connVars, queueVars, loop, server>>

\* A second pass that removes the entries and leaves the connections open.
SweepForgetsClosed ==
    /\ Running
    /\ sweep # {}
    /\ Unlocked
    /\ connMap' = [k \in Keys |-> IF k \in sweep /\ Stale(k) THEN NoConn ELSE connMap[k]]
    /\ sweep' = {}
    /\ UNCHANGED <<net, clientVars, connVars, queueVars, loop, server>>

\* Second pass, under the write lock: what is still stale goes.
SweepRemove ==
    /\ Running
    /\ sweep # {}
    /\ Unlocked
    /\ LET gone == {k \in sweep : Stale(k)}
       IN  /\ connMap' = [k \in Keys |-> IF k \in gone THEN NoConn ELSE connMap[k]]
           /\ closed' = closed \cup {connMap[k] : k \in gone}
    /\ sweep' = {}
    /\ UNCHANGED <<net, clientVars, key, isConnected, created, idle, queueVars, loop, server>>

\* Close of the listener: the loops end; accepted connections stay open.
ListenerClose ==
    /\ server = "listening"
    /\ server' = "stopped"
    /\ UNCHANGED <<net, clientVars, connMap, connVars, queueVars, loop, sweep>>

-----------------------------------------------------------------------------

ClientStep(k) ==
    Dial(k) \/ SendSyn(k) \/ SynTimeout(k) \/ TakeSynAck(k) \/ HandshakeFails(k)
        \/ ClientWrite(k) \/ ClientClose(k)

LoopStep ==
    \/ HandleSyn \/ HandleAck \/ EnqueuePayload \/ HandleData \/ HandleFin \/ HandleOther

OfferStep(c) == OfferTaken(c) \/ OfferExpires(c) \/ OfferDropped(c)

TunnelStep(c) == ServerRead(c) \/ CloseMarks(c) \/ CloseQueue(c)

Next ==
    \/ \E k \in Keys : ClientStep(k)
    \/ \E m \in net : LoopReceive(m) \/ Lose(m)
    \/ LoopStep
    \/ \E c \in Conns : OfferStep(c) \/ TunnelStep(c) \/ BecomeIdle(c)
    \/ Accept
    \/ SweepFind \/ SweepRemove
    \/ ListenerClose

Spec == Init /\ [][Next]_vars

\* The goroutines of the server run, its tickers fire and time passes; nothing
\* is assumed of the clients and of the network.
Fairness ==
    /\ WF_vars(LoopStep)
    /\ WF_vars(SweepFind) /\ WF_vars(SweepRemove)
    /\ \A c \in Conns : WF_vars(BecomeIdle(c)) /\ WF_vars(OfferDropped(c))

FairSpec == Spec /\ Fairness

-----------------------------------------------------------------------------
(* Properties. *)

\* An open connection keeps its entry in connMap, whatever the FINs, SYNs,
\* sweeps and closes of its predecessors under the same key do later.  Only an
\* offer of that key that Accept did not take in time can take the entry away.
OpenIsMapped ==
    \A c \in (1..created) \ closed :
        \/ connMap[key[c]] = c
        \/ \E d \in Conns : key[d] = key[c] /\ offer[d] = "dropped"

\* Accept returns a connection at most once in its life, and only after its
\* handshake: however many ACKs, data packets, FINs and repeated SYNs arrive
\* for it before or after Accept returned it, no second handler gets it.
AcceptedOnce ==
    \A c \in Conns : accepts[c] <= 1 /\ (accepts[c] > 0 => c \in isConnected)

\* A half-open or closed connection does not hold its entry for ever: a
\* handshake that is never finished and a connection closed by either side
\* make room for a new dial of the same key.
StaleEntriesGo ==
    \A c \in Conns :
        (InMap(c) /\ (c \in closed \/ c \notin isConnected))
            ~> (~InMap(c) \/ c \in isConnected \ closed \/ server # "listening")

(* The inductive invariant behind OpenIsMapped and AcceptedOnce: two facts    *)
(* about l.mu and connMap, and one about the offers. *)

\* The entry found at the lookup stays the entry while l.mu is held.
LoopInv ==
    /\ loop.at = "locked" =>
        /\ loop.pkt \in Packets
        /\ connMap[loop.pkt.key] = loop.conn
        /\ loop.pkt.is = "SYN" => created < MaxConns
    /\ loop.at = "enqueue" => loop.conn \in Conns

\* connMap holds connections that were made, under their own keys, and only
\* established ones are offered.
MapInv ==
    /\ \A k \in Keys : connMap[k] # NoConn => connMap[k] <= created /\ key[connMap[k]] = k
    /\ \A c \in Conns : offer[c] # "none" => c <= created /\ c \in isConnected

\* A connection is in acceptQueue once if its offer was taken and Accept has
\* not returned it, and was returned once if its offer ended there.
OfferInv ==
    /\ \A i, j \in DOMAIN acceptQueue : acceptQueue[i] = acceptQueue[j] => i = j
    /\ \A c \in Conns : offer[c] = "queued" <=> \E i \in DOMAIN acceptQueue : acceptQueue[i] = c
    /\ \A c \in Conns : accepts[c] = IF offer[c] = "accepted" THEN 1 ELSE 0
=============================================================================
