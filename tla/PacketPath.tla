----------------------------- MODULE PacketPath -----------------------------
(***************************************************************************)
(* The data path of the tunnel: who holds a pooled packet buffer on its    *)
(* way from the TUN device, or from a client, through a bounded send queue *)
(* to a connection (tunReader, tunReaderServer, the forwarding part of     *)
(* clientNetReader, sendPacketWithRouting, netWriter, clientNetWriter,     *)
(* getPacketBuffer, releasePacketBuffer).                                  *)
(*                                                                         *)
(* A buffer is a slot that can be referred to from several places: the     *)
(* pool, the hand of a goroutine, a queue.  Nothing in the code keeps two  *)
(* goroutines from writing to one buffer except that every path hands it   *)
(* over or releases it exactly once; that is what the properties are about.*)
(* A packet is the connection it is to be sent on.  A connection of a      *)
(* client is used once: a client that comes back is another connection.    *)
(***************************************************************************)
EXTENDS Naturals, Sequences

CONSTANTS
    Clients,     \* client connections of a server
    Gateways,    \* clients that advertise a network of their own
    Server,      \* the connection of a client process to its server
    Bufs,        \* packet buffers
    NoBuf,       \* no buffer in hand
    Modes,       \* values of config.Mode to consider
    Isolations,  \* values of config.ClientIsolation to consider
    QueueSize,   \* config.SendQueueSize
    PoolBound    \* bound: how often the pool keeps one and the same buffer

Peers == Clients \cup {Server}
Threads == Clients \cup {"tun"}     \* clientNetReader of a client, the TUN reader

ASSUME PathAssumption ==
    /\ Server \notin Clients /\ "tun" \notin Clients
    /\ Gateways \subseteq Clients
    /\ NoBuf \notin Bufs
    /\ Modes \subseteq {"server", "client"}
    /\ Isolations \subseteq BOOLEAN
    /\ QueueSize \in Nat \ {0}
    /\ PoolBound \in Nat \ {0}

VARIABLES
    mode,        \* config.Mode
    isolation,   \* config.ClientIsolation
    stopping,    \* t.stopCh is closed
    stopCh,      \* connections whose stopCh is closed
    registered,  \* connections in t.clients
    pool,        \* how often a buffer is in packetPool
    content,     \* the packet in a buffer, and how many type bytes precede it
    reader,      \* of each reading goroutine: where it is, its buffer, its target
    queue,       \* sendQueue of each connection
    writer,      \* of each writing goroutine: where it is, its buffer
    twice        \* buffers that one path has released twice

vars == <<mode, isolation, stopping, stopCh, registered, pool, content, reader,
          queue, writer, twice>>

control == <<mode, isolation, stopping, stopCh, registered>>

Packet(p) == [to |-> p, typed |-> 0]
Junk == [to |-> NoBuf, typed |-> 0]     \* nobody may rely on it
Idle == [at |-> "top", buf |-> NoBuf, to |-> Server]
Waiting == [at |-> "wait", buf |-> NoBuf]

TypeOK ==
    /\ mode \in Modes /\ isolation \in Isolations
    /\ stopping \in BOOLEAN
    /\ stopCh \in SUBSET Clients
    /\ registered \in SUBSET Clients
    /\ pool \in [Bufs -> 0..PoolBound]
    /\ content \in [Bufs -> [to : Peers \cup {NoBuf}, typed : Nat]]
    /\ reader \in [Threads -> [at : {"off", "top", "read", "block", "offer", "last",
                                     "exited"},
                               buf : Bufs \cup {NoBuf}, to : Peers]]
    /\ queue \in [Peers -> Seq(Bufs)]
    /\ \A p \in Peers : Len(queue[p]) <= QueueSize
    /\ writer \in [Peers -> [at : {"off", "wait", "send", "exited"},
                             buf : Bufs \cup {NoBuf}]]
    /\ twice \in SUBSET Bufs

Init ==
    /\ mode \in Modes /\ isolation \in Isolations
    /\ stopping = FALSE
    /\ stopCh = {} /\ registered = {}
    /\ pool = [b \in Bufs |-> 0]
    /\ content = [b \in Bufs |-> Junk]
    /\ reader = [t \in Threads |-> IF t = "tun" THEN Idle ELSE [Idle EXCEPT !.at = "off"]]
    /\ queue = [p \in Peers |-> <<>>]
    /\ writer = [p \in Peers |-> IF p = Server /\ mode = "client" THEN Waiting
                                 ELSE [Waiting EXCEPT !.at = "off"]]
    /\ twice = {}

-----------------------------------------------------------------------------
(* The buffer pool. *)

Queued(b) == \E p \in Peers : \E i \in 1..Len(queue[p]) : queue[p][i] = b

Held(b) == \/ \E t \in Threads : reader[t].buf = b
           \/ \E p \in Peers : writer[p].buf = b
           \/ Queued(b)

\* A buffer that nothing refers to stands for a new one.
NewBuffer == CHOOSE b \in Bufs : pool[b] = 0 /\ ~ Held(b)

\* getPacketBuffer: one of the buffers that were put back, or a new one.
getPacketBuffer(b) ==
    \/ /\ pool[b] > 0
       /\ pool' = [pool EXCEPT ![b] = @ - 1]
       /\ UNCHANGED twice
    \/ /\ pool[b] = 0 /\ ~ Held(b) /\ b = NewBuffer
       /\ twice' = twice \ {b}
       /\ UNCHANGED pool

\* releasePacketBuffer, n times by one path: from now on anyone may take the
\* buffer.  What exceeds the bound the pool forgets, as it may at any time.
release(b, n) ==
    /\ pool' = [pool EXCEPT ![b] = IF @ + n <= PoolBound THEN @ + n ELSE PoolBound]
    /\ content' = [content EXCEPT ![b] = Junk]
    /\ twice' = IF n > 1 THEN twice \cup {b} ELSE twice

-----------------------------------------------------------------------------
(* Reading from the TUN device. *)

Goes(t, at) == reader' = [reader EXCEPT ![t] = [Idle EXCEPT !.at = at]]

\* The select at the top of each reading loop.
SeesStop(t) == stopping \/ t \in stopCh

\* tunReaderServer takes a buffer and blocks in Read.
TunTakesBuffer(b) ==
    /\ mode = "server"
    /\ reader["tun"].at = "top"
    /\ ~ stopping
    /\ getPacketBuffer(b)
    /\ content' = [content EXCEPT ![b] = Junk]
    /\ reader' = [reader EXCEPT !["tun"] = [at |-> "read", buf |-> b, to |-> Server]]
    /\ UNCHANGED <<control, queue, writer>>

\* Read fails: release and return.  Or it returns a packet that is dropped: too
\* short, not IPv4, for the server itself, kept from a client by isolation, or
\* for nobody.  Nothing says that a Read that has blocked ever returns.
TunReleases(at) ==
    /\ reader["tun"].at = "read"
    /\ release(reader["tun"].buf, 1)
    /\ Goes("tun", at)
    /\ UNCHANGED <<control, queue, writer>>

TunReadFails == TunReleases("exited")
TunDrops == TunReleases("top")

\* Read returns a packet for a client (getClientByIP) or for a network behind
\* one (findRouteClient).  Isolation drops only the packets for a client.
TunReads(c) ==
    /\ reader["tun"].at = "read"
    /\ c \in registered
    /\ isolation => c \in Gateways
    /\ content' = [content EXCEPT ![reader["tun"].buf] = Packet(c)]
    /\ reader' = [reader EXCEPT !["tun"].at = "offer", !["tun"].to = c]
    /\ UNCHANGED <<control, pool, queue, writer, twice>>

\* tunReader of a client process blocks in Read with a private buffer.
ClientTunTop ==
    /\ mode = "client"
    /\ reader["tun"].at = "top"
    /\ ~ stopping
    /\ Goes("tun", "block")
    /\ UNCHANGED <<control, pool, content, queue, writer, twice>>

\* Read fails and the reader returns, or there is no packet to send: no buffer
\* space in the kernel, nothing read, too short, not IPv4.
ClientTunReturns(at) ==
    /\ reader["tun"].at = "block"
    /\ Goes("tun", at)
    /\ UNCHANGED <<control, pool, content, queue, writer, twice>>

ClientTunFails == ClientTunReturns("exited")
ClientTunSkips == ClientTunReturns("top")

\* The packet is copied into a pooled buffer; sendPacketWithRouting may try the
\* P2P connection first, with a copy, and falls back to the server's queue.
ClientTunReads(b) ==
    /\ reader["tun"].at = "block"
    /\ getPacketBuffer(b)
    /\ content' = [content EXCEPT ![b] = Packet(Server)]
    /\ reader' = [reader EXCEPT !["tun"] = [at |-> "offer", buf |-> b, to |-> Server]]
    /\ UNCHANGED <<control, queue, writer>>

\* sendPacketWithRouting has sent the copy over P2P, or refuses the
\* destination: not queued, and tunReader releases the buffer.
SentDirect ==
    /\ mode = "client"
    /\ reader["tun"].at = "offer"
    /\ release(reader["tun"].buf, 1)
    /\ Goes("tun", "top")
    /\ UNCHANGED <<control, queue, writer>>

\* The TUN reader finds the stop channel closed before it reads again.
TunExits ==
    /\ reader["tun"].at = "top"
    /\ stopping
    /\ Goes("tun", "exited")
    /\ UNCHANGED <<control, pool, content, queue, writer, twice>>

-----------------------------------------------------------------------------
(* clientNetReader: forwarding from one client to another. *)

ReaderTop(c) ==
    /\ reader[c].at = "top"
    /\ Goes(c, IF SeesStop(c) THEN "exited" ELSE "read")
    /\ UNCHANGED <<control, pool, content, queue, writer, twice>>

\* A packet that is not forwarded: it goes to the TUN device (isolation, no
\* such client, or back to the sender), or is no data packet.
ReaderKeeps(c) ==
    /\ reader[c].at = "read"
    /\ Goes(c, "top")
    /\ UNCHANGED <<control, pool, content, queue, writer, twice>>

\* A failed TUN write ends the reader; a failed ReadPacket closes stopCh too.
ReaderFails(c) ==
    /\ reader[c].at = "read"
    /\ Goes(c, "exited")
    /\ stopCh' \in {stopCh, stopCh \cup {c}}
    /\ UNCHANGED <<mode, isolation, stopping, registered, pool, content, queue, writer,
                   twice>>

\* A packet for another registered client is copied into a pooled buffer.
ReaderForwards(c, b, d) ==
    /\ reader[c].at = "read"
    /\ ~ isolation
    /\ d \in registered \ {c}
    /\ getPacketBuffer(b)
    /\ content' = [content EXCEPT ![b] = Packet(d)]
    /\ reader' = [reader EXCEPT ![c] = [at |-> "offer", buf |-> b, to |-> d]]
    /\ UNCHANGED <<control, queue, writer>>

-----------------------------------------------------------------------------
(* Offering a packet to a send queue: a select with a timer, and after the *)
(* timer a select that drops the packet when the queue is still full.      *)

Offering(t) == reader[t].at \in {"offer", "last"}
HasRoom(p) == Len(queue[p]) < QueueSize
Put(t) == queue' = [queue EXCEPT ![reader[t].to] = Append(@, reader[t].buf)]

\* The reader that hands the packet over and releases its buffer as well.
EnqueueReleases(t) ==
    /\ Offering(t)
    /\ HasRoom(reader[t].to)
    /\ Put(t)
    /\ release(reader[t].buf, 1)
    /\ Goes(t, "top")
    /\ UNCHANGED <<control, writer>>

\* The queue takes the packet, and with it the buffer.
Enqueue(t) ==
    /\ Offering(t)
    /\ HasRoom(reader[t].to)
    /\ Put(t)
    /\ Goes(t, "top")
    /\ UNCHANGED <<control, pool, content, writer, twice>>

\* A stop channel is closed: release and return.
OfferStopped(t) ==
    /\ Offering(t)
    /\ SeesStop(t)
    /\ release(reader[t].buf, 1)
    /\ Goes(t, "exited")
    /\ UNCHANGED <<control, queue, writer>>

OfferTimesOut(t) ==
    /\ reader[t].at = "offer"
    /\ reader' = [reader EXCEPT ![t].at = "last"]
    /\ UNCHANGED <<control, pool, content, queue, writer, twice>>

\* How often a path that gives up releases its buffer: clientNetReader does so
\* in the default branch and once more because the packet was not queued.
Releases(t) == IF t = "tun" THEN 1 ELSE 2

\* The last select without its default branch: the reader waits for room.
GiveUpNever(t) == FALSE /\ UNCHANGED vars

GiveUp(t) ==
    /\ reader[t].at = "last"
    /\ ~ HasRoom(reader[t].to) /\ ~ SeesStop(t)
    /\ release(reader[t].buf, Releases(t))
    /\ Goes(t, "top")
    /\ UNCHANGED <<control, queue, writer>>

-----------------------------------------------------------------------------
(* netWriter and clientNetWriter. *)

TakesHead(p) ==
    /\ writer[p].at = "wait"
    /\ queue[p] # <<>>
    /\ writer' = [writer EXCEPT ![p] = [at |-> "send", buf |-> Head(queue[p])]]
    /\ queue' = [queue EXCEPT ![p] = Tail(@)]

\* The writer that releases the buffer before it is sent.
WriterReleasesEarly(p) ==
    /\ TakesHead(p)
    /\ release(Head(queue[p]), 1)
    /\ UNCHANGED <<control, reader>>

\* Take a packet and prepend the type byte in place.
WriterTakes(p) ==
    /\ TakesHead(p)
    /\ content' = [content EXCEPT ![Head(queue[p])].typed = @ + 1]
    /\ UNCHANGED <<control, pool, reader, twice>>

\* Encrypt and send (a client process may reconnect and try again in between);
\* the deferred release follows, whatever the outcome.  A failed send of a
\* server closes the connection's stopCh.
WriterSends(p) ==
    /\ writer[p].at = "send"
    /\ release(writer[p].buf, 1)
    /\ writer' = [writer EXCEPT ![p] = Waiting]
    /\ stopCh' \in {stopCh, stopCh \cup (Clients \cap {p})}
    /\ UNCHANGED <<mode, isolation, stopping, registered, reader, queue>>

\* The writer that looks at the stop channels only when its queue is full.
WriterExitsWhenFull(p) ==
    /\ writer[p].at = "wait"
    /\ SeesStop(p) /\ ~ HasRoom(p)
    /\ writer' = [writer EXCEPT ![p] = [Waiting EXCEPT !.at = "exited"]]
    /\ UNCHANGED <<control, pool, content, reader, queue, twice>>

WriterExits(p) ==
    /\ writer[p].at = "wait"
    /\ SeesStop(p)
    /\ writer' = [writer EXCEPT ![p] = [Waiting EXCEPT !.at = "exited"]]
    /\ UNCHANGED <<control, pool, content, reader, queue, twice>>

-----------------------------------------------------------------------------
(* Connections come and go; Stop. *)

\* handleClient starts the goroutines; the IP is registered with the first
\* packet, in the same step here, because nothing is addressed to it before.
Connect(c) ==
    /\ mode = "server" /\ ~ stopping
    /\ reader[c].at = "off"
    /\ reader' = [reader EXCEPT ![c] = Idle]
    /\ writer' = [writer EXCEPT ![c] = Waiting]
    /\ registered' = registered \cup {c}
    /\ UNCHANGED <<mode, isolation, stopping, stopCh, pool, content, queue, twice>>

\* removeClient.  The queue stays, with what is in it.
Disconnect(c) ==
    /\ c \in registered
    /\ reader[c].at = "exited" /\ writer[c].at = "exited"
    /\ registered' = registered \ {c}
    /\ UNCHANGED <<mode, isolation, stopping, stopCh, pool, content, reader, queue, writer,
                   twice>>

\* The idle check, the keepalive or a newer connection closes stopCh.
ClientStops(c) ==
    /\ c \in registered \ stopCh
    /\ stopCh' = stopCh \cup {c}
    /\ UNCHANGED <<mode, isolation, stopping, registered, pool, content, reader, queue,
                   writer, twice>>

\* Tunnel.Stop: stopCh, the TUN device, and every connection's stopCh.
Stop ==
    /\ ~ stopping
    /\ stopping' = TRUE
    /\ stopCh' = stopCh \cup registered
    /\ UNCHANGED <<mode, isolation, registered, pool, content, reader, queue, writer,
                   twice>>

-----------------------------------------------------------------------------

OfferStep(t) == Enqueue(t) \/ OfferStopped(t) \/ OfferTimesOut(t) \/ GiveUp(t)

TunStep ==
    \/ \E b \in Bufs : TunTakesBuffer(b) \/ ClientTunReads(b)
    \/ TunReadFails \/ TunDrops \/ ClientTunTop \/ ClientTunFails \/ ClientTunSkips
    \/ SentDirect \/ TunExits
    \/ \E c \in Clients : TunReads(c)

ReaderStep(c) ==
    \/ ReaderTop(c) \/ ReaderKeeps(c) \/ ReaderFails(c)
    \/ \E b \in Bufs, d \in Clients : ReaderForwards(c, b, d)

WriterStep(p) == WriterTakes(p) \/ WriterSends(p) \/ WriterExits(p)

Next ==
    \/ TunStep
    \/ \E t \in Threads : OfferStep(t)
    \/ \E c \in Clients : ReaderStep(c) \/ Connect(c) \/ Disconnect(c) \/ ClientStops(c)
    \/ \E p \in Peers : WriterStep(p)
    \/ Stop

Spec == Init /\ [][Next]_vars

\* A goroutine that can go on does: a timer fires, a select sees a channel that
\* stays ready, ReadPacket returns at its deadline, and after Stop a send and a
\* reconnection end.  A writer whose select finds both a stop channel and a
\* packet again and again takes the stop at some time.  Of a TUN reader only the
\* test at the top of its loop is fair: the device is opened in blocking mode
\* and read with a plain system call, which a packet ends but the close of the
\* descriptor by another thread need not.
Fairness ==
    /\ \A t \in Threads : WF_vars(OfferStep(t))
    /\ \A c \in Clients : WF_vars(ReaderTop(c) \/ ReaderKeeps(c) \/ ReaderFails(c))
    /\ WF_vars(TunExits)
    /\ \A p \in Peers : WF_vars(stopping /\ WriterSends(p)) /\ SF_vars(WriterExits(p))

FairSpec == Spec /\ Fairness

-----------------------------------------------------------------------------
(* Properties. *)

\* A buffer is in one place only: once in the pool, in the hand of one
\* goroutine, or at one position of one queue.
OwnedOnce(b) ==
    /\ pool[b] <= 1
    /\ pool[b] = 1 => ~ Held(b)
    /\ \A t \in Threads : reader[t].buf = b =>
          /\ \A u \in Threads : reader[u].buf = b => u = t
          /\ \A p \in Peers : writer[p].buf # b
          /\ ~ Queued(b)
    /\ \A p \in Peers : writer[p].buf = b =>
          /\ \A q \in Peers : writer[q].buf = b => q = p
          /\ ~ Queued(b)
    /\ \A p, q \in Peers : \A i \in 1..Len(queue[p]), j \in 1..Len(queue[q]) :
          queue[p][i] = b /\ queue[q][j] = b => p = q /\ i = j

\* Every hand-over of a pooled buffer (queue full, stop, P2P, failed send, lost
\* client) leaves exactly one owner; only the forwarding path of
\* clientNetReader that gives up on a full queue makes two.
OneOwner == \A b \in Bufs \ twice : OwnedOnce(b)

\* What a writer sends, and what waits in a queue, is the packet that was
\* queued for this connection, with one type byte: no other goroutine has
\* written to the buffer, or could have, since it was queued.
SentIntact ==
    \A p \in Peers :
        /\ writer[p].buf \in Bufs \ twice =>
             content[writer[p].buf] = [Packet(p) EXCEPT !.typed = 1]
        /\ \A i \in 1..Len(queue[p]) :
             queue[p][i] \notin twice => content[queue[p][i]] = Packet(p)

\* A reader that finds a queue full goes on after the timer: a connection that
\* does not drain its queue never stops the TUN reader or another client.
FullQueueDoesNotBlock == \A t \in Threads : Offering(t) ~> ~ Offering(t)

\* The TUN reader is in Read.
InTunRead == reader["tun"].at \in {"read", "block"}

\* After Stop every goroutine that reads or writes a connection returns, full
\* queues or not, and so does the TUN reader unless it stays in Read: once a
\* Read has returned, or if Stop finds the reader elsewhere, it ends.  (Stop
\* itself waits for a reader that does not for five seconds only.)
StopEndsPath ==
    /\ stopping ~> /\ \A c \in Clients : reader[c].at \in {"off", "exited"}
                   /\ \A p \in Peers : writer[p].at \in {"off", "exited"}
    /\ (stopping /\ ~ InTunRead) ~> reader["tun"].at = "exited"

(* What a comment says and the code does not keep. *)

\* "Only release if not queued (clientNetWriter will release if queued)": a
\* buffer has one owner, whichever path it took.
EveryBufferOneOwner == \A b \in Bufs : OwnedOnce(b)
=============================================================================
