-------------------------- MODULE PacketPathProofs --------------------------
(***************************************************************************)
(* For any number of clients and buffers and any queue size: the types of  *)
(* the data path, that a buffer has one owner, and that a writer sends the *)
(* packet that was queued.  The strengthening says which goroutines have a *)
(* buffer in hand (Hands) and what it contains while it is offered to a    *)
(* queue (OfferedIntact).  At the end the size of those packets: for any   *)
(* configured sizes, the search for a size ends within its ten attempts    *)
(* and what a keyed tunnel sends fits one segment.                         *)
(***************************************************************************)
EXTENDS PacketPath, TunnelMtu, TLAPS

\* A goroutine has a buffer in hand exactly between the calls that take it and
\* the ones that hand it over or release it.
Hands ==
    /\ \A t \in Threads : reader[t].buf \in Bufs <=>
          \/ reader[t].at \in {"offer", "last"}
          \/ reader[t].at = "read" /\ t = "tun"
    /\ \A p \in Peers : writer[p].buf \in Bufs <=> writer[p].at = "send"
    /\ \A c \in Clients : reader[c].at = "off" => writer[c].at = "off"

\* The buffer that is offered to a queue contains the packet for it.
OfferedIntact ==
    \A t \in Threads : Offering(t) /\ reader[t].buf \notin twice =>
        content[reader[t].buf] = Packet(reader[t].to)

ControlOK ==
    /\ mode \in Modes /\ isolation \in Isolations
    /\ stopping \in BOOLEAN
    /\ stopCh \in SUBSET Clients
    /\ registered \in SUBSET Clients

Readers == [at : {"off", "top", "read", "block", "offer", "last", "exited"},
            buf : Bufs \cup {NoBuf}, to : Peers]
Writers == [at : {"off", "wait", "send", "exited"}, buf : Bufs \cup {NoBuf}]
Contents == [to : Peers \cup {NoBuf}, typed : Nat]

Inv == TypeOK /\ Hands /\ OneOwner /\ SentIntact /\ OfferedIntact

\* The state that does not decide who holds a buffer may change freely.
LEMMA SameHolders ==
    ASSUME Inv, reader' \in [Threads -> [at : {"off", "top", "read", "block", "offer", "last", "exited"},
                                         buf : Bufs \cup {NoBuf}, to : Peers]],
           \A t \in Threads : reader'[t].buf = reader[t].buf,
           writer' \in [Peers -> [at : {"off", "wait", "send", "exited"},
                                  buf : Bufs \cup {NoBuf}]],
           \A p \in Peers : writer'[p].buf = writer[p].buf,
           UNCHANGED <<pool, queue, twice>>
    PROVE  OneOwner'
BY DEF Inv, TypeOK, OneOwner, OwnedOnce, Held, Queued

\* A goroutine takes a buffer from the pool, or a new one.
LEMMA TakeOwns ==
    ASSUME Inv, NEW t \in Threads, NEW b \in Bufs, NEW r,
           r.buf = b, reader[t].buf = NoBuf, getPacketBuffer(b),
           reader' = [reader EXCEPT ![t] = r], UNCHANGED <<queue, writer>>
    PROVE  /\ OneOwner'
           /\ pool' \in [Bufs -> 0..PoolBound]
           /\ twice' \in SUBSET Bufs
           /\ b \notin twice' => ~ Held(b)
           /\ \A c \in Bufs \ {b} : c \notin twice' => c \notin twice
<1>1. /\ pool \in [Bufs -> 0..PoolBound] /\ PoolBound \in Nat \ {0}
      /\ twice \in SUBSET Bufs
  BY PathAssumption DEF Inv, TypeOK
<1>2. pool' \in [Bufs -> 0..PoolBound] /\ twice' \in SUBSET Bufs
  BY <1>1 DEF getPacketBuffer
<1>3. b \notin twice' => pool'[b] = 0 /\ ~ Held(b)
  <2>1. CASE pool[b] > 0
    <3>1. twice' = twice /\ pool'[b] = pool[b] - 1
      BY <1>1, <2>1 DEF getPacketBuffer
    <3>2. b \notin twice => pool[b] = 1 /\ ~ Held(b)
      BY <1>1, <2>1 DEF Inv, OneOwner, OwnedOnce
    <3> QED
      BY <3>1, <3>2
  <2>2. CASE pool[b] = 0
    BY <1>1, <2>2 DEF getPacketBuffer
  <2> QED
    BY <1>1, <2>1, <2>2
<1>4. \A c \in Bufs \ {b} : pool'[c] = pool[c] /\ (c \notin twice' => c \notin twice)
  BY <1>1 DEF getPacketBuffer
<1>5. reader \in [Threads -> [at : {"off", "top", "read", "block", "offer", "last", "exited"},
                              buf : Bufs \cup {NoBuf}, to : Peers]]
  BY DEF Inv, TypeOK
<1>6. ASSUME NEW c \in Bufs \ twice' PROVE OwnedOnce(c)'
  <2>1. CASE c = b
    <3>1. pool'[c] = 0 /\ ~ Held(c)
      BY <1>3, <2>1
    <3> QED
      BY <2>1, <3>1, <1>5 DEF OwnedOnce, Held, Queued
  <2>2. CASE c # b
    <3>1. OwnedOnce(c) /\ pool'[c] = pool[c]
      BY <1>4, <2>2 DEF Inv, OneOwner
    <3>2. \A u \in Threads : reader'[u].buf = c => u # t /\ reader[u].buf = c
      BY <1>5, <2>2
    <3>3. Held(c)' => Held(c)
      BY <3>2 DEF Held, Queued
    <3> QED
      BY <3>1, <3>2, <3>3 DEF OwnedOnce, Queued
  <2> QED
    BY <2>1, <2>2
<1> QED
  BY <1>2, <1>3, <1>4, <1>6 DEF OneOwner

\* A goroutine releases the buffer in its hand.
LEMMA ReaderReleases ==
    ASSUME Inv, NEW t \in Threads, reader[t].buf \in Bufs, NEW n \in 1..2,
           release(reader[t].buf, n), NEW r, r.buf = NoBuf,
           reader' = [reader EXCEPT ![t] = r], UNCHANGED <<queue, writer>>
    PROVE  /\ OneOwner'
           /\ pool' \in [Bufs -> 0..PoolBound]
           /\ twice' \in SUBSET Bufs
           /\ twice \subseteq twice'
           /\ content' = [content EXCEPT ![reader[t].buf] = Junk]
<1> DEFINE o == reader[t].buf
<1>1. /\ pool' = [pool EXCEPT ![o] = IF @ + n <= PoolBound THEN @ + n ELSE PoolBound]
      /\ twice' = IF n > 1 THEN twice \cup {o} ELSE twice
      /\ content' = [content EXCEPT ![o] = Junk]
  BY DEF release
<1>2. /\ pool \in [Bufs -> 0..PoolBound] /\ PoolBound \in Nat \ {0}
      /\ twice \in SUBSET Bufs
  BY PathAssumption DEF Inv, TypeOK
<1>3. pool' \in [Bufs -> 0..PoolBound] /\ twice' \in SUBSET Bufs /\ twice \subseteq twice'
  BY <1>1, <1>2
<1>4. ASSUME NEW b \in Bufs \ twice' PROVE OwnedOnce(b)'
  <2>1. OwnedOnce(b)
    BY <1>1 DEF Inv, OneOwner
  <2>2. CASE b = o
    <3>1. n = 1 /\ pool[b] = 0
      BY <1>1, <1>2, <2>1, <2>2 DEF OwnedOnce, Held
    <3>2. pool'[b] = 1
      BY <1>1, <1>2, <2>2, <3>1
    <3>3. ~ Held(b)'
      BY <2>1, <2>2, PathAssumption DEF OwnedOnce, Held, Queued, Inv, TypeOK
    <3> QED
      BY <2>1, <2>2, <3>2, <3>3 DEF OwnedOnce, Held, Queued
  <2>3. CASE b # o
    <3>1. pool'[b] = pool[b] /\ (Held(b)' => Held(b))
      BY <1>1, <1>2, <2>3, PathAssumption DEF Held, Queued, Inv, TypeOK
    <3>2. \A u \in Threads : reader'[u].buf = b => reader[u].buf = b
      BY <2>3, PathAssumption DEF Inv, TypeOK
    <3> QED
      BY <2>1, <3>1, <3>2 DEF OwnedOnce, Queued
  <2> QED
    BY <2>2, <2>3
<1> QED
  BY <1>1, <1>3, <1>4 DEF OneOwner

\* A packet is handed over to a queue.
LEMMA QueueOwns ==
    ASSUME Inv, NEW t \in Threads, reader[t].buf \in Bufs, Put(t),
           NEW r, r.buf = NoBuf, reader' = [reader EXCEPT ![t] = r],
           UNCHANGED <<pool, writer, twice>>
    PROVE  /\ OneOwner'
           /\ queue' \in [Peers -> Seq(Bufs)]
<1> DEFINE o == reader[t].buf
           p == reader[t].to
<1>1. /\ queue \in [Peers -> Seq(Bufs)] /\ p \in Peers
      /\ queue' = [queue EXCEPT ![p] = Append(@, o)]
      /\ reader \in [Threads -> [at : {"off", "top", "read", "block", "offer", "last", "exited"},
                                buf : Bufs \cup {NoBuf}, to : Peers]]
  BY DEF Inv, TypeOK, Put
<1>2. queue' \in [Peers -> Seq(Bufs)]
  BY <1>1
<1>3. \A q \in Peers \ {p} : queue'[q] = queue[q]
  BY <1>1
<1>4. /\ Len(queue'[p]) = Len(queue[p]) + 1
      /\ \A i \in 1..Len(queue[p]) : queue'[p][i] = queue[p][i]
      /\ queue'[p][Len(queue[p]) + 1] = o
  BY <1>1
<1>5. ASSUME NEW b \in Bufs \ twice PROVE OwnedOnce(b)'
  <2>1. OwnedOnce(b)
    BY DEF Inv, OneOwner
  <2>2. \A u \in Threads : reader'[u].buf = b => u # t /\ reader[u].buf = b
    BY <1>1, PathAssumption
  <2>3. CASE b = o
    <3>1. /\ pool[b] # 1 /\ ~ Queued(b)
          /\ \A q \in Peers : writer[q].buf # b
          /\ \A u \in Threads : reader'[u].buf # b
      BY <2>1, <2>2, <2>3 DEF OwnedOnce, Held
    <3>2. \A q \in Peers : \A i \in 1..Len(queue'[q]) :
             queue'[q][i] = b => q = p /\ i = Len(queue[p]) + 1
      BY <1>1, <1>3, <1>4, <3>1 DEF Queued
    <3> QED
      BY <2>1, <3>1, <3>2 DEF OwnedOnce
  <2>4. CASE b # o
    <3>1. \A q \in Peers : \A i \in 1..Len(queue'[q]) :
             queue'[q][i] = b => i \in 1..Len(queue[q]) /\ queue[q][i] = b
      BY <1>1, <1>3, <1>4, <2>4
    <3>2. Queued(b)' => Queued(b)
      BY <3>1 DEF Queued
    <3>3. Held(b)' => Held(b)
      BY <2>2, <3>2 DEF Held
    <3> QED
      BY <2>1, <2>2, <3>1, <3>2, <3>3 DEF OwnedOnce
  <2> QED
    BY <2>3, <2>4
<1> QED
  BY <1>2, <1>5 DEF OneOwner

\* What Head and Tail leave of a queue.
LEMMA TakenHead ==
    ASSUME Inv, NEW p \in Peers, TakesHead(p)
    PROVE  /\ Head(queue[p]) = queue[p][1]
           /\ queue[p][1] \in Bufs
           /\ 1 \in 1..Len(queue[p])
           /\ queue' \in [Peers -> Seq(Bufs)]
           /\ Len(queue'[p]) = Len(queue[p]) - 1
           /\ \A i \in 1..Len(queue'[p]) :
                 i + 1 \in 1..Len(queue[p]) /\ queue'[p][i] = queue[p][i + 1]
           /\ \A q \in Peers \ {p} : queue'[q] = queue[q]
<1>1. queue \in [Peers -> Seq(Bufs)] /\ queue[p] # <<>>
      /\ queue' = [queue EXCEPT ![p] = Tail(@)]
  BY DEF Inv, TypeOK, TakesHead
<1>2. queue[p] \in Seq(Bufs)
  BY <1>1
<1>3. Tail(queue[p]) \in Seq(Bufs) /\ Len(Tail(queue[p])) = Len(queue[p]) - 1
      /\ Len(queue[p]) \in Nat \ {0}
  BY <1>1, <1>2
<1>4. \A i \in 1..Len(Tail(queue[p])) : Tail(queue[p])[i] = queue[p][i + 1]
  BY <1>1, <1>2
<1>5. Head(queue[p]) = queue[p][1] /\ queue[p][1] \in Bufs
  BY <1>2, <1>3
<1> QED
  BY <1>1, <1>3, <1>4, <1>5

\* A writer takes the first packet of its queue.
LEMMA WriterOwns ==
    ASSUME Inv, NEW p \in Peers, TakesHead(p), UNCHANGED <<pool, reader, twice>>
    PROVE  OneOwner'
<1> DEFINE o == Head(queue[p])
<1>1. writer \in [Peers -> [at : {"off", "wait", "send", "exited"},
                            buf : Bufs \cup {NoBuf}]]
      /\ writer' = [writer EXCEPT ![p] = [at |-> "send", buf |-> o]]
  BY DEF Inv, TypeOK, TakesHead
<1>2. writer[p].buf \notin Bufs
  BY DEF Inv, Hands, TakesHead
<1>3. queue \in [Peers -> Seq(Bufs)] /\ queue' \in [Peers -> Seq(Bufs)]
  BY TakenHead DEF Inv, TypeOK
<1>4. ASSUME NEW b \in Bufs \ twice PROVE OwnedOnce(b)'
  <2>1. OwnedOnce(b)
    BY DEF Inv, OneOwner
  <2>2. CASE b = o
    <3>1. Queued(b) /\ Held(b)
      BY <2>2, TakenHead DEF Queued, Held
    <3>2. /\ pool[b] # 1
          /\ \A q \in Peers : writer[q].buf # b
          /\ \A u \in Threads : reader[u].buf # b
      BY <2>1, <3>1 DEF OwnedOnce
    <3>3. \A q \in Peers : \A i \in 1..Len(queue[q]) : queue[q][i] = b => q = p /\ i = 1
      <4>1. b = queue[p][1] /\ 1 \in 1..Len(queue[p])
        BY <2>2, TakenHead
      <4> QED BY <2>1, <4>1 DEF OwnedOnce
    <3>4. ASSUME NEW q \in Peers, NEW i \in 1..Len(queue'[q]), queue'[q][i] = b PROVE FALSE
      <4>1. CASE q = p
        <5>1. i + 1 \in 1..Len(queue[p]) /\ queue[p][i + 1] = b
          BY <3>4, <4>1, TakenHead
        <5>2. i + 1 = 1 /\ i \in Nat \ {0}
          BY <3>3, <5>1, <1>3
        <5> QED BY <5>2
      <4>2. CASE q # p
        BY <3>3, <3>4, <4>2, TakenHead
      <4> QED BY <4>1, <4>2
    <3>5. ~ Queued(b)'
      BY <3>4 DEF Queued
    <3>6. \A q \in Peers : writer'[q].buf = b => q = p
      BY <1>1, <3>2
    <3> QED
      BY <2>1, <3>2, <3>4, <3>5, <3>6 DEF OwnedOnce
  <2>3. CASE b # o
    <3>1. \A q \in Peers : writer'[q].buf = b => writer[q].buf = b
      BY <1>1, <2>3
    <3>2. ASSUME NEW q \in Peers, NEW i \in 1..Len(queue'[q]), queue'[q][i] = b
          PROVE  IF q = p THEN i + 1 \in 1..Len(queue[q]) /\ queue[q][i + 1] = b
                 ELSE i \in 1..Len(queue[q]) /\ queue[q][i] = b
      BY <3>2, TakenHead
    <3>3. Queued(b)' => Queued(b)
      BY <3>2 DEF Queued
    <3>4. Held(b)' => Held(b)
      BY <3>1, <3>3 DEF Held
    <3>5. ASSUME NEW q \in Peers, NEW r \in Peers, NEW i \in 1..Len(queue'[q]),
                 NEW j \in 1..Len(queue'[r]), queue'[q][i] = b, queue'[r][j] = b
          PROVE  q = r /\ i = j
      <4>0. i \in Nat /\ j \in Nat
        BY <1>3
      <4>1. q = r
        BY <2>1, <3>2, <3>5 DEF OwnedOnce
      <4>2. CASE q = p
        <5>1. i + 1 = j + 1
          BY <2>1, <3>2, <3>5, <4>1, <4>2 DEF OwnedOnce
        <5> QED BY <4>0, <4>1, <5>1
      <4>3. CASE q # p
        BY <2>1, <3>2, <3>5, <4>1, <4>3 DEF OwnedOnce
      <4> QED BY <4>2, <4>3
    <3> QED
      BY <2>1, <3>1, <3>3, <3>4, <3>5 DEF OwnedOnce
  <2> QED
    BY <2>2, <2>3
<1> QED
  BY <1>4 DEF OneOwner

-----------------------------------------------------------------------------
(* Each kind of step preserves the invariant. *)

LEMMA TypeParts ==
    ASSUME ControlOK, pool \in [Bufs -> 0..PoolBound], content \in [Bufs -> Contents],
           reader \in [Threads -> Readers], queue \in [Peers -> Seq(Bufs)],
           \A p \in Peers : Len(queue[p]) <= QueueSize,
           writer \in [Peers -> Writers], twice \in SUBSET Bufs
    PROVE  TypeOK
BY DEF TypeOK, ControlOK, Contents, Readers, Writers

LEMMA Typed ==
    ASSUME Inv
    PROVE  /\ ControlOK /\ pool \in [Bufs -> 0..PoolBound] /\ content \in [Bufs -> Contents]
           /\ reader \in [Threads -> Readers] /\ queue \in [Peers -> Seq(Bufs)]
           /\ \A p \in Peers : Len(queue[p]) <= QueueSize
           /\ writer \in [Peers -> Writers] /\ twice \in SUBSET Bufs
BY DEF Inv, TypeOK, ControlOK, Contents, Readers, Writers

\* A buffer with one owner that a reader has in hand is nobody else's.
LEMMA ReaderAlone ==
    ASSUME Inv, NEW t \in Threads, reader[t].buf \in Bufs \ twice
    PROVE  /\ \A u \in Threads : reader[u].buf = reader[t].buf => u = t
           /\ \A p \in Peers : writer[p].buf # reader[t].buf
           /\ \A p \in Peers : \A i \in 1..Len(queue[p]) : queue[p][i] # reader[t].buf
BY DEF Inv, OneOwner, OwnedOnce, Queued

\* A reader that takes a buffer writes its packet to it.
LEMMA TakeStep ==
    ASSUME Inv, ControlOK', NEW t \in Threads, NEW b \in Bufs, NEW r \in Readers,
           NEW v \in Contents,
           r.buf = b, r.at \in {"read", "offer"}, r.at = "read" => t = "tun",
           r.at = "offer" => v = Packet(r.to),
           reader[t].buf = NoBuf, getPacketBuffer(b),
           reader' = [reader EXCEPT ![t] = r],
           content' = [content EXCEPT ![b] = v], UNCHANGED <<queue, writer>>
    PROVE  Inv'
<1>1. /\ OneOwner' /\ pool' \in [Bufs -> 0..PoolBound] /\ twice' \in SUBSET Bufs
      /\ b \notin twice' => ~ Held(b)
      /\ \A c \in Bufs \ {b} : c \notin twice' => c \notin twice
  BY TakeOwns
<1>2. /\ content \in [Bufs -> Contents] /\ reader \in [Threads -> Readers]
      /\ queue \in [Peers -> Seq(Bufs)] /\ writer \in [Peers -> Writers]
      /\ \A p \in Peers : Len(queue[p]) <= QueueSize
  BY Typed
<1>3. content' \in [Bufs -> Contents] /\ reader' \in [Threads -> Readers]
  BY <1>2
<1>4. TypeOK'
  BY <1>1, <1>2, <1>3, TypeParts DEF TypeOK, ControlOK, Contents, Readers, Writers
<1>5. Hands'
  BY <1>2 DEF Inv, Hands
<1>6. \A c \in Bufs \ {b} : content'[c] = content[c]
  BY <1>2
<1>7. SentIntact'
  <2>1. ASSUME NEW p \in Peers, writer[p].buf \in Bufs \ twice'
        PROVE  content'[writer[p].buf] = [Packet(p) EXCEPT !.typed = 1]
    <3>1. writer[p].buf # b
      BY <1>1, <2>1 DEF Held
    <3> QED
      BY <1>1, <1>6, <2>1, <3>1 DEF Inv, SentIntact
  <2>2. ASSUME NEW p \in Peers, NEW i \in 1..Len(queue[p]), queue[p][i] \notin twice'
        PROVE  content'[queue[p][i]] = Packet(p)
    <3>1. queue[p][i] \in Bufs /\ queue[p][i] # b
      BY <1>1, <1>2, <2>2 DEF Held, Queued
    <3> QED
      BY <1>1, <1>6, <2>2, <3>1 DEF Inv, SentIntact
  <2> QED
    BY <2>1, <2>2 DEF SentIntact
<1>8. OfferedIntact'
  <2> SUFFICES ASSUME NEW u \in Threads, Offering(u)', reader'[u].buf \notin twice'
               PROVE  content'[reader'[u].buf] = Packet(reader'[u].to)
    BY DEF OfferedIntact, Packet
  <2>1. CASE u = t
    BY <1>2, <2>1 DEF Offering
  <2>2. CASE u # t
    <3>1. reader'[u] = reader[u] /\ Offering(u)
      BY <1>2, <2>2 DEF Offering
    <3>2. reader[u].buf \in Bufs
      BY <3>1 DEF Inv, Hands, Offering
    <3>3. reader[u].buf # b
      BY <1>1, <3>1 DEF Held
    <3> QED
      BY <1>1, <1>6, <3>1, <3>2, <3>3 DEF Inv, OfferedIntact
  <2> QED
    BY <2>1, <2>2
<1> QED
  BY <1>1, <1>4, <1>5, <1>7, <1>8 DEF Inv

\* A reader that releases its buffer leaves every other buffer as it is.
LEMMA ReleaseStep ==
    ASSUME Inv, ControlOK', NEW t \in Threads, reader[t].buf \in Bufs, NEW n \in 1..2,
           release(reader[t].buf, n), NEW at \in {"top", "exited"}, Goes(t, at),
           UNCHANGED <<queue, writer>>
    PROVE  Inv'
<1> DEFINE r == [Idle EXCEPT !.at = at]
           o == reader[t].buf
<1>0. r \in Readers /\ r.buf = NoBuf /\ r.at = at /\ reader' = [reader EXCEPT ![t] = r]
  BY DEF Idle, Readers, Goes, Peers
<1>1. /\ OneOwner' /\ pool' \in [Bufs -> 0..PoolBound] /\ twice' \in SUBSET Bufs
      /\ twice \subseteq twice' /\ content' = [content EXCEPT ![o] = Junk]
  BY <1>0, ReaderReleases
<1>2. /\ content \in [Bufs -> Contents] /\ reader \in [Threads -> Readers]
      /\ queue \in [Peers -> Seq(Bufs)] /\ writer \in [Peers -> Writers]
      /\ \A p \in Peers : Len(queue[p]) <= QueueSize
  BY Typed
<1>3. content' \in [Bufs -> Contents] /\ reader' \in [Threads -> Readers]
  BY <1>0, <1>1, <1>2 DEF Junk, Contents
<1>4. TypeOK'
  BY <1>1, <1>2, <1>3 DEF TypeOK, ControlOK, Contents, Readers, Writers
<1>5. Hands'
  BY <1>0, <1>2, PathAssumption DEF Inv, Hands
<1>6. \A c \in Bufs \ {o} : content'[c] = content[c]
  BY <1>1, <1>2
<1>7. SentIntact'
  <2>1. ASSUME NEW p \in Peers, writer[p].buf \in Bufs \ twice'
        PROVE  content'[writer[p].buf] = [Packet(p) EXCEPT !.typed = 1]
    <3>1. writer[p].buf # o
      BY <1>1, <2>1, ReaderAlone
    <3> QED
      BY <1>1, <1>6, <2>1, <3>1 DEF Inv, SentIntact
  <2>2. ASSUME NEW p \in Peers, NEW i \in 1..Len(queue[p]), queue[p][i] \notin twice'
        PROVE  content'[queue[p][i]] = Packet(p)
    <3>1. queue[p][i] \in Bufs /\ queue[p][i] # o
      BY <1>1, <1>2, <2>2, ReaderAlone
    <3> QED
      BY <1>1, <1>6, <2>2, <3>1 DEF Inv, SentIntact
  <2> QED
    BY <2>1, <2>2 DEF SentIntact
<1>8. OfferedIntact'
  <2> SUFFICES ASSUME NEW u \in Threads, Offering(u)', reader'[u].buf \notin twice'
               PROVE  content'[reader'[u].buf] = Packet(reader'[u].to)
    BY DEF OfferedIntact, Packet
  <2>1. u # t
    BY <1>0, <1>2 DEF Offering
  <2>2. reader'[u] = reader[u] /\ Offering(u)
    BY <1>0, <1>2, <2>1 DEF Offering
  <2>3. reader[u].buf \in Bufs \ twice
    BY <1>1, <2>2 DEF Inv, Hands, Offering
  <2>4. reader[u].buf # o
    BY <2>1, <2>3, ReaderAlone
  <2> QED
    BY <1>6, <2>2, <2>3, <2>4 DEF Inv, OfferedIntact
<1> QED
  BY <1>1, <1>4, <1>5, <1>7, <1>8 DEF Inv

\* A step that moves no buffer and changes no content.
LEMMA QuietStep ==
    ASSUME Inv, ControlOK', reader' \in [Threads -> Readers], writer' \in [Peers -> Writers],
           \A t \in Threads : reader'[t].buf = reader[t].buf,
           \A t \in Threads : Offering(t)' => Offering(t) /\ reader'[t].to = reader[t].to,
           \A p \in Peers : writer'[p].buf = writer[p].buf,
           Hands', UNCHANGED <<pool, content, queue, twice>>
    PROVE  Inv'
<1>1. OneOwner'
  BY SameHolders DEF Readers, Writers
<1>2. TypeOK'
  BY Typed DEF TypeOK, ControlOK, Contents, Readers, Writers
<1>3. SentIntact'
  BY DEF Inv, SentIntact, Packet
<1>4. OfferedIntact'
  BY DEF Inv, OfferedIntact, Packet
<1> QED
  BY <1>1, <1>2, <1>3, <1>4 DEF Inv

\* The TUN reader fills the buffer it has in hand.
LEMMA TunReadsStep ==
    ASSUME Inv, NEW c \in Clients, TunReads(c)
    PROVE  Inv'
<1> DEFINE o == reader["tun"].buf
<1>1. /\ "tun" \in Threads /\ o \in Bufs /\ c \in Peers
      /\ reader["tun"].at = "read"
      /\ content' = [content EXCEPT ![o] = Packet(c)]
      /\ reader' = [reader EXCEPT !["tun"].at = "offer", !["tun"].to = c]
      /\ UNCHANGED <<mode, isolation, stopping, stopCh, registered, pool, queue, writer, twice>>
  BY DEF TunReads, Inv, Hands, Threads, Peers, control
<1>2. /\ content \in [Bufs -> Contents] /\ reader \in [Threads -> Readers]
      /\ queue \in [Peers -> Seq(Bufs)] /\ writer \in [Peers -> Writers]
  BY Typed
<1>3. /\ content' \in [Bufs -> Contents] /\ reader' \in [Threads -> Readers]
      /\ \A t \in Threads : reader'[t].buf = reader[t].buf
      /\ \A t \in Threads \ {"tun"} : reader'[t] = reader[t]
      /\ reader'["tun"].at = "offer" /\ reader'["tun"].to = c
  BY <1>1, <1>2, ZenonT(40) DEF Readers, Contents, Packet
<1>4. TypeOK'
  BY <1>1, <1>3, Typed DEF TypeOK, ControlOK, Contents, Readers, Writers
<1>5. OneOwner'
  BY <1>1, <1>2, <1>3, SameHolders DEF Readers, Writers
<1>6. Hands'
  <2>1. Clients \subseteq Threads \ {"tun"}
    BY PathAssumption DEF Threads
  <2> QED
    BY <1>1, <1>3, <2>1 DEF Inv, Hands
<1>7. \A b \in Bufs \ {o} : content'[b] = content[b]
  BY <1>1, <1>2
<1>8. SentIntact'
  <2>1. ASSUME NEW p \in Peers, writer[p].buf \in Bufs \ twice
        PROVE  content'[writer[p].buf] = [Packet(p) EXCEPT !.typed = 1]
    <3>1. writer[p].buf # o
      BY <1>1, <2>1, ReaderAlone
    <3> QED
      BY <1>7, <2>1, <3>1 DEF Inv, SentIntact
  <2>2. ASSUME NEW p \in Peers, NEW i \in 1..Len(queue[p]), queue[p][i] \notin twice
        PROVE  content'[queue[p][i]] = Packet(p)
    <3>1. queue[p][i] \in Bufs /\ queue[p][i] # o
      BY <1>1, <1>2, <2>2, ReaderAlone
    <3> QED
      BY <1>7, <2>2, <3>1 DEF Inv, SentIntact
  <2> QED
    BY <1>1, <2>1, <2>2 DEF SentIntact
<1>9. OfferedIntact'
  <2> SUFFICES ASSUME NEW u \in Threads, Offering(u)', reader'[u].buf \notin twice'
               PROVE  content'[reader'[u].buf] = Packet(reader'[u].to)
    BY DEF OfferedIntact, Packet
  <2>1. CASE u = "tun"
    BY <1>1, <1>2, <1>3, <2>1
  <2>2. CASE u # "tun"
    <3>1. reader'[u] = reader[u] /\ Offering(u)
      BY <1>3, <2>2 DEF Offering
    <3>2. reader[u].buf \in Bufs \ twice
      BY <1>1, <3>1 DEF Inv, Hands, Offering
    <3>3. reader[u].buf # o
      BY <1>1, <2>2, <3>2, ReaderAlone
    <3> QED
      BY <1>7, <3>1, <3>2, <3>3 DEF Inv, OfferedIntact
  <2> QED
    BY <2>1, <2>2
<1> QED
  BY <1>4, <1>5, <1>6, <1>8, <1>9 DEF Inv

LEMMA EnqueueStep ==
    ASSUME Inv, NEW t \in Threads, Enqueue(t)
    PROVE  Inv'
<1> DEFINE r == [Idle EXCEPT !.at = "top"]
           o == reader[t].buf
           p == reader[t].to
<1>0. r \in Readers /\ r.buf = NoBuf /\ r.at = "top" /\ reader' = [reader EXCEPT ![t] = r]
  BY DEF Idle, Readers, Goes, Peers, Enqueue
<1>1. /\ o \in Bufs /\ Offering(t) /\ HasRoom(p) /\ Put(t)
      /\ UNCHANGED <<mode, isolation, stopping, stopCh, registered, pool, content, writer, twice>>
  BY DEF Enqueue, Inv, Hands, Offering, control
<1>2. /\ content \in [Bufs -> Contents] /\ reader \in [Threads -> Readers]
      /\ queue \in [Peers -> Seq(Bufs)] /\ writer \in [Peers -> Writers]
      /\ \A q \in Peers : Len(queue[q]) <= QueueSize
  BY Typed
<1>3. OneOwner' /\ queue' \in [Peers -> Seq(Bufs)]
  BY <1>0, <1>1, QueueOwns
<1>4. reader' \in [Threads -> Readers] /\ p \in Peers
  BY <1>0, <1>2 DEF Readers
<1>5. /\ queue' = [queue EXCEPT ![p] = Append(@, o)]
      /\ \A q \in Peers \ {p} : queue'[q] = queue[q]
      /\ Len(queue'[p]) = Len(queue[p]) + 1 /\ Len(queue[p]) \in Nat
      /\ \A i \in 1..Len(queue[p]) : queue'[p][i] = queue[p][i]
      /\ queue'[p][Len(queue[p]) + 1] = o
  BY <1>1, <1>2, <1>4 DEF Put
<1>6. \A q \in Peers : Len(queue'[q]) <= QueueSize
  BY <1>1, <1>2, <1>5, PathAssumption DEF HasRoom
<1>7. TypeOK'
  BY <1>1, <1>3, <1>4, <1>6, Typed DEF TypeOK, ControlOK, Contents, Readers, Writers
<1>8. Hands'
  BY <1>0, <1>1, <1>2, PathAssumption DEF Inv, Hands
<1>9. SentIntact'
  <2>1. ASSUME NEW q \in Peers, NEW i \in 1..Len(queue'[q]), queue'[q][i] \notin twice
        PROVE  content[queue'[q][i]] = Packet(q)
    <3>1. CASE q = p /\ i = Len(queue[p]) + 1
      BY <1>1, <1>5, <2>1, <3>1 DEF Inv, OfferedIntact
    <3>2. CASE ~ (q = p /\ i = Len(queue[p]) + 1)
      <4>1. i \in 1..Len(queue[q]) /\ queue'[q][i] = queue[q][i]
        BY <1>5, <3>2
      <4> QED
        BY <2>1, <4>1 DEF Inv, SentIntact
    <3> QED
      BY <3>1, <3>2
  <2> QED
    BY <1>1, <2>1 DEF Inv, SentIntact, Packet
<1>10. OfferedIntact'
  <2>1. \A u \in Threads : Offering(u)' => reader'[u] = reader[u] /\ Offering(u)
    BY <1>0, <1>2 DEF Offering
  <2> QED
    BY <1>1, <2>1 DEF Inv, OfferedIntact, Packet
<1> QED
  BY <1>3, <1>7, <1>8, <1>9, <1>10 DEF Inv

LEMMA WriterTakesStep ==
    ASSUME Inv, NEW p \in Peers, WriterTakes(p)
    PROVE  Inv'
<1> DEFINE o == Head(queue[p])
<1>1. /\ TakesHead(p)
      /\ writer' = [writer EXCEPT ![p] = [at |-> "send", buf |-> o]]
      /\ content' = [content EXCEPT ![o].typed = @ + 1]
      /\ UNCHANGED <<mode, isolation, stopping, stopCh, registered, pool, reader, twice>>
  BY DEF WriterTakes, TakesHead, control
<1>2. /\ content \in [Bufs -> Contents] /\ reader \in [Threads -> Readers]
      /\ queue \in [Peers -> Seq(Bufs)] /\ writer \in [Peers -> Writers]
      /\ \A q \in Peers : Len(queue[q]) <= QueueSize
  BY Typed
<1>3. /\ o = queue[p][1] /\ o \in Bufs /\ 1 \in 1..Len(queue[p])
      /\ queue' \in [Peers -> Seq(Bufs)]
      /\ Len(queue'[p]) = Len(queue[p]) - 1
      /\ \A i \in 1..Len(queue'[p]) :
            i + 1 \in 1..Len(queue[p]) /\ queue'[p][i] = queue[p][i + 1]
      /\ \A q \in Peers \ {p} : queue'[q] = queue[q]
  BY <1>1, TakenHead
<1>4. OneOwner'
  BY <1>1, WriterOwns
<1>5. content' \in [Bufs -> Contents] /\ writer' \in [Peers -> Writers]
  <2>1. content[o] \in Contents
    BY <1>2, <1>3
  <2>2. [content[o] EXCEPT !.typed = @ + 1] \in Contents
    BY <2>1 DEF Contents
  <2>3. content' \in [Bufs -> Contents]
    BY <1>1, <1>2, <2>2
  <2>4. [at |-> "send", buf |-> o] \in Writers
    BY <1>3 DEF Writers
  <2> QED
    BY <1>1, <1>2, <2>3, <2>4
<1>6. ASSUME NEW q \in Peers PROVE Len(queue'[q]) <= QueueSize
  <2>1. Len(queue[p]) \in Nat /\ Len(queue[p]) <= QueueSize /\ Len(queue[q]) <= QueueSize
    BY <1>2
  <2>2. CASE q = p
    <3>1. Len(queue'[p]) = Len(queue[p]) - 1 BY <1>3
    <3> QED BY <2>1, <2>2, <3>1, PathAssumption
  <2>3. CASE q # p
    <3>1. queue'[q] = queue[q] BY <1>3, <2>3
    <3> QED BY <2>1, <3>1
  <2> QED BY <2>2, <2>3
<1>7. TypeOK'
  BY <1>1, <1>3, <1>5, <1>6, Typed DEF TypeOK, ControlOK, Contents, Readers, Writers
<1>8. Hands'
  <2>1. writer[p].at = "wait" /\ Clients \subseteq Peers /\ writer'[p].at = "send"
        /\ writer'[p].buf \in Bufs /\ \A q \in Peers : q # p => writer'[q] = writer[q]
    BY <1>1, <1>2, <1>3 DEF TakesHead, Peers
  <2> QED
    BY <1>1, <2>1 DEF Inv, Hands
<1>9. \A c \in Bufs \ {o} : content'[c] = content[c]
  BY <1>1, <1>2
<1>10. o \notin twice =>
          /\ \A u \in Threads : reader[u].buf # o
          /\ \A q \in Peers : writer[q].buf # o
          /\ \A q \in Peers : \A i \in 1..Len(queue[q]) : queue[q][i] = o => q = p /\ i = 1
  <2> SUFFICES ASSUME o \notin twice
               PROVE  /\ \A u \in Threads : reader[u].buf # o
                      /\ \A q \in Peers : writer[q].buf # o
                      /\ \A q \in Peers : \A i \in 1..Len(queue[q]) :
                            queue[q][i] = o => q = p /\ i = 1
    OBVIOUS
  <2>1. OwnedOnce(o) /\ Queued(o)
    BY <1>3 DEF Inv, OneOwner, Queued
  <2> QED
    BY <1>3, <2>1 DEF OwnedOnce
<1>11. SentIntact'
  <2>1. ASSUME NEW q \in Peers, writer'[q].buf \in Bufs \ twice
        PROVE  content'[writer'[q].buf] = [Packet(q) EXCEPT !.typed = 1]
    <3>1. CASE q = p
      <4>1. writer'[q].buf = o
        BY <1>1, <1>2, <3>1
      <4>2. content[o] = Packet(p)
        BY <1>3, <2>1, <4>1, ZenonT(40) DEF Inv, SentIntact
      <4> QED
        BY <1>1, <1>2, <1>3, <3>1, <4>1, <4>2 DEF Packet
    <3>2. CASE q # p
      <4>1. writer'[q] = writer[q]
        BY <1>1, <1>2, <3>2
      <4>2. writer[q].buf # o
        BY <1>10, <2>1, <4>1
      <4> QED
        BY <1>9, <2>1, <4>1, <4>2 DEF Inv, SentIntact
    <3> QED
      BY <3>1, <3>2
  <2>2. ASSUME NEW q \in Peers, NEW i \in 1..Len(queue'[q]), queue'[q][i] \notin twice
        PROVE  content'[queue'[q][i]] = Packet(q)
    <3>1. PICK j \in 1..Len(queue[q]) : queue'[q][i] = queue[q][j] /\ (q = p => j = i + 1)
      BY <1>3
    <3>2. queue[q][j] \in Bufs /\ i \in Nat \ {0}
      BY <1>2, <1>3
    <3>3. queue[q][j] # o
      <4> SUFFICES ASSUME queue[q][j] = o PROVE FALSE
        OBVIOUS
      <4>1. q = p /\ j = 1
        BY <1>10, <2>2, <3>1
      <4> QED
        BY <3>1, <3>2, <4>1
    <3> QED
      BY <1>9, <2>2, <3>1, <3>2, <3>3 DEF Inv, SentIntact
  <2> QED
    BY <1>1, <2>1, <2>2 DEF SentIntact
<1>12. OfferedIntact'
  <2> SUFFICES ASSUME NEW u \in Threads, Offering(u), reader[u].buf \notin twice
               PROVE  content'[reader[u].buf] = Packet(reader[u].to)
    BY <1>1 DEF OfferedIntact, Packet, Offering
  <2>1. reader[u].buf \in Bufs
    BY DEF Inv, Hands, Offering
  <2>2. reader[u].buf # o
    BY <1>10
  <2> QED
    BY <1>9, <2>1, <2>2 DEF Inv, OfferedIntact
<1> QED
  BY <1>4, <1>7, <1>8, <1>11, <1>12 DEF Inv

\* The deferred release of a writer.
LEMMA WriterSendsStep ==
    ASSUME Inv, NEW p \in Peers, WriterSends(p)
    PROVE  Inv'
<1> DEFINE o == writer[p].buf
<1>1. /\ o \in Bufs
      /\ pool' = [pool EXCEPT ![o] = IF @ + 1 <= PoolBound THEN @ + 1 ELSE PoolBound]
      /\ content' = [content EXCEPT ![o] = Junk]
      /\ writer' = [writer EXCEPT ![p] = Waiting]
      /\ stopCh' \in {stopCh, stopCh \cup (Clients \cap {p})}
      /\ UNCHANGED <<mode, isolation, stopping, registered, reader, queue, twice>>
  BY DEF WriterSends, release, Inv, Hands
<1>2. /\ content \in [Bufs -> Contents] /\ reader \in [Threads -> Readers]
      /\ queue \in [Peers -> Seq(Bufs)] /\ writer \in [Peers -> Writers]
      /\ pool \in [Bufs -> 0..PoolBound] /\ PoolBound \in Nat \ {0}
  BY Typed, PathAssumption
<1>3. /\ pool' \in [Bufs -> 0..PoolBound] /\ content' \in [Bufs -> Contents]
      /\ writer' \in [Peers -> Writers] /\ writer'[p] = Waiting
      /\ \A q \in Peers \ {p} : writer'[q] = writer[q]
  BY <1>1, <1>2 DEF Junk, Contents, Writers, Waiting
<1>4. TypeOK'
  BY <1>1, <1>3, Typed DEF TypeOK, ControlOK, Contents, Readers, Writers
<1>5. Hands'
  BY <1>1, <1>3, PathAssumption DEF Inv, Hands, Waiting
<1>6. \A b \in Bufs \ {o} : content'[b] = content[b] /\ pool'[b] = pool[b]
  BY <1>1, <1>2
<1>7. o \notin twice =>
         /\ \A u \in Threads : reader[u].buf # o
         /\ \A q \in Peers : writer[q].buf = o => q = p
         /\ \A q \in Peers : \A i \in 1..Len(queue[q]) : queue[q][i] # o
         /\ pool[o] = 0
  <2> SUFFICES ASSUME o \notin twice
               PROVE  /\ \A u \in Threads : reader[u].buf # o
                      /\ \A q \in Peers : writer[q].buf = o => q = p
                      /\ \A q \in Peers : \A i \in 1..Len(queue[q]) : queue[q][i] # o
                      /\ pool[o] = 0
    OBVIOUS
  <2>1. OwnedOnce(o) /\ Held(o)
    BY <1>1 DEF Inv, OneOwner, Held
  <2>2. pool[o] = 0
    <3>1. pool[o] <= 1 /\ pool[o] # 1
      BY <2>1 DEF OwnedOnce
    <3>2. pool[o] \in Nat
      BY <1>1, <1>2
    <3> QED
      BY <3>1, <3>2
  <2>3. /\ \A u \in Threads : reader[u].buf # o
        /\ \A q \in Peers : writer[q].buf = o => q = p
        /\ ~ Queued(o)
    BY <2>1 DEF OwnedOnce
  <2> QED
    BY <2>2, <2>3 DEF Queued
<1>8. \A q \in Peers : writer'[q].buf \in Bufs => q # p /\ writer'[q] = writer[q]
  BY <1>3, PathAssumption DEF Waiting
<1>9. OneOwner'
  <2> SUFFICES ASSUME NEW b \in Bufs \ twice PROVE OwnedOnce(b)'
    BY <1>1 DEF OneOwner
  <2>1. OwnedOnce(b)
    BY DEF Inv, OneOwner
  <2>2. CASE b = o
    <3>1. pool'[b] = 1
      BY <1>1, <1>2, <1>7, <2>2
    <3>2. ~ Held(b)'
      BY <1>1, <1>7, <1>8, <2>2 DEF Held, Queued
    <3> QED
      BY <3>1, <3>2 DEF OwnedOnce, Held, Queued
  <2>3. CASE b # o
    <3>1. Held(b)' => Held(b)
      BY <1>1, <1>8 DEF Held, Queued
    <3> QED
      BY <1>1, <1>6, <1>8, <2>1, <2>3, <3>1 DEF OwnedOnce, Queued
  <2> QED
    BY <2>2, <2>3
<1>10. SentIntact'
  <2>1. ASSUME NEW q \in Peers, writer'[q].buf \in Bufs \ twice
        PROVE  content'[writer'[q].buf] = [Packet(q) EXCEPT !.typed = 1]
    <3>1. writer'[q].buf # o
      BY <1>7, <1>8, <2>1
    <3> QED
      BY <1>6, <1>8, <2>1, <3>1 DEF Inv, SentIntact
  <2>2. ASSUME NEW q \in Peers, NEW i \in 1..Len(queue[q]), queue[q][i] \notin twice
        PROVE  content'[queue[q][i]] = Packet(q)
    <3>1. queue[q][i] \in Bufs /\ queue[q][i] # o
      BY <1>2, <1>7, <2>2
    <3> QED
      BY <1>6, <2>2, <3>1 DEF Inv, SentIntact
  <2> QED
    BY <1>1, <2>1, <2>2 DEF SentIntact
<1>11. OfferedIntact'
  <2> SUFFICES ASSUME NEW u \in Threads, Offering(u), reader[u].buf \notin twice
               PROVE  content'[reader[u].buf] = Packet(reader[u].to)
    BY <1>1 DEF OfferedIntact, Packet, Offering
  <2>1. reader[u].buf \in Bufs /\ reader[u].buf # o
    BY <1>7 DEF Inv, Hands, Offering
  <2> QED
    BY <1>6, <2>1 DEF Inv, OfferedIntact
<1> QED
  BY <1>4, <1>5, <1>9, <1>10, <1>11 DEF Inv

LEMMA InitInv == Init => Inv
<1> SUFFICES ASSUME Init PROVE Inv
  OBVIOUS
<1>1. /\ pool = [b \in Bufs |-> 0] /\ content = [b \in Bufs |-> Junk]
      /\ reader = [t \in Threads |-> IF t = "tun" THEN Idle ELSE [Idle EXCEPT !.at = "off"]]
      /\ queue = [p \in Peers |-> <<>>] /\ twice = {}
      /\ writer = [p \in Peers |-> IF p = Server /\ mode = "client" THEN Waiting
                                   ELSE [Waiting EXCEPT !.at = "off"]]
  BY DEF Init
<1>2. /\ \A t \in Threads : reader[t].buf = NoBuf /\ reader[t].at \in {"top", "off"}
      /\ \A p \in Peers : writer[p].buf = NoBuf /\ writer[p].at \in {"wait", "off"}
      /\ \A p \in Peers : queue[p] = <<>>
  BY <1>1 DEF Idle, Waiting
<1>3. TypeOK
  <2>1. reader \in [Threads -> Readers] /\ writer \in [Peers -> Writers]
    BY <1>1 DEF Readers, Writers, Idle, Waiting, Peers
  <2>2. content \in [Bufs -> Contents] /\ pool \in [Bufs -> 0..PoolBound]
    BY <1>1, PathAssumption DEF Contents, Junk
  <2>3. queue \in [Peers -> Seq(Bufs)] /\ \A p \in Peers : Len(queue[p]) <= QueueSize
    BY <1>1, <1>2, PathAssumption
  <2> QED
    BY <1>1, <2>1, <2>2, <2>3 DEF Init, TypeOK, Readers, Writers, Contents
<1>4. Hands
  <2>1. \A c \in Clients : writer[c].at = "off"
    BY <1>1, PathAssumption DEF Waiting, Peers
  <2> QED
    BY <1>2, <2>1, PathAssumption DEF Hands
<1>5. OneOwner
  BY <1>1, <1>2, PathAssumption DEF OneOwner, OwnedOnce, Held, Queued
<1>6. SentIntact /\ OfferedIntact
  BY <1>2, PathAssumption DEF SentIntact, OfferedIntact, Offering
<1> QED
  BY <1>3, <1>4, <1>5, <1>6 DEF Inv

\* Steps of connections and of Stop, and the ones of a reader or a writer that
\* has no buffer in hand.
LEMMA QuietActions ==
    ASSUME Inv,
           \/ TunExits \/ ClientTunTop \/ ClientTunFails \/ ClientTunSkips \/ Stop
           \/ \E c \in Clients : \/ ReaderTop(c) \/ ReaderKeeps(c) \/ ReaderFails(c)
                                 \/ Connect(c) \/ Disconnect(c) \/ ClientStops(c)
           \/ \E t \in Threads : OfferTimesOut(t)
           \/ \E p \in Peers : WriterExits(p)
    PROVE  Inv'
<1>1. /\ ControlOK /\ reader \in [Threads -> Readers] /\ writer \in [Peers -> Writers]
      /\ Clients \subseteq Threads /\ Clients \subseteq Peers /\ "tun" \in Threads
      /\ Server \in Peers /\ "tun" \notin Clients /\ NoBuf \notin Bufs
  BY Typed, PathAssumption DEF Threads, Peers
<1>2. ASSUME NEW t \in Threads, NEW at \in {"top", "read", "block", "exited"}, Goes(t, at),
             reader[t].buf \notin Bufs, at = "read" => t # "tun",
             UNCHANGED <<pool, content, queue, writer, twice>>, ControlOK'
      PROVE  Inv'
  <2> DEFINE r == [Idle EXCEPT !.at = at]
  <2>1. r \in Readers /\ r.buf = NoBuf /\ r.at = at /\ reader' = [reader EXCEPT ![t] = r]
    BY <1>2 DEF Goes, Idle, Readers, Peers
  <2> HIDE DEF r
  <2>2. reader' \in [Threads -> Readers] /\ reader[t].buf = NoBuf
    BY <1>1, <1>2, <2>1 DEF Readers
  <2>3. /\ \A u \in Threads : reader'[u].buf = reader[u].buf
        /\ \A u \in Threads : u # t => reader'[u] = reader[u]
        /\ reader'[t].at = at /\ reader'[t].buf = NoBuf
    BY <1>1, <2>1, <2>2
  <2>4. \A u \in Threads : Offering(u)' => Offering(u) /\ reader'[u].to = reader[u].to
    BY <1>2, <2>3 DEF Offering
  <2>5. Hands'
    BY <1>1, <1>2, <2>3 DEF Inv, Hands
  <2> QED
    BY <1>1, <1>2, <2>2, <2>3, <2>4, <2>5, QuietStep
<1>3. CASE UNCHANGED <<pool, content, reader, queue, writer, twice>> /\ ControlOK'
  <2>1. Hands' /\ \A u \in Threads : Offering(u)' => Offering(u)
    BY <1>3 DEF Inv, Hands, Offering
  <2> QED
    BY <1>1, <1>3, <2>1, QuietStep
<1>4. CASE TunExits \/ ClientTunTop \/ ClientTunFails \/ ClientTunSkips
  <2>1. /\ reader["tun"].at \in {"top", "block"}
        /\ UNCHANGED <<mode, isolation, stopping, stopCh, registered, pool, content, queue,
                       writer, twice>>
        /\ \E at \in {"top", "block", "exited"} : Goes("tun", at)
    BY <1>4 DEF TunExits, ClientTunTop, ClientTunFails, ClientTunSkips, ClientTunReturns, control
  <2>2. reader["tun"].buf \notin Bufs
    BY <1>1, <2>1 DEF Inv, Hands
  <2>3. ControlOK'
    BY <1>1, <2>1 DEF ControlOK
  <2> QED
    BY <1>1, <1>2, <2>1, <2>2, <2>3
<1>5. CASE Stop
  BY <1>1, <1>3, <1>5 DEF Stop, ControlOK
<1>6. ASSUME NEW c \in Clients, ReaderTop(c) PROVE Inv'
  <2>1. reader[c].buf \notin Bufs /\ c \in Threads /\ c # "tun"
    BY <1>1, <1>6 DEF ReaderTop, Inv, Hands
  <2>2. ControlOK' /\ UNCHANGED <<pool, content, queue, writer, twice>>
    BY <1>1, <1>6 DEF ReaderTop, control, ControlOK
  <2>3. PICK at \in {"read", "exited"} : Goes(c, at)
    BY <1>6 DEF ReaderTop
  <2> QED
    BY <1>2, <2>1, <2>2, <2>3
<1>7. ASSUME NEW c \in Clients, ReaderKeeps(c) PROVE Inv'
  <2>1. reader[c].buf \notin Bufs /\ c \in Threads /\ c # "tun"
    BY <1>1, <1>7 DEF ReaderKeeps, Inv, Hands
  <2> QED
    BY <1>1, <1>2, <1>7, <2>1 DEF ReaderKeeps, control, ControlOK
<1>8. ASSUME NEW c \in Clients, ReaderFails(c) PROVE Inv'
  <2>1. reader[c].buf \notin Bufs /\ c \in Threads /\ c # "tun"
    BY <1>1, <1>8 DEF ReaderFails, Inv, Hands
  <2>2. ControlOK'
    BY <1>1, <1>8 DEF ReaderFails, ControlOK
  <2> QED
    BY <1>1, <1>2, <1>8, <2>1, <2>2 DEF ReaderFails
<1>9. ASSUME NEW c \in Clients, Connect(c) PROVE Inv'
  <2>1. /\ reader' = [reader EXCEPT ![c] = Idle] /\ writer' = [writer EXCEPT ![c] = Waiting]
        /\ reader[c].at = "off" /\ ControlOK'
        /\ UNCHANGED <<pool, content, queue, twice>>
    BY <1>1, <1>9 DEF Connect, ControlOK
  <2>2. /\ reader[c].buf = NoBuf /\ writer[c].buf = NoBuf
    BY <1>1, <2>1 DEF Inv, Hands, Readers, Writers
  <2>3. Idle \in Readers /\ Waiting \in Writers
    BY <1>1 DEF Idle, Waiting, Readers, Writers
  <2>4. /\ reader' \in [Threads -> Readers] /\ writer' \in [Peers -> Writers]
        /\ \A u \in Threads : u # c => reader'[u] = reader[u]
        /\ \A q \in Peers : q # c => writer'[q] = writer[q]
        /\ reader'[c] = Idle /\ writer'[c] = Waiting
    BY <1>1, <2>1, <2>3
  <2>5. /\ \A u \in Threads : reader'[u].buf = reader[u].buf
        /\ \A q \in Peers : writer'[q].buf = writer[q].buf
    BY <2>2, <2>4 DEF Idle, Waiting
  <2>6. Hands'
    BY <1>1, <2>4 DEF Inv, Hands, Idle, Waiting
  <2>7. \A u \in Threads : Offering(u)' => Offering(u) /\ reader'[u].to = reader[u].to
    BY <2>4 DEF Offering, Idle
  <2> QED
    BY <2>1, <2>4, <2>5, <2>6, <2>7, QuietStep
<1>10. ASSUME NEW c \in Clients, Disconnect(c) PROVE Inv'
  BY <1>1, <1>3, <1>10 DEF Disconnect, ControlOK
<1>11. ASSUME NEW c \in Clients, ClientStops(c) PROVE Inv'
  BY <1>1, <1>3, <1>11 DEF ClientStops, ControlOK
<1>12. ASSUME NEW t \in Threads, OfferTimesOut(t) PROVE Inv'
  <2>1. /\ reader' = [reader EXCEPT ![t].at = "last"] /\ reader[t].at = "offer"
        /\ ControlOK' /\ UNCHANGED <<pool, content, queue, writer, twice>>
    BY <1>1, <1>12 DEF OfferTimesOut, control, ControlOK
  <2>2. /\ reader' \in [Threads -> Readers] /\ reader'[t].at = "last"
        /\ \A u \in Threads : reader'[u].buf = reader[u].buf /\ reader'[u].to = reader[u].to
        /\ \A u \in Threads : u # t => reader'[u] = reader[u]
    BY <1>1, <2>1 DEF Readers
  <2>3. Hands' /\ \A u \in Threads : Offering(u)' => Offering(u)
    BY <2>1, <2>2 DEF Inv, Hands, Offering
  <2> QED
    BY <1>1, <2>1, <2>2, <2>3, QuietStep
<1>13. ASSUME NEW p \in Peers, WriterExits(p) PROVE Inv'
  <2> DEFINE w == [Waiting EXCEPT !.at = "exited"]
  <2>0. w \in Writers /\ w.at = "exited" /\ w.buf = NoBuf
    BY DEF Waiting, Writers
  <2>1. /\ writer' = [writer EXCEPT ![p] = w] /\ writer[p].at = "wait"
        /\ ControlOK' /\ UNCHANGED <<pool, content, reader, queue, twice>>
    BY <1>1, <1>13 DEF WriterExits, control, ControlOK
  <2> HIDE DEF w
  <2>2. /\ writer' \in [Peers -> Writers] /\ writer'[p].at = "exited"
        /\ \A q \in Peers : writer'[q].buf = writer[q].buf
        /\ \A q \in Peers : q # p => writer'[q] = writer[q]
    <3>1. writer[p].buf = NoBuf
      BY <1>1, <2>1 DEF Inv, Hands, Writers
    <3> QED
      BY <1>1, <2>0, <2>1, <3>1
  <2>3. Hands' /\ \A u \in Threads : Offering(u)' => Offering(u)
    BY <2>1, <2>2 DEF Inv, Hands, Offering
  <2> QED
    BY <1>1, <2>1, <2>2, <2>3, QuietStep
<1> QED
  BY <1>4, <1>5, <1>6, <1>7, <1>8, <1>9, <1>10, <1>11, <1>12, <1>13

LEMMA NextInv == Inv /\ [Next]_vars => Inv'
<1> SUFFICES ASSUME Inv, [Next]_vars PROVE Inv'
  OBVIOUS
<1>1. /\ ControlOK /\ reader \in [Threads -> Readers] /\ "tun" \in Threads
      /\ Clients \subseteq Threads /\ Clients \subseteq Peers /\ Server \in Peers
      /\ "tun" \notin Clients
  BY Typed, PathAssumption DEF Threads, Peers
<1>2. ASSUME NEW t \in Threads, reader[t].at \in {"offer", "last"} \/ (reader[t].at = "read" /\ t = "tun")
      PROVE  reader[t].buf \in Bufs
  BY <1>2 DEF Inv, Hands
<1>3. ASSUME NEW t \in Threads,
             reader[t].at \in {"top", "block"} \/ (reader[t].at = "read" /\ t # "tun")
      PROVE  reader[t].buf = NoBuf
  BY <1>1, <1>3 DEF Inv, Hands, Readers
<1>4. ASSUME NEW b \in Bufs, TunTakesBuffer(b) PROVE Inv'
  <2> DEFINE r == [at |-> "read", buf |-> b, to |-> Server]
  <2>1. r \in Readers /\ Junk \in Contents
    BY <1>1 DEF Readers, Junk, Contents
  <2>2. ControlOK'
    BY <1>1, <1>4 DEF TunTakesBuffer, control, ControlOK
  <2> QED
    BY <1>1, <1>3, <1>4, <2>1, <2>2, TakeStep DEF TunTakesBuffer
<1>5. ASSUME NEW b \in Bufs, ClientTunReads(b) PROVE Inv'
  <2> DEFINE r == [at |-> "offer", buf |-> b, to |-> Server]
  <2>1. r \in Readers /\ Packet(Server) \in Contents
    BY <1>1 DEF Readers, Packet, Contents
  <2>2. ControlOK'
    BY <1>1, <1>5 DEF ClientTunReads, control, ControlOK
  <2> QED
    BY <1>1, <1>3, <1>5, <2>1, <2>2, TakeStep DEF ClientTunReads
<1>6. ASSUME NEW c \in Clients, NEW b \in Bufs, NEW d \in Clients, ReaderForwards(c, b, d)
      PROVE  Inv'
  <2> DEFINE r == [at |-> "offer", buf |-> b, to |-> d]
  <2>1. r \in Readers /\ Packet(d) \in Contents
    BY <1>1 DEF Readers, Packet, Contents
  <2>2. ControlOK' /\ c \in Threads /\ reader[c].buf = NoBuf
    BY <1>1, <1>3, <1>6 DEF ReaderForwards, control, ControlOK
  <2> QED
    BY <1>6, <2>1, <2>2, TakeStep DEF ReaderForwards
<1>7. ASSUME NEW at \in {"top", "exited"}, TunReleases(at) PROVE Inv'
  <2>1. ControlOK'
    BY <1>1, <1>7 DEF TunReleases, control, ControlOK
  <2> QED
    BY <1>1, <1>2, <1>7, <2>1, ReleaseStep DEF TunReleases
<1>8. CASE SentDirect
  <2>1. ControlOK'
    BY <1>1, <1>8 DEF SentDirect, control, ControlOK
  <2> QED
    BY <1>1, <1>2, <1>8, <2>1, ReleaseStep DEF SentDirect
<1>9. ASSUME NEW t \in Threads, OfferStopped(t) PROVE Inv'
  <2>1. ControlOK'
    BY <1>1, <1>9 DEF OfferStopped, control, ControlOK
  <2> QED
    BY <1>2, <1>9, <2>1, ReleaseStep DEF OfferStopped, Offering
<1>10. ASSUME NEW t \in Threads, GiveUp(t) PROVE Inv'
  <2>1. ControlOK' /\ Releases(t) \in 1..2
    BY <1>1, <1>10 DEF GiveUp, control, ControlOK, Releases
  <2> QED
    BY <1>2, <1>10, <2>1, ReleaseStep DEF GiveUp
<1>11. CASE UNCHANGED vars
  BY <1>11, Typed, QuietStep
     DEF vars, Inv, Hands, Offering, ControlOK, TypeOK, Readers, Writers
<1>12. CASE TunStep
  BY <1>4, <1>5, <1>7, <1>8, <1>12, QuietActions, TunReadsStep
     DEF TunStep, TunReadFails, TunDrops
<1>13. ASSUME NEW t \in Threads, OfferStep(t) PROVE Inv'
  BY <1>9, <1>10, <1>13, QuietActions, EnqueueStep DEF OfferStep
<1>14. ASSUME NEW c \in Clients, ReaderStep(c) \/ Connect(c) \/ Disconnect(c) \/ ClientStops(c)
       PROVE  Inv'
  BY <1>6, <1>14, QuietActions DEF ReaderStep
<1>15. ASSUME NEW p \in Peers, WriterStep(p) PROVE Inv'
  BY <1>15, WriterTakesStep, WriterSendsStep, QuietActions DEF WriterStep
<1>16. CASE Stop
  BY <1>16, QuietActions
<1> QED
  BY <1>11, <1>12, <1>13, <1>14, <1>15, <1>16 DEF Next

-----------------------------------------------------------------------------

LEMMA PathInvariant == Spec => []Inv
BY InitInv, NextInv, PTL DEF Spec

\* The state of the data path stays in its types; in particular no queue
\* exceeds SendQueueSize.
THEOREM PathTypes == Spec => []TypeOK
<1>1. Inv => TypeOK
  BY DEF Inv
<1> QED
  BY <1>1, PathInvariant, PTL

\* A pooled buffer has one owner at every moment, whatever the goroutines of
\* the path do, as long as no forwarding reader has given up with it.
THEOREM BuffersHaveOneOwner == Spec => []OneOwner
<1>1. Inv => OneOwner
  BY DEF Inv
<1> QED
  BY <1>1, PathInvariant, PTL

\* The packet a connection sends is the one that was queued for it.
THEOREM PacketsSentIntact == Spec => []SentIntact
<1>1. Inv => SentIntact
  BY DEF Inv
<1> QED
  BY <1>1, PathInvariant, PTL

-----------------------------------------------------------------------------
(* The packet size, before the tunnel is started. *)

SetupType ==
    setup \in [pc : {"load", "validate", "rejected", "new", "search", "adjust", "ready", "started"},
               file : BOOLEAN, mode : {"server", "client"}, key : BOOLEAN, mtu : Int,
               low : Int, high : Int, optimal : Int, attempts : 0..maxAttempts]

\* How many sizes can be left after a number of attempts: half of those before,
\* and none after the tenth.
SizesLeft == <<925, 462, 231, 115, 57, 28, 14, 7, 3, 1, 0>>

\* The search has found the sizes below low to fit and those above high not to.
SearchInv ==
    setup.pc = "search" =>
        /\ setup.high - setup.low + 1 \in 0 .. SizesLeft[setup.attempts + 1]
        /\ setup.low >= minMTU /\ setup.high >= conservativeMTU
        /\ setup.optimal = setup.low - 1 \/ (setup.low = minMTU /\ setup.optimal = minMTU)

\* Only NewTunnel searches; what it has adjusted for a key leaves room.
SizeInv ==
    /\ setup.pc \in {"load", "validate", "rejected", "new"} => setup.attempts = 0
    /\ setup.pc = "ready" /\ setup.key = TRUE => setup.mtu <= 1371

SetupInv == SetupType /\ SearchInv /\ SizeInv

(* A tunnel is configured. *)
LEMMA SetupStarts == SetupInit => SetupInv
<1> SUFFICES ASSUME SetupInit PROVE SetupInv
  OBVIOUS
<1>1. PICK pc \in {"load", "new"}, file \in BOOLEAN, key \in BOOLEAN,
           side \in {"server", "client"}, mtu \in Sizes \cup {0} :
        setup = [pc |-> pc, file |-> file, mode |-> side, key |-> key, mtu |-> mtu,
                 low |-> 0, high |-> 0, optimal |-> 0, attempts |-> 0]
  <2>1. CASE Configured
    <3>1. PICK file \in BOOLEAN, key \in BOOLEAN, side \in {"server", "client"}, mtu \in Sizes :
            setup = [Started EXCEPT !.pc = "load", !.file = file, !.mode = side,
                                    !.key = key, !.mtu = mtu]
      BY <2>1, ZenonT(40) DEF Configured
    <3>2. setup = [pc |-> "load", file |-> file, mode |-> side, key |-> key, mtu |-> mtu,
                   low |-> 0, high |-> 0, optimal |-> 0, attempts |-> 0]
      BY <3>1 DEF Started
    <3>. QED BY <3>2, ZenonT(40)
  <2>2. CASE BareZero
    BY <2>2 DEF BareZero, Started
  <2>. QED BY <2>1, <2>2 DEF SetupInit
<1>2. mtu \in Int /\ 0 \in 0..maxAttempts BY SizesAssumption DEF maxAttempts
<1>3. setup.pc \in {"load", "new"} /\ setup.attempts = 0 BY <1>1
<1>4. SetupType BY <1>1, <1>2 DEF SetupType
<1>. QED BY <1>3, <1>4 DEF SetupInv, SearchInv, SizeInv

(* One probe halves what is left. *)
LEMMA ProbeHalves ==
  ASSUME SetupInv, NEW dialed \in BOOLEAN, Probe(dialed)
  PROVE  SetupInv'
<1> USE DEF minMTU, conservativeMTU
<1> DEFINE low == setup.low
           high == setup.high
           test == (low + high) \div 2
           n == setup.attempts
<1>1. low \in Int /\ high \in Int /\ n \in 0..10 BY DEF SetupInv, SetupType, maxAttempts
<1>2. /\ n < 10 /\ low <= high /\ setup.pc = "search"
      /\ low >= 576 /\ high >= 1200 /\ high - low + 1 \in 0 .. SizesLeft[n + 1]
      /\ setup.optimal = low - 1 \/ (low = 576 /\ setup.optimal = 576)
  BY DEF Probe, Searching, SetupInv, SearchInv, maxAttempts
<1>3. /\ test \in Int /\ low <= test /\ test <= high
      /\ 2 * test \in {low + high, low + high - 1}
  BY <1>1, <1>2
<1>4. n + 1 \in 0..maxAttempts /\ (n + 1) + 1 = n + 2 BY <1>1, <1>2 DEF maxAttempts
<1>5. /\ SizesLeft[n + 1] \in Int /\ SizesLeft[n + 2] \in Int
      /\ SizesLeft[n + 1] <= 2 * SizesLeft[n + 2] + 1
  <2>1. n = 0 \/ n = 1 \/ n = 2 \/ n = 3 \/ n = 4 \/ n = 5 \/ n = 6 \/ n = 7 \/ n = 8 \/ n = 9
    BY <1>1, <1>2
  <2>. QED BY <2>1 DEF SizesLeft
<1>6. \A w \in Nat : 2 * w <= high - low + 1 => w \in 0 .. SizesLeft[n + 2]
  BY <1>1, <1>2, <1>5
<1> HIDE DEF test
<1>7. CASE testMTU(test, dialed)
  <2> DEFINE above == test + 1
             more == n + 1
  <2>1. setup' = [setup EXCEPT !.optimal = test, !.low = above, !.attempts = more]
    BY <1>7 DEF Probe, test
  <2>2. above \in Int /\ more \in 0..maxAttempts /\ more + 1 = n + 2 BY <1>3, <1>4
  <2>3. high - above + 1 \in Nat /\ 2 * (high - above + 1) <= high - low + 1
    BY <1>1, <1>3
  <2>4. high - above + 1 \in 0 .. SizesLeft[n + 2] BY <1>6, <2>3
  <2>5. above >= 576 /\ test = above - 1 BY <1>1, <1>2, <1>3
  <2> HIDE DEF above, more
  <2>6. SetupType' BY <1>3, <2>1, <2>2 DEF SetupInv, SetupType
  <2>7. /\ setup'.low = above /\ setup'.high = high /\ setup'.optimal = test
        /\ setup'.attempts = more /\ setup'.pc = "search"
    BY <1>2, <2>1 DEF SetupInv, SetupType
  <2>8. SearchInv' BY <1>2, <2>2, <2>4, <2>5, <2>7 DEF SearchInv
  <2>. QED BY <2>6, <2>7, <2>8 DEF SetupInv, SizeInv
<1>8. CASE ~ testMTU(test, dialed)
  <2> DEFINE below == test - 1
             more == n + 1
  <2>1. setup' = [setup EXCEPT !.high = below, !.attempts = more]
    BY <1>8 DEF Probe, test
  <2>2. below \in Int /\ more \in 0..maxAttempts /\ more + 1 = n + 2 BY <1>3, <1>4
  <2>3. below - low + 1 \in Nat /\ 2 * (below - low + 1) <= high - low + 1
    BY <1>1, <1>3
  <2>4. below - low + 1 \in 0 .. SizesLeft[n + 2] BY <1>6, <2>3
  <2>5. below >= 1200 BY <1>3, <1>8 DEF testMTU
  <2> HIDE DEF below, more
  <2>6. SetupType' BY <2>1, <2>2 DEF SetupInv, SetupType
  <2>7. /\ setup'.low = low /\ setup'.high = below /\ setup'.optimal = setup.optimal
        /\ setup'.attempts = more /\ setup'.pc = "search"
    BY <1>2, <2>1 DEF SetupInv, SetupType
  <2>8. SearchInv' BY <1>2, <2>2, <2>4, <2>5, <2>7 DEF SearchInv
  <2>. QED BY <2>6, <2>7, <2>8 DEF SetupInv, SizeInv
<1>. QED BY <1>7, <1>8

(* The other steps leave the search alone, or start and end it. *)
LEMMA SetupStep == SetupInv /\ [SetupNext]_setup => SetupInv'
<1> SUFFICES ASSUME SetupInv, [SetupNext]_setup PROVE SetupInv'
  OBVIOUS
<1>1. /\ setup.mtu \in Int /\ setup.optimal \in Int /\ setup.attempts \in 0..10
      /\ setup.key \in BOOLEAN
  BY DEF SetupInv, SetupType, maxAttempts
<1>2. CASE Load
  <2> DEFINE mtu == LoadedMTU(setup.file, setup.mtu)
  <2>1. setup.pc = "load" /\ setup' = [setup EXCEPT !.pc = "validate", !.mtu = mtu]
    BY <1>2 DEF Load
  <2>2. mtu \in Int BY <1>1 DEF LoadedMTU
  <2> HIDE DEF mtu
  <2>3. SetupType' BY <2>1, <2>2 DEF SetupInv, SetupType
  <2>4. setup'.pc = "validate" /\ setup'.attempts = setup.attempts
    BY <2>1 DEF SetupInv, SetupType
  <2>. QED BY <2>1, <2>3, <2>4 DEF SetupInv, SearchInv, SizeInv
<1>3. CASE Validate
  <2>1. /\ setup.pc = "validate"
        /\ setup' = [setup EXCEPT !.pc = "new"] \/ setup' = [setup EXCEPT !.pc = "rejected"]
    BY <1>3 DEF Validate
  <2>2. SetupType' BY <2>1 DEF SetupInv, SetupType
  <2>3. setup'.pc \in {"new", "rejected"} /\ setup'.attempts = setup.attempts
    BY <2>1 DEF SetupInv, SetupType
  <2>. QED BY <2>1, <2>2, <2>3 DEF SetupInv, SearchInv, SizeInv
<1>4. CASE Given
  <2>1. setup.pc = "new" /\ setup' = [setup EXCEPT !.pc = "adjust"] BY <1>4 DEF Given
  <2>2. SetupType' BY <2>1 DEF SetupInv, SetupType
  <2>3. setup'.pc = "adjust"
    BY <2>1 DEF SetupInv, SetupType
  <2>. QED BY <2>1, <2>2, <2>3 DEF SetupInv, SearchInv, SizeInv
<1>5. CASE StartSearch
  <2>1. /\ setup.pc = "new"
        /\ setup' = [setup EXCEPT !.pc = "search", !.low = minMTU, !.high = maxMTU,
                                  !.optimal = minMTU]
    BY <1>5 DEF StartSearch
  <2>2. minMTU \in Int /\ maxMTU \in Int BY DEF minMTU, maxMTU
  <2>3. SetupType' BY <2>1, <2>2 DEF SetupInv, SetupType
  <2>4. /\ setup'.pc = "search" /\ setup'.low = minMTU /\ setup'.high = maxMTU
        /\ setup'.optimal = minMTU /\ setup'.attempts = setup.attempts
    BY <2>1 DEF SetupInv, SetupType
  <2>5. setup.attempts = 0 BY <2>1 DEF SetupInv, SizeInv
  <2>6. maxMTU - minMTU + 1 \in 0 .. SizesLeft[0 + 1] BY DEF SizesLeft, minMTU, maxMTU
  <2>7. SearchInv' BY <2>4, <2>5, <2>6 DEF SearchInv, minMTU, maxMTU, conservativeMTU
  <2>. QED BY <2>3, <2>4, <2>7 DEF SetupInv, SizeInv
<1>6. CASE EndSearch
  <2> DEFINE mtu == TunnelPart(setup.optimal)
  <2>1. setup' = [setup EXCEPT !.pc = "adjust", !.mtu = mtu] BY <1>6 DEF EndSearch
  <2>2. mtu \in Int /\ mtu <= 1371
    BY <1>1 DEF TunnelPart, packetTypeOverhead, encryptionOverhead
  <2> HIDE DEF mtu
  <2>3. SetupType' BY <2>1, <2>2, ZenonT(40) DEF SetupInv, SetupType
  <2>4. setup'.pc = "adjust" /\ setup'.mtu = mtu BY <2>1 DEF SetupInv, SetupType
  <2>. QED BY <2>2, <2>3, <2>4 DEF SetupInv, SearchInv, SizeInv
<1>7. CASE Adjust
  <2> DEFINE mtu == IF setup.key /\ setup.mtu > 1371 THEN 1371 ELSE setup.mtu
  <2>1. setup.pc = "adjust" /\ setup' = [setup EXCEPT !.pc = "ready", !.mtu = mtu]
    BY <1>7 DEF Adjust, maxSegment, packetTypeOverhead, encryptionOverhead
  <2>2. mtu \in Int /\ mtu <= setup.mtu /\ (setup.key = TRUE => mtu <= 1371) BY <1>1
  <2> HIDE DEF mtu
  <2>3. SetupType' BY <2>1, <2>2, ZenonT(40) DEF SetupInv, SetupType
  <2>4. /\ setup'.pc = "ready" /\ setup'.mtu = mtu /\ setup'.key = setup.key
    BY <2>1 DEF SetupInv, SetupType
  <2>5. SizeInv' BY <1>1, <2>2, <2>4 DEF SizeInv
  <2>. QED BY <2>3, <2>4, <2>5 DEF SetupInv, SearchInv
<1>8. CASE Start
  <2>1. setup' = Started BY <1>8 DEF Start
  <2>2. SetupType' BY <2>1 DEF Started, SetupType, maxAttempts
  <2>3. setup'.pc = "started" BY <2>1 DEF Started
  <2>. QED BY <2>2, <2>3 DEF SetupInv, SearchInv, SizeInv
<1>9. ASSUME NEW network \in NetworkTypes, Recommend(network) PROVE SetupInv'
  <2> DEFINE mtu == GetRecommendedMTU(network)
  <2>1. setup' = [setup EXCEPT !.pc = "adjust", !.mtu = mtu]
    BY <1>9 DEF Recommend
  <2>2. mtu \in Int /\ mtu <= 1371 BY DEF GetRecommendedMTU, NetworkTypes
  <2> HIDE DEF mtu
  <2>3. SetupType' BY <2>1, <2>2, ZenonT(40) DEF SetupInv, SetupType
  <2>4. setup'.pc = "adjust" /\ setup'.mtu = mtu BY <2>1 DEF SetupInv, SetupType
  <2>. QED BY <2>2, <2>3, <2>4 DEF SetupInv, SearchInv, SizeInv
<1>10. CASE UNCHANGED setup
  BY <1>10 DEF SetupInv, SetupType, SearchInv, SizeInv
<1>. QED
  BY <1>2, <1>3, <1>4, <1>5, <1>6, <1>7, <1>8, <1>9, <1>10, ProbeHalves DEF SetupNext

(* DiscoverOptimalMTU never runs out of attempts, and whatever the dials find  *)
(* it ends at a size that fits.                                                *)
THEOREM TenAttemptsSuffice == SetupSpec => []SearchIsComplete
<1>1. SetupInv => SearchIsComplete
  <2> SUFFICES ASSUME SetupInv, setup.pc = "search", ~ Searching
               PROVE  /\ setup.low > setup.high
                      /\ setup.optimal = setup.high /\ setup.optimal >= conservativeMTU
    BY DEF SearchIsComplete
  <2> USE DEF minMTU, conservativeMTU
  <2>1. setup.low \in Int /\ setup.high \in Int /\ setup.attempts \in 0..10
    BY DEF SetupInv, SetupType, maxAttempts
  <2>2. /\ setup.high - setup.low + 1 \in 0 .. SizesLeft[setup.attempts + 1]
        /\ setup.high >= 1200
        /\ setup.optimal = setup.low - 1 \/ setup.low = 576
    BY DEF SetupInv, SearchInv
  <2>3. setup.low > setup.high
    <3>1. setup.attempts = 10 => SizesLeft[setup.attempts + 1] = 0 BY DEF SizesLeft
    <3>. QED BY <2>1, <2>2, <3>1 DEF Searching, maxAttempts
  <2>. QED BY <2>1, <2>2, <2>3
<1>. QED BY <1>1, SetupStarts, SetupStep, PTL DEF SetupSpec

(* The shards of a packet of the adjusted size, cut in two or more, fit a      *)
(* segment with their header.                                                  *)
LEMMA ShardFits ==
  ASSUME NEW mtu \in Int, mtu <= 1371, NEW data \in Nat, data >= 2
  PROVE  ~ Segmented(ShardPacket(mtu, TRUE, data))
<1> USE DEF packetTypeOverhead, encryptionOverhead, fecHeader, maxSegment
<1> DEFINE even == (mtu + 1 + 28 + data - 1) \div data
           least == mtu \div data
<1>1. \A a \in Int : /\ a \div data \in Int
                     /\ a \div data > 1387 => a > 1387 * data
  <2> SUFFICES ASSUME NEW a \in Int PROVE a \div data \in Int /\ (a \div data > 1387 => a > 1387 * data)
    OBVIOUS
  <2>1. a \div data \in Int /\ a % data \in Nat /\ a = data * (a \div data) + (a % data)
    OBVIOUS
  <2>2. a \div data > 1387 => data * (a \div data) > data * 1387 BY <2>1
  <2>. QED BY <2>1, <2>2
<1>2. mtu + 1 + 28 + data - 1 \in Int /\ 1387 * data \in Int OBVIOUS
<1>3. 1387 * data = 1386 * data + data /\ 1386 * data >= 2772 OBVIOUS
<1>4. even \in Int /\ even <= 1387 BY <1>1, <1>2, <1>3
<1>5. least \in Int /\ least <= 1387 BY <1>1, <1>3
<1> DEFINE size == ShardPacket(mtu, TRUE, data)
<1>6. size = 13 + (IF even < least THEN least ELSE even) BY DEF ShardPacket
<1> HIDE DEF even, least, size
<1>7. size \in Int /\ size <= 1400 BY <1>4, <1>5, <1>6
<1>8. ~ Segmented(size) BY <1>7 DEF Segmented
<1>. QED BY <1>8, ZenonT(40) DEF size

(* With a key no packet and no shard is cut on the fake-TCP connection, for    *)
(* every size a configuration asks for.                                        *)
THEOREM KeyedNeverSegmented == SetupSpec => []NeverSegmented
<1>1. SetupInv => NeverSegmented
  <2> SUFFICES ASSUME SetupInv, setup.pc = "ready", setup.key
               PROVE  /\ ~ Segmented(setup.mtu + packetTypeOverhead + encryptionOverhead)
                      /\ \A data \in 1..12 :
                           Segmented(ShardPacket(setup.mtu, TRUE, data)) => data = 1
    BY DEF NeverSegmented
  <2>1. setup.mtu \in Int /\ setup.key \in BOOLEAN BY DEF SetupInv, SetupType
  <2>2. setup.key = TRUE BY <2>1
  <2>3. setup.mtu <= 1371 BY <2>2 DEF SetupInv, SizeInv
  <2>4. ~ Segmented(setup.mtu + packetTypeOverhead + encryptionOverhead)
    BY <2>1, <2>3 DEF Segmented, maxSegment, packetTypeOverhead, encryptionOverhead
  <2>5. ASSUME NEW data \in 1..12, data # 1
        PROVE  ~ Segmented(ShardPacket(setup.mtu, TRUE, data))
    <3>1. data \in Nat /\ data >= 2 BY <2>5
    <3>. QED BY <2>1, <2>3, <3>1, ShardFits, ZenonT(40)
  <2>. QED BY <2>4, <2>5
<1>. QED BY <1>1, SetupStarts, SetupStep, PTL DEF SetupSpec
=============================================================================
