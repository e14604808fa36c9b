------------------------- MODULE RawHandshakeProofs -------------------------
(***************************************************************************)
(* For any number of addresses, connections, dials and retries, and any    *)
(* capacity of the queues: the types of the listener's state, that an open *)
(* connection keeps its entry in connMap, and that Accept returns each     *)
(* established connection at most once.                                    *)
(***************************************************************************)
EXTENDS RawHandshake, TLAPS

\* The inductive invariant.
RawInv == TypeOK /\ LoopInv /\ MapInv /\ OfferInv /\ OpenIsMapped

(* The initial state. *)
LEMMA RawInit == Init => RawInv
<1> SUFFICES ASSUME Init PROVE RawInv
  OBVIOUS
<1> USE RawAssumption DEF Init
<1>1. ClientType /\ ConnType /\ LoopType
  BY DEF ClientType, ConnType, LoopType, Receiving, NoConn
<1>2. QueueType
  BY DEF QueueType
<1>3. LoopInv /\ MapInv /\ OfferInv /\ OpenIsMapped
  BY DEF LoopInv, MapInv, OfferInv, OpenIsMapped, Receiving, NoConn
<1>. QED BY <1>1, <1>2, <1>3 DEF RawInv, TypeOK

(* The packets that the code sends are packets, and carry a key. *)
LEMMA PktType ==
  ASSUME NEW k \in Keys, NEW is \in {"ACK", "DATA", "FIN", "SYNACK"}
  PROVE  Pkt(k, is) \in Packets
  BY DEF Pkt, Packets

LEMMA PacketKey == \A m \in Packets : m.key \in Keys
  BY DEF Packets

(* Connections that were made are connections, and 0 is none. *)
LEMMA MadeConns ==
  ASSUME ConnType
  PROVE  /\ NoConn \notin Conns
         /\ \A c \in 1..created : c \in Conns /\ key[c] \in Keys
         /\ \A c \in Conns : c <= created => c \in 1..created
  BY RawAssumption DEF ConnType, Conns, NoConn

(* The variables that OpenIsMapped and the facts behind it depend on. *)
LEMMA NothingRemapped ==
  ASSUME MapInv, OfferInv, OpenIsMapped,
         UNCHANGED <<connMap, key, created, isConnected, offer, acceptQueue, accepts>>,
         closed \subseteq closed'
  PROVE  MapInv' /\ OfferInv' /\ OpenIsMapped'
  BY DEF MapInv, OfferInv, OpenIsMapped

(* OfferInv depends on the offers and the queue. *)
LEMMA NothingOffered ==
  ASSUME OfferInv, UNCHANGED <<offer, acceptQueue, accepts>>
  PROVE  OfferInv'
  BY DEF OfferInv

-----------------------------------------------------------------------------
(* A client's step changes its own state and the packets under way. *)
LEMMA ClientStepTypes ==
  ASSUME ClientType, NEW k \in Keys, ClientStep(k)
  PROVE  ClientType'
<1> USE DEF ClientType
<1>1. CASE Dial(k) BY <1>1, RawAssumption DEF Dial
<1>2. CASE SendSyn(k) BY <1>2, RawAssumption DEF SendSyn
<1>3. CASE SynTimeout(k) BY <1>3 DEF SynTimeout
<1>4. CASE TakeSynAck(k) BY <1>4 DEF TakeSynAck
<1>5. CASE HandshakeFails(k) BY <1>5 DEF HandshakeFails
<1>6. CASE ClientWrite(k) BY <1>6 DEF ClientWrite, clientVars
<1>7. CASE ClientClose(k) BY <1>7 DEF ClientClose
<1>. QED BY <1>1, <1>2, <1>3, <1>4, <1>5, <1>6, <1>7 DEF ClientStep

(* ... and the packets it adds are packets. *)
LEMMA ClientStepPackets ==
  ASSUME ClientType, net \in SUBSET Packets, NEW k \in Keys, ClientStep(k)
  PROVE  net' \in SUBSET Packets
<1>1. CASE SendSyn(k)
  <2>1. tries[k] < MaxRetries => [key |-> k, is |-> "SYN", try |-> tries[k] + 1] \in Packets
    BY RawAssumption DEF ClientType, Packets
  <2>. QED BY <1>1, <2>1 DEF SendSyn
<1>2. CASE Dial(k) \/ SynTimeout(k) BY <1>2 DEF Dial, SynTimeout
<1>3. CASE TakeSynAck(k) BY <1>3, PktType DEF TakeSynAck
<1>4. CASE HandshakeFails(k) BY <1>4, PktType DEF HandshakeFails
<1>5. CASE ClientWrite(k) BY <1>5, PktType DEF ClientWrite
<1>6. CASE ClientClose(k) BY <1>6, PktType DEF ClientClose
<1>. QED BY <1>1, <1>2, <1>3, <1>4, <1>5, <1>6 DEF ClientStep

LEMMA ClientKeepsInv ==
  ASSUME RawInv, NEW k \in Keys, ClientStep(k)
  PROVE  RawInv'
<1>1. UNCHANGED <<connMap, connVars, queueVars, loop, sweep, server>>
  BY DEF ClientStep, Dial, SendSyn, SynTimeout, TakeSynAck, HandshakeFails, ClientWrite,
         ClientClose
<1>2. ClientType' /\ net' \in SUBSET Packets
  BY ClientStepTypes, ClientStepPackets DEF RawInv, TypeOK, LoopType
<1>3. ConnType' /\ QueueType' /\ LoopType'
  BY <1>1, <1>2 DEF RawInv, TypeOK, ConnType, QueueType, LoopType, connVars, queueVars
<1>4. LoopInv' /\ MapInv' /\ OfferInv' /\ OpenIsMapped'
  BY <1>1, NothingRemapped DEF RawInv, LoopInv, connVars, queueVars
<1>. QED BY <1>2, <1>3, <1>4 DEF RawInv, TypeOK

(* The network only removes packets. *)
LEMMA LoseKeepsInv ==
  ASSUME RawInv, NEW m \in net, Lose(m)
  PROVE  RawInv'
<1>1. ClientType' /\ ConnType' /\ QueueType' /\ LoopType'
  BY DEF Lose, RawInv, TypeOK, ClientType, ConnType, QueueType, LoopType, clientVars, connVars,
         queueVars
<1>2. LoopInv' /\ MapInv' /\ OfferInv' /\ OpenIsMapped'
  BY NothingRemapped DEF Lose, RawInv, LoopInv, connVars, queueVars
<1>. QED BY <1>1, <1>2 DEF RawInv, TypeOK

-----------------------------------------------------------------------------
(* The lookup removes only the entry of a closed connection. *)
LEMMA ReceiveKeepsInv ==
  ASSUME RawInv, NEW m \in net, LoopReceive(m)
  PROVE  RawInv'
<1> USE DEF RawInv, TypeOK
<1>1. m.key \in Keys /\ m \in Packets
  BY PacketKey DEF LoopType
<1>2. ClientType' /\ QueueType'
  BY DEF LoopReceive, ClientType, QueueType, clientVars, queueVars
<1>3. ConnType' /\ LoopType'
  BY <1>1 DEF ConnType, LoopType, LoopReceive, connVars
<1>4. LoopInv' /\ MapInv' /\ OfferInv'
  BY <1>1, NothingOffered
  DEF ConnType, LoopType, LoopReceive, connVars, queueVars, LoopInv, MapInv
<1>5. OpenIsMapped'
  <2> SUFFICES ASSUME NEW c \in 1..created, c \notin closed
               PROVE  \/ connMap'[key[c]] = c
                      \/ \E d \in Conns : key[d] = key[c] /\ offer[d] = "dropped"
    BY DEF OpenIsMapped, LoopReceive, connVars, queueVars
  <2>1. connMap[key[c]] = c => connMap'[key[c]] = c
    BY <1>1, MadeConns DEF LoopReceive, ConnType
  <2>. QED BY <2>1 DEF OpenIsMapped
<1>. QED BY <1>2, <1>3, <1>4, <1>5

(* A SYN makes a connection only for a key without an entry. *)
LEMMA SynKeepsInv ==
  ASSUME RawInv, HandleSyn
  PROVE  RawInv'
<1> USE DEF RawInv, TypeOK
<1>1. /\ loop.pkt.key \in Keys
      /\ connMap[loop.pkt.key] = NoConn
      /\ created + 1 \in Conns /\ created + 1 \in 0..MaxConns
  BY PacketKey, RawAssumption DEF ConnType, LoopInv, HandleSyn, Here, Conns
<1>2. ClientType' /\ QueueType'
  BY DEF HandleSyn, ClientType, QueueType, clientVars, queueVars
<1>3. ConnType'
  BY <1>1 DEF ConnType, HandleSyn
<1>4. LoopType' /\ LoopInv' /\ OfferInv'
  BY <1>1, PktType, NothingOffered DEF LoopType, LoopInv, HandleSyn, Receiving, queueVars
<1>5. CASE created' = created
  BY <1>2, <1>3, <1>4, <1>5, NothingRemapped DEF ConnType, HandleSyn, queueVars
<1>6. CASE created' # created
  <2> DEFINE k == loop.pkt.key
             n == created + 1
  <2>1. /\ created' = n /\ offer' = offer /\ closed' = closed
        /\ key' = [key EXCEPT ![n] = k]
        /\ connMap' = [connMap EXCEPT ![k] = n]
    BY <1>6 DEF HandleSyn, queueVars
  <2>2. n \in Conns /\ n # NoConn /\ created \in Nat
    BY <1>1, RawAssumption DEF ConnType, NoConn
  <2>3. \A d \in Conns : d <= created => key'[d] = key[d] /\ d <= created'
    BY <2>1, <2>2 DEF ConnType, Conns
  <2>4. MapInv'
    <3>1. ASSUME NEW j \in Keys, connMap'[j] # NoConn
          PROVE  connMap'[j] <= created' /\ key'[connMap'[j]] = j
      <4>1. CASE j = k BY <1>1, <2>1, <2>2, <4>1 DEF ConnType
      <4>2. CASE j # k
        BY <1>1, <2>1, <2>2, <2>3, <3>1, <4>2 DEF ConnType, MapInv
      <4>. QED BY <4>1, <4>2
    <3>2. \A c \in Conns : offer'[c] # "none" => c <= created' /\ c \in isConnected'
      BY <2>1, <2>3 DEF MapInv, HandleSyn
    <3>. QED BY <3>1, <3>2 DEF MapInv
  <2>5. OpenIsMapped'
    <3> SUFFICES ASSUME NEW c \in 1..n, c \notin closed
                 PROVE  \/ connMap'[key'[c]] = c
                        \/ \E d \in Conns : key'[d] = key'[c] /\ offer[d] = "dropped"
      BY <2>1 DEF OpenIsMapped
    <3>1. CASE c = n
      BY <1>1, <2>1, <2>2, <3>1 DEF ConnType
    <3>2. CASE c # n
      <4>1. c \in 1..created /\ c \in Conns /\ key'[c] = key[c] /\ key[c] \in Keys
        BY <2>2, <2>3, <3>2, MadeConns
      <4>2. CASE connMap[key[c]] = c
        BY <1>1, <2>1, <4>1, <4>2, MadeConns DEF ConnType
      <4>3. CASE \E d \in Conns : key[d] = key[c] /\ offer[d] = "dropped"
        BY <2>3, <4>1, <4>3 DEF MapInv
      <4>. QED BY <4>1, <4>2, <4>3 DEF OpenIsMapped
    <3>. QED BY <3>1, <3>2
  <2>. QED BY <1>2, <1>3, <1>4, <2>4, <2>5
<1>. QED BY <1>5, <1>6

(* A payload that is enqueued leaves recvQueue within its capacity. *)
LEMMA BacklogType ==
  ASSUME RawInv, NEW c \in Conns, Enqueue(c)
  PROVE  backlog' \in [Conns -> 0..QueueCap]
<1>1. backlog \in [Conns -> 0..QueueCap] /\ QueueCap \in Nat
  BY RawAssumption DEF RawInv, TypeOK, QueueType
<1>2. CASE recvQueue[c] = "closed"
  BY <1>1, <1>2 DEF Enqueue
<1>3. CASE recvQueue[c] # "closed"
  <2>1. (IF backlog[c] < QueueCap THEN backlog[c] + 1 ELSE backlog[c]) \in 0..QueueCap
    BY <1>1
  <2>2. backlog' = [backlog EXCEPT ![c] = IF backlog[c] < QueueCap THEN backlog[c] + 1
                                                                  ELSE backlog[c]]
    BY <1>3 DEF Enqueue
  <2>. QED BY <1>1, <2>1, <2>2
<1>. QED BY <1>2, <1>3

(* The other branches of acceptLoop. *)
LEMMA LoopKeepsInv ==
  ASSUME RawInv, LoopStep
  PROVE  RawInv'
<1> USE DEF RawInv, TypeOK
<1>0. loop.at = "locked" =>
        /\ loop.pkt.key \in Keys
        /\ connMap[loop.pkt.key] = loop.conn
        /\ loop.conn # NoConn => loop.conn \in Conns /\ loop.conn <= created
  BY PacketKey DEF ConnType, LoopType, LoopInv, MapInv
<1>1. CASE HandleSyn BY <1>1, SynKeepsInv
<1>2. CASE HandleAck
  <2>1. ClientType' /\ ConnType' /\ LoopType' /\ LoopInv'
    BY <1>0, <1>2
    DEF HandleAck, ClientType, ConnType, LoopType, LoopInv, Receiving, clientVars
  <2>2. QueueType'
    BY <1>0, <1>2 DEF HandleAck, QueueType
  <2>3. offer[loop.conn] = "none" /\ loop.conn \in Conns
    BY <1>0, <1>2 DEF HandleAck, MapInv
  <2>4. MapInv' /\ OfferInv'
    BY <1>0, <1>2, <2>3 DEF HandleAck, QueueType, MapInv, OfferInv
  <2>5. OpenIsMapped'
    BY <1>2, <2>3 DEF HandleAck, QueueType, OpenIsMapped
  <2>. QED BY <2>1, <2>2, <2>4, <2>5
<1>3. CASE EnqueuePayload
  <2>1. ClientType' /\ ConnType' /\ LoopType' /\ LoopInv'
    BY <1>3
    DEF EnqueuePayload, Enqueue, ClientType, ConnType, LoopType, LoopInv, Receiving, clientVars,
        connVars
  <2>2. QueueType'
    <3>1. loop.conn \in Conns BY <1>3 DEF EnqueuePayload, LoopInv
    <3>2. backlog' \in [Conns -> 0..QueueCap]
      BY <1>3, <3>1, BacklogType DEF EnqueuePayload
    <3>. QED BY <1>3, <3>2 DEF EnqueuePayload, QueueType
  <2>. QED BY <1>3, <2>1, <2>2, NothingRemapped DEF EnqueuePayload, connVars
<1>4. CASE HandleData
  <2>1. ClientType' /\ ConnType' /\ LoopType' /\ LoopInv'
    BY <1>4
    DEF HandleData, Enqueue, ClientType, ConnType, LoopType, LoopInv, Receiving, clientVars
  <2>2. QueueType'
    <3>1. loop.conn \in Conns BY <1>4 DEF HandleData, ConnType
    <3>2. backlog' \in [Conns -> 0..QueueCap]
      BY <1>4, <3>1, BacklogType DEF HandleData
    <3>. QED BY <1>4, <3>2 DEF HandleData, QueueType
  <2>. QED BY <1>4, <2>1, <2>2, NothingRemapped DEF HandleData
<1>5. CASE HandleFin
  <2>1. ClientType' /\ QueueType'
    BY <1>5 DEF HandleFin, ClientType, QueueType, clientVars, queueVars
  <2>2. ConnType' /\ LoopType' /\ LoopInv'
    BY <1>0, <1>5 DEF HandleFin, Here, ConnType, LoopType, LoopInv, Receiving
  <2>3. MapInv' /\ OfferInv'
    BY <1>0, <1>5, NothingOffered DEF HandleFin, Here, ConnType, MapInv, queueVars
  <2>4. OpenIsMapped'
    BY <1>0, <1>5, MadeConns DEF HandleFin, Here, ConnType, OpenIsMapped, queueVars
  <2>. QED BY <2>1, <2>2, <2>3, <2>4
<1>6. CASE HandleOther
  <2>1. ClientType' /\ QueueType' /\ ConnType' /\ LoopType' /\ LoopInv'
    BY <1>6
    DEF HandleOther, ClientType, QueueType, ConnType, LoopType, LoopInv, Receiving, clientVars,
        queueVars
  <2>. QED BY <1>6, <2>1, NothingRemapped DEF HandleOther, queueVars
<1>. QED BY <1>1, <1>2, <1>3, <1>4, <1>5, <1>6 DEF LoopStep

-----------------------------------------------------------------------------
(* An offer that lapses was neither queued nor accepted.                       *)
LEMMA OfferLapses ==
  ASSUME RawInv, NEW c \in Conns, NEW s \in {"expired", "dropped"},
         offer[c] \in {"waiting", "expired"}, offer' = [offer EXCEPT ![c] = s],
         UNCHANGED <<acceptQueue, accepts>>
  PROVE  OfferInv'
<1>1. /\ offer'[c] \notin {"queued", "accepted"} /\ offer[c] \notin {"queued", "accepted"}
      /\ \A d \in Conns : d # c => offer'[d] = offer[d]
  BY DEF RawInv, TypeOK, QueueType
<1>. QED BY <1>1 DEF RawInv, OfferInv

(* The goroutine that offers a connection removes the entry of a key and makes *)
(* that key an exception for good; the tunnel only closes.                     *)
LEMMA OfferKeepsInv ==
  ASSUME RawInv, NEW c \in Conns, OfferStep(c) \/ TunnelStep(c)
  PROVE  RawInv'
<1> USE DEF RawInv, TypeOK
<1>1. CASE OfferTaken(c)
  <2>1. QueueType'
    <3>1. acceptQueue \in Seq(Conns) /\ Len(acceptQueue) < AcceptCap
      BY <1>1 DEF OfferTaken, QueueType
    <3>2. acceptQueue' \in Seq(Conns) /\ Len(acceptQueue') <= AcceptCap
      BY <1>1, <3>1, RawAssumption DEF OfferTaken
    <3>. QED BY <1>1, <3>2 DEF OfferTaken, QueueType
  <2>2. ClientType' /\ ConnType' /\ LoopType' /\ LoopInv'
    BY <1>1 DEF OfferTaken, ClientType, ConnType, LoopType, LoopInv, clientVars, connVars
  <2>3. MapInv' /\ OpenIsMapped'
    BY <1>1 DEF OfferTaken, QueueType, MapInv, OpenIsMapped, connVars
  <2>4. OfferInv'
    <3>1. \A i \in DOMAIN acceptQueue : acceptQueue[i] # c
      BY <1>1 DEF OfferTaken, OfferInv
    <3>2. /\ DOMAIN acceptQueue' = DOMAIN acceptQueue \cup {Len(acceptQueue) + 1}
          /\ \A i \in DOMAIN acceptQueue : acceptQueue'[i] = acceptQueue[i]
          /\ acceptQueue'[Len(acceptQueue) + 1] = c
      BY <1>1 DEF OfferTaken, QueueType
    <3>3. /\ offer' = [offer EXCEPT ![c] = "queued"] /\ offer[c] = "waiting"
          /\ accepts' = accepts
      BY <1>1 DEF OfferTaken
    <3>. QED BY <3>1, <3>2, <3>3 DEF OfferInv, QueueType
  <2>. QED BY <2>1, <2>2, <2>3, <2>4
<1>2. CASE OfferExpires(c)
  <2>1. QueueType'
    BY <1>2 DEF OfferExpires, QueueType
  <2>2. ClientType' /\ ConnType' /\ LoopType' /\ LoopInv'
    BY <1>2 DEF OfferExpires, ClientType, ConnType, LoopType, LoopInv, clientVars, connVars
  <2>3. MapInv' /\ OpenIsMapped'
    <3>1. UNCHANGED <<connMap, key, created, closed, isConnected>>
      BY <1>2 DEF OfferExpires, connVars
    <3>2. /\ \A d \in Conns : offer'[d] # "none" => offer[d] # "none"
          /\ \A d \in Conns : offer[d] = "dropped" => offer'[d] = "dropped"
      BY <1>2 DEF OfferExpires, QueueType
    <3>. QED BY <3>1, <3>2 DEF MapInv, OpenIsMapped
  <2>4. OfferInv'
    BY <1>2, OfferLapses DEF OfferExpires
  <2>. QED BY <2>1, <2>2, <2>3, <2>4
<1>3. CASE OfferDropped(c)
  <2>1. QueueType'
    BY <1>3 DEF OfferDropped, QueueType
  <2>2. ClientType' /\ ConnType' /\ LoopType' /\ LoopInv'
    BY <1>3
    DEF OfferDropped, ClientType, ConnType, LoopType, LoopInv, Unlocked, clientVars, connVars
  <2>3. MapInv' /\ OfferInv'
    <3>1. MapInv'
      BY <1>3 DEF OfferDropped, ConnType, QueueType, MapInv, connVars
    <3>2. OfferInv'
      BY <1>3, OfferLapses DEF OfferDropped
    <3>. QED BY <3>1, <3>2
  <2>4. OpenIsMapped'
    <3> SUFFICES ASSUME NEW e \in 1..created, e \notin closed
                 PROVE  \/ connMap'[key[e]] = e
                        \/ \E d \in Conns : key[d] = key[e] /\ offer'[d] = "dropped"
      BY <1>3 DEF OpenIsMapped, OfferDropped, connVars
    <3>1. \A d \in Conns : d = c \/ offer[d] = "dropped" => offer'[d] = "dropped"
      BY <1>3 DEF OfferDropped, QueueType
    <3>2. CASE key[e] = key[c] BY <3>1, <3>2
    <3>3. CASE key[e] # key[c]
      <4>1. connMap'[key[e]] = connMap[key[e]]
        BY <1>3, <3>3, MadeConns DEF OfferDropped, ConnType
      <4>. QED BY <3>1, <4>1 DEF OpenIsMapped
    <3>. QED BY <3>2, <3>3
  <2>. QED BY <2>1, <2>2, <2>3, <2>4
<1>4. CASE ServerRead(c)
  <2>1. QueueType'
    BY <1>4, RawAssumption DEF ServerRead, QueueType
  <2>2. ClientType' /\ ConnType' /\ LoopType' /\ LoopInv'
    BY <1>4 DEF ServerRead, ClientType, ConnType, LoopType, LoopInv, clientVars, connVars
  <2>. QED BY <1>4, <2>1, <2>2, NothingRemapped DEF ServerRead, connVars
<1>5. CASE CloseMarks(c)
  <2>1. QueueType'
    BY <1>5 DEF CloseMarks, QueueType
  <2>2. ClientType' /\ ConnType' /\ LoopType' /\ LoopInv'
    BY <1>5 DEF CloseMarks, ClientType, ConnType, LoopType, LoopInv, clientVars
  <2>. QED BY <1>5, <2>1, <2>2, NothingRemapped DEF CloseMarks
<1>6. CASE CloseQueue(c)
  <2>1. QueueType'
    BY <1>6 DEF CloseQueue, QueueType
  <2>2. ClientType' /\ ConnType' /\ LoopType' /\ LoopInv'
    BY <1>6 DEF CloseQueue, ClientType, ConnType, LoopType, LoopInv, clientVars, connVars
  <2>. QED BY <1>6, <2>1, <2>2, NothingRemapped DEF CloseQueue, connVars
<1>. QED BY <1>1, <1>2, <1>3, <1>4, <1>5, <1>6 DEF OfferStep, TunnelStep

LEMMA AcceptKeepsInv ==
  ASSUME RawInv, Accept
  PROVE  RawInv'
<1> USE DEF RawInv, TypeOK
<1>1. Head(acceptQueue) \in Conns
  BY DEF Accept, QueueType
<1>2. acceptQueue' \in Seq(Conns) /\ Len(acceptQueue') <= AcceptCap
  BY RawAssumption DEF Accept, QueueType
<1>3. QueueType'
  <2> DEFINE h == Head(acceptQueue)
  <2>1. /\ offer' = [offer EXCEPT ![h] = "accepted"]
        /\ accepts' = [accepts EXCEPT ![h] = @ + 1]
        /\ backlog' = [backlog EXCEPT ![h] = 0]
        /\ recvQueue' = recvQueue
    BY DEF Accept
  <2>2. h \in Conns BY <1>1
  <2> HIDE DEF h
  <2>3. backlog' \in [Conns -> 0..QueueCap]
    BY <2>1, <2>2, RawAssumption DEF QueueType
  <2>. QED BY <1>2, <2>1, <2>2, <2>3 DEF QueueType
<1>4. ClientType' /\ ConnType' /\ LoopType' /\ LoopInv'
  BY DEF Accept, ClientType, ConnType, LoopType, LoopInv, clientVars, connVars
<1>5. offer[Head(acceptQueue)] = "queued"
  BY DEF Accept, QueueType, OfferInv
<1>6. MapInv' /\ OpenIsMapped'
  BY <1>1, <1>5 DEF Accept, QueueType, MapInv, OpenIsMapped, connVars
<1>7. OfferInv'
  <2> DEFINE n == Len(acceptQueue)
  <2>1. /\ n \in Nat /\ n > 0
        /\ DOMAIN acceptQueue = 1..n /\ DOMAIN acceptQueue' = 1..(n - 1)
        /\ \A i \in 1..(n - 1) : acceptQueue'[i] = acceptQueue[i + 1]
        /\ Head(acceptQueue) = acceptQueue[1]
    BY DEF Accept, QueueType
  <2>2. offer' = [offer EXCEPT ![acceptQueue[1]] = "accepted"]
    BY <2>1 DEF Accept
  <2>3. \A i \in 2..n : acceptQueue[i] # acceptQueue[1]
    BY <2>1 DEF OfferInv
  <2>4. \A i, j \in DOMAIN acceptQueue' : acceptQueue'[i] = acceptQueue'[j] => i = j
    BY <2>1 DEF OfferInv
  <2>5. ASSUME NEW c \in Conns
        PROVE  offer'[c] = "queued" <=> \E i \in DOMAIN acceptQueue' : acceptQueue'[i] = c
    <3>1. CASE c = acceptQueue[1]
      <4>1. offer'[c] = "accepted" BY <2>2, <3>1 DEF QueueType
      <4>2. \A i \in 1..(n - 1) : i + 1 \in 2..n BY <2>1
      <4>. QED BY <2>1, <2>3, <3>1, <4>1, <4>2
    <3>2. CASE c # acceptQueue[1]
      <4>1. offer'[c] = offer[c] BY <2>2, <3>2 DEF QueueType
      <4>2. ASSUME NEW i \in 1..n, acceptQueue[i] = c
            PROVE  i - 1 \in 1..(n - 1) /\ acceptQueue'[i - 1] = c
        BY <2>1, <3>2, <4>2
      <4>3. \A i \in 1..(n - 1) : i + 1 \in 1..n
        BY <2>1
      <4>4. (\E i \in 1..n : acceptQueue[i] = c) <=> (\E i \in 1..(n - 1) : acceptQueue'[i] = c)
        BY <2>1, <4>2, <4>3
      <4>5. offer[c] = "queued" <=> \E i \in 1..n : acceptQueue[i] = c
        BY <2>1 DEF OfferInv
      <4>. QED BY <2>1, <4>1, <4>4, <4>5
    <3>. QED BY <3>1, <3>2
  <2>6. ASSUME NEW c \in Conns
        PROVE  accepts'[c] = IF offer'[c] = "accepted" THEN 1 ELSE 0
    <3>1. accepts' = [accepts EXCEPT ![acceptQueue[1]] = @ + 1]
      BY <2>1 DEF Accept
    <3>. QED BY <1>1, <1>5, <2>1, <2>2, <3>1 DEF QueueType, OfferInv
  <2>. QED BY <2>4, <2>5, <2>6 DEF OfferInv
<1>. QED BY <1>3, <1>4, <1>6, <1>7

(* The cleanup closes what it removes. *)
LEMMA SweepKeepsInv ==
  ASSUME RawInv, SweepRemove
  PROVE  RawInv'
<1> USE DEF RawInv, TypeOK
<1>1. ClientType' /\ QueueType'
  BY DEF SweepRemove, ClientType, QueueType, clientVars, queueVars
<1>2. ConnType' /\ LoopType' /\ LoopInv'
  BY DEF SweepRemove, Stale, ConnType, LoopType, LoopInv, Unlocked
<1>3. MapInv' /\ OfferInv'
  BY NothingOffered DEF SweepRemove, ConnType, LoopType, MapInv, queueVars
<1>4. OpenIsMapped'
  <2> SUFFICES ASSUME NEW c \in 1..created, c \notin closed'
               PROVE  \/ connMap'[key[c]] = c
                      \/ \E d \in Conns : key[d] = key[c] /\ offer[d] = "dropped"
    BY DEF OpenIsMapped, SweepRemove, queueVars
  <2>1. c \notin closed /\ (connMap[key[c]] = c => connMap'[key[c]] = c)
    BY MadeConns DEF SweepRemove, ConnType
  <2>. QED BY <2>1 DEF OpenIsMapped
<1>. QED BY <1>1, <1>2, <1>3, <1>4

(* Steps that change none of these variables. *)
LEMMA RestKeepsInv ==
  ASSUME RawInv,
         \/ \E c \in Conns : BecomeIdle(c)
         \/ SweepFind \/ ListenerClose \/ UNCHANGED vars
  PROVE  RawInv'
<1> USE DEF RawInv, TypeOK
<1>1. ClientType' /\ QueueType'
  BY DEF BecomeIdle, SweepFind, ListenerClose, vars, ClientType, QueueType, clientVars, queueVars
<1>2. ConnType' /\ LoopType' /\ LoopInv'
  BY DEF BecomeIdle, SweepFind, ListenerClose, vars, ConnType, LoopType, LoopInv, connVars
<1>3. UNCHANGED <<connMap, key, created, isConnected, offer, acceptQueue, accepts, closed>>
  BY DEF BecomeIdle, SweepFind, ListenerClose, vars, connVars, queueVars
<1>. QED BY <1>1, <1>2, <1>3, NothingRemapped

-----------------------------------------------------------------------------
(* RawInv is inductive. *)
THEOREM RawInvariant == Spec => []RawInv
<1>1. RawInv /\ [Next]_vars => RawInv'
  BY ClientKeepsInv, LoseKeepsInv, ReceiveKeepsInv, LoopKeepsInv, OfferKeepsInv, AcceptKeepsInv,
     SweepKeepsInv, RestKeepsInv
  DEF Next
<1>. QED BY <1>1, RawInit, PTL DEF Spec

(* An open connection of the raw listener keeps its entry in connMap, so that  *)
(* acceptLoop hands it its packets, unless an offer of its key was dropped.    *)
THEOREM OpenKeepsEntry == Spec => [](TypeOK /\ OpenIsMapped)
<1>1. RawInv => TypeOK /\ OpenIsMapped
  BY DEF RawInv
<1>. QED BY <1>1, RawInvariant, PTL

(* Accept returns a connection at most once, and only an established one: a    *)
(* connection that is offered was not offered before (MapInv: only a half-open *)
(* one starts an offer, OfferInv: its offer ends in at most one return).       *)
THEOREM AcceptedAtMostOnce == Spec => []AcceptedOnce
<1>1. RawInv => AcceptedOnce
  BY DEF RawInv, OfferInv, MapInv, AcceptedOnce, TypeOK, QueueType
<1>. QED BY <1>1, RawInvariant, PTL
=============================================================================
