--------------------------- MODULE P2PLinkProofs ---------------------------
(***************************************************************************)
(* For any addresses, NAT types, timeouts and number of waiting            *)
(* goroutines: the types of the P2P state, that manager and routing table  *)
(* hold the same object outside netReader's handlers, that a removed peer  *)
(* leaves nothing behind, and that no delay exceeds the cap of its phase.  *)
(***************************************************************************)
EXTENDS P2PLink, TLAPS

\* What the locks and the position of netReader mean for the routing table: an
\* update and an addition work on an existing entry, a removal has removed it.
\* (The bound on waiting goroutines leaves room for the one to come.)
LockInv ==
    /\ updater # "free" => rtPeer # NoPeer
    /\ reader = "adding" => rtPeer # NoPeer /\ pending < MaxPending
    /\ reader = "removing" => rtPeer = NoPeer

\* The types of what an action may leave alone.
TableType ==
    /\ mPeer \in Objs \cup {NoPeer}
    /\ rtPeer \in Objs \cup {NoPeer}
    /\ route \in {"none", "direct", "server"}
    /\ updater \in {"free", "direct", "server"}
    /\ reader \in {"idle", "adding", "removing"}
    /\ pending \in 0..MaxPending

NetType ==
    /\ answer \in Addrs \cup {NoAddr}
    /\ found \in BOOLEAN
    /\ found => answer # NoAddr
    /\ reach \in Paths

TimeType ==
    /\ ka \in 0..KeepalivePeriod
    /\ qa \in 0..QualityPeriod

ObjType == obj \in [Objs -> PeerInfos]
ConnType == conn \in Connections \cup {NoConn}

\* The inductive invariant.
P2PInv ==
    /\ TableType /\ NetType /\ TimeType /\ ObjType /\ ConnType
    /\ LockInv /\ TablesAgree /\ NothingSurvivesRemoval /\ BackoffCapped

(* The bound of ages is a number. *)
LEMMA MaxAgeType == MaxAge \in Nat \ {0}
  BY P2PAssumption DEF MaxAge

(* So is the bound of waiting times. *)
LEMMA MaxWaitType == MaxWait \in Nat
  BY P2PAssumption DEF MaxWait

(* A product grows with its second factor. *)
LEMMA TimesMonotonic ==
  ASSUME NEW k \in Nat, NEW a \in Nat, NEW b \in Nat, a <= b
  PROVE  k * a \in 0..(k * b)
<1>1. PICK d \in Nat : b = a + d
  <2>1. b - a \in Nat /\ b = a + (b - a)
    OBVIOUS
  <2>. QED BY <2>1
<1>2. k * b = k * a + k * d
  BY <1>1
<1>3. k * a \in Nat /\ k * d \in Nat
  BY <1>1
<1>. QED BY <1>2, <1>3

(* The backoff is at most the cap, and 0 when the shift leaves the int. *)
LEMMA BackoffBound ==
  ASSUME NEW f \in 0..IntWidth, NEW cap \in Nat
  PROVE  Backoff(f, cap) \in 0..(KeepalivePeriod * cap)
<1> USE P2PAssumption
<1>2. \A n \in 0..cap : KeepalivePeriod * n \in 0..(KeepalivePeriod * cap)
  BY TimesMonotonic
<1>3. cap \in 0..cap /\ 0 \in 0..cap
  OBVIOUS
<1>4. KeepalivePeriod * 0 = 0
  OBVIOUS
<1>5. 0 \in 0..(KeepalivePeriod * cap)
  BY <1>2, <1>3, <1>4
<1> DEFINE m == IF 2^f \in 0..cap THEN 2^f ELSE cap
<1>6. m \in 0..cap
  BY <1>3
<1> HIDE DEF m
<1>7. KeepalivePeriod * m \in 0..(KeepalivePeriod * cap)
  BY <1>2, <1>6
<1>. QED BY <1>5, <1>7 DEF Backoff, m

(* The cap of either phase is within the bound of waiting times. *)
LEMMA CapBound ==
  ASSUME NEW c \in Connections
  PROVE  /\ MaxMultiplier(c) \in Nat
         /\ KeepalivePeriod * MaxMultiplier(c) \in 0..MaxWait
<1> DEFINE most == IF MaxBackoff > InitialBackoff THEN MaxBackoff ELSE InitialBackoff
<1>1. MaxMultiplier(c) \in Nat /\ most \in Nat /\ MaxMultiplier(c) <= most
  BY P2PAssumption DEF MaxMultiplier
<1>2. MaxWait = KeepalivePeriod * most
  BY DEF MaxWait
<1> HIDE DEF most
<1>. QED BY <1>1, <1>2, TimesMonotonic, P2PAssumption

(* Objects and connections that the code makes are of their types. *)
LEMMA FreshType == \A info \in Infos : Fresh(info) \in PeerInfos
  BY MaxAgeType DEF Fresh, PeerInfos

LEMMA HeldType ==
  ASSUME ObjType, NEW o
  PROVE  Held(o) \in [Objs -> PeerInfos]
<1>1. (CHOOSE i \in Infos : TRUE) \in Infos
  BY P2PAssumption
<1>. QED BY <1>1, FreshType DEF ObjType, Held

LEMMA NewForType ==
  ASSUME NEW mine \in NATs, NEW info \in Infos
  PROVE  /\ NewFor(mine, info) \in Connections
         /\ NewFor(mine, info).wait = 0
<1>1. info \in [public : Addrs, local : Addrs \cup {NoAddr}, nat : NATs]
  BY P2PAssumption
<1>2. 0 \in 0..IntWidth
  BY P2PAssumption
<1>3. 0 \in 0..MaxWait
  BY MaxWaitType
<1>. QED BY <1>1, <1>2, <1>3 DEF NewFor, NewConnection, Connections

LEMMA AfterAttemptType ==
  ASSUME NEW c \in Connections
  PROVE  /\ AfterAttempt(c) \in Connections
         /\ AfterAttempt(c).wait <= KeepalivePeriod * MaxMultiplier(c)
         /\ AfterAttempt(c).established = c.established
<1>1. c.failures \in 0..IntWidth
  BY DEF Connections
<1> DEFINE w == Backoff(c.failures, MaxMultiplier(c))
           cap == KeepalivePeriod * MaxMultiplier(c)
<1>2. w \in 0..cap /\ cap \in 0..MaxWait
  BY <1>1, BackoffBound, CapBound
<1> HIDE DEF w, cap
<1>3. w \in 0..MaxWait /\ w <= cap
  BY <1>2, MaxWaitType
<1> DEFINE f == IF c.failures < IntWidth THEN c.failures + 1 ELSE c.failures
<1>4. f \in 0..IntWidth
  BY <1>1, P2PAssumption
<1>5. AfterAttempt(c) = [c EXCEPT !.failures = f, !.wait = w]
  BY DEF AfterAttempt, w
<1> HIDE DEF f
<1>6. AfterAttempt(c) \in Connections /\ AfterAttempt(c).wait = w
      /\ AfterAttempt(c).established = c.established
  BY <1>3, <1>4, <1>5 DEF Connections
<1>. QED BY <1>3, <1>6 DEF cap

-----------------------------------------------------------------------------
(* The initial state. *)
LEMMA P2PInit == Init => P2PInv
<1> SUFFICES ASSUME Init PROVE P2PInv
  OBVIOUS
<1> USE P2PAssumption DEF Init
<1>1. ObjType
  BY FreshType DEF ObjType
<1>2. TableType /\ ConnType
  BY DEF TableType, ConnType
<1>3. NetType /\ TimeType
  <2>1. NetType BY DEF NetType
  <2>2. TimeType BY DEF TimeType
  <2>. QED BY <2>1, <2>2
<1>4. LockInv /\ TablesAgree /\ NothingSurvivesRemoval /\ BackoffCapped
  BY DEF LockInv, TablesAgree, NothingSurvivesRemoval, BackoffCapped
<1>. QED BY <1>1, <1>2, <1>3, <1>4 DEF P2PInv

(* The routing table's updates work on the entry that exists. *)
LEMMA RouteKeepsInv ==
  ASSUME P2PInv, RouteStep
  PROVE  P2PInv'
<1> USE DEF P2PInv
<1>1. NetType' /\ TimeType' /\ ConnType' /\ TableType' /\ ObjType'
  <2>1. CASE UpdateDecides
    BY <2>1 DEF UpdateDecides, NetType, TimeType, ConnType, TableType, ObjType, netVars, timeVars
  <2>2. CASE UpdateApplies
    <3>1. NetType' /\ TimeType' /\ ConnType' /\ TableType'
      BY <2>2 DEF UpdateApplies, NetType, TimeType, ConnType, TableType, netVars, timeVars
    <3>2. ObjType'
      BY <2>2, ZenonT(40) DEF UpdateApplies, ObjType, PeerInfos
    <3>. QED BY <3>1, <3>2
  <2>. QED BY <2>1, <2>2 DEF RouteStep
<1>2. LockInv' /\ TablesAgree' /\ NothingSurvivesRemoval' /\ BackoffCapped'
  BY DEF RouteStep, UpdateDecides, UpdateApplies, TableType, LockInv, TablesAgree,
         NothingSurvivesRemoval, BackoffCapped
<1>. QED BY <1>1, <1>2

(* netReader's handlers change one table after the other. *)
LEMMA ReaderKeepsInv ==
  ASSUME P2PInv, ReaderStep
  PROVE  P2PInv'
<1> USE DEF P2PInv
<1>1. ASSUME NEW info \in Infos, NEW o \in Objs, RouteAddPeer(info, o)
      PROVE  P2PInv'
  <2>1. [Fresh(info) EXCEPT !.throughServer = TRUE] \in PeerInfos
    <3>1. \A p \in PeerInfos : [p EXCEPT !.throughServer = TRUE] \in PeerInfos
      BY DEF PeerInfos
    <3>. QED BY <3>1, FreshType
  <2>2. ObjType'
    BY <1>1, <2>1 DEF RouteAddPeer, ObjType
  <2>3. NetType' /\ TimeType' /\ ConnType' /\ TableType'
    BY <1>1 DEF RouteAddPeer, NetType, TimeType, ConnType, TableType, netVars, timeVars
  <2>4. LockInv' /\ TablesAgree' /\ NothingSurvivesRemoval' /\ BackoffCapped'
    BY <1>1, P2PAssumption
    DEF RouteAddPeer, LockInv, TablesAgree, NothingSurvivesRemoval, BackoffCapped
  <2>. QED BY <2>2, <2>3, <2>4
<1>2. CASE ManagerAdd
  <2>1. PICK kind \in {"info", "punch"}, mine \in NATs, tie \in BOOLEAN :
               ManagerAddPeer(kind, mine, tie)
    BY <1>2 DEF ManagerAdd
  <2>2. ObjType'
    BY <2>1, HeldType DEF ManagerAddPeer, ObjType
  <2>3. NetType' /\ TimeType' /\ ConnType'
    BY <2>1 DEF ManagerAddPeer, NetType, TimeType, ConnType, netVars, timeVars
  <2>4. pending' \in 0..MaxPending
    <3>1. pending \in 0..MaxPending /\ pending < MaxPending
      BY <2>1 DEF ManagerAddPeer, LockInv, TableType
    <3>2. pending' \in {pending, pending + 1}
      BY <2>1 DEF ManagerAddPeer
    <3>. QED BY <3>1, <3>2, P2PAssumption
  <2>5. TableType'
    BY <2>1, <2>4 DEF ManagerAddPeer, TableType
  <2>6. LockInv' /\ TablesAgree' /\ NothingSurvivesRemoval' /\ BackoffCapped'
    BY <2>1 DEF ManagerAddPeer, LockInv, TablesAgree, NothingSurvivesRemoval, BackoffCapped
  <2>. QED BY <2>2, <2>3, <2>5, <2>6
<1>3. CASE RouteRemovePeer
  BY <1>3 DEF RouteRemovePeer, ObjType, NetType, TimeType, ConnType, TableType, netVars, timeVars,
              LockInv, TablesAgree, NothingSurvivesRemoval, BackoffCapped
<1>4. CASE ManagerRemovePeer
  <2>1. ObjType'
    BY <1>4, HeldType DEF ManagerRemovePeer, ObjType
  <2>2. NetType' /\ TimeType' /\ ConnType' /\ TableType'
    BY <1>4 DEF ManagerRemovePeer, NetType, TimeType, ConnType, TableType, netVars, timeVars
  <2>3. LockInv' /\ TablesAgree' /\ NothingSurvivesRemoval' /\ BackoffCapped'
    BY <1>4 DEF ManagerRemovePeer, LockInv, TablesAgree, NothingSurvivesRemoval, BackoffCapped
  <2>. QED BY <2>1, <2>2, <2>3
<1>. QED BY <1>1, <1>2, <1>3, <1>4 DEF ReaderStep

\* What a step may do to the wait of an entry that exists.
WaitKept ==
    \/ conn'.wait = 0
    \/ conn'.established = conn.established
       /\ (conn'.wait <= conn.wait \/ conn'.wait <= KeepalivePeriod * MaxMultiplier(conn))

LEMMA OldWaitKept ==
  ASSUME ConnType, conn # NoConn, conn' = conn
  PROVE  WaitKept
<1>1. conn \in Connections BY DEF ConnType
<1>2. conn.wait \in Nat BY <1>1, MaxWaitType DEF Connections
<1>. QED BY <1>2 DEF WaitKept

(* Then the wait stays within the cap. *)
LEMMA CappedStep ==
  ASSUME BackoffCapped, ConnType,
         \/ conn' = conn
         \/ conn' \in Connections /\ conn'.wait = 0
         \/ conn # NoConn /\ conn' \in Connections /\ WaitKept
  PROVE  BackoffCapped'
<1> SUFFICES ASSUME conn' # NoConn, conn' # conn, conn' \in Connections
             PROVE  conn'.wait <= KeepalivePeriod * MaxMultiplier(conn)'
  BY DEF BackoffCapped
<1> DEFINE cap == KeepalivePeriod * MaxMultiplier(conn)
<1>1. KeepalivePeriod * MaxMultiplier(conn') \in Nat
  BY CapBound, MaxWaitType
<1>2. CASE conn'.wait = 0 BY <1>1, <1>2
<1>3. CASE conn'.wait # 0
  <2>1. conn \in Connections /\ conn'.established = conn.established
    BY <1>3 DEF ConnType, WaitKept
  <2>2. conn.wait <= cap BY <1>3 DEF BackoffCapped
  <2>3. cap \in Nat /\ conn.wait \in Nat /\ conn'.wait \in Nat
    BY <2>1, CapBound, MaxWaitType DEF Connections
  <2>4. MaxMultiplier(conn') = MaxMultiplier(conn) BY <2>1 DEF MaxMultiplier
  <2>5. conn'.wait <= conn.wait \/ conn'.wait <= cap BY <1>3 DEF WaitKept
  <2> HIDE DEF cap
  <2>6. conn'.wait <= cap BY <2>2, <2>3, <2>5
  <2>. QED BY <2>4, <2>6 DEF cap
<1>. QED BY <1>2, <1>3

(* ConnectToPeer makes a connection only for a peer that is known. *)
LEMMA ConnectKeepsInv ==
  ASSUME P2PInv, NEW mine \in NATs, ConnectToPeer(mine)
  PROVE  P2PInv'
<1> USE DEF P2PInv
<1>0. pending \in 0..MaxPending /\ pending' = pending - 1 /\ pending > 0
  BY DEF ConnectToPeer, TableType
<1>1. NetType' /\ TimeType' /\ ObjType' /\ TableType'
  <2>1. NetType' /\ TimeType' /\ ObjType'
    BY DEF ConnectToPeer, NetType, TimeType, ObjType, netVars, timeVars
  <2>2. pending' \in 0..MaxPending
    BY <1>0, P2PAssumption
  <2>3. TableType'
    BY <2>2 DEF ConnectToPeer, TableType, tableVars
  <2>. QED BY <2>1, <2>3
<1>2. mPeer # NoPeer => obj[mPeer].info \in Infos
  BY DEF TableType, ObjType, PeerInfos
<1>3. \/ conn' = conn
      \/ /\ mPeer # NoPeer
         /\ conn' \in Connections
         /\ conn'.wait = 0
  BY <1>2, NewForType DEF ConnectToPeer
<1>4. ConnType'
  BY <1>3 DEF ConnType
<1>5. LockInv' /\ TablesAgree'
  <2>1. pending' < MaxPending
    BY <1>0, P2PAssumption
  <2>. QED BY <2>1 DEF ConnectToPeer, tableVars, LockInv, TablesAgree
<1>6. NothingSurvivesRemoval'
  BY <1>3 DEF ConnectToPeer, tableVars, NothingSurvivesRemoval
<1>7. BackoffCapped'
  BY <1>3, CappedStep DEF ConnType
<1>. QED BY <1>1, <1>4, <1>5, <1>6, <1>7

(* Steps that leave the tables and netReader alone, and end no entry's wait
   beyond its cap, keep the relations between the parts. *)
LEMMA EntryStep ==
  ASSUME LockInv, TablesAgree, NothingSurvivesRemoval, BackoffCapped, ConnType,
         UNCHANGED <<tableVars, reader, pending>>,
         conn = NoConn => conn' = NoConn,
         conn # NoConn => conn' \in Connections /\ WaitKept
  PROVE  LockInv' /\ TablesAgree' /\ NothingSurvivesRemoval' /\ BackoffCapped'
<1>1. LockInv' /\ TablesAgree' /\ NothingSurvivesRemoval'
  BY DEF LockInv, TablesAgree, NothingSurvivesRemoval, tableVars
<1>2. BackoffCapped'
  BY CappedStep DEF BackoffCapped
<1>. QED BY <1>1, <1>2

(* The address that answers is one of the reachable ones, or the one before. *)
LEMMA AskType ==
  ASSUME NetType, NEW a, Ask(a)
  PROVE  answer' \in Addrs \cup {NoAddr} /\ (found => answer' = answer)
  BY P2PAssumption DEF NetType, Ask

(* The handshake goroutine leaves the keepalive loop's waits alone. *)
LEMMA HandshakeKeepsInv ==
  ASSUME P2PInv, HandshakeStep
  PROVE  P2PInv'
<1> USE DEF P2PInv
<1>1. UNCHANGED <<obj, tableVars, reader, pending, found, reach, timeVars>>
  BY DEF HandshakeStep, HandshakeSend, HandshakeSees, LocalTimeout, HandshakeEnds, netVars
<1>2. TimeType' /\ ObjType' /\ TableType'
  BY <1>1 DEF TimeType, ObjType, TableType, tableVars, timeVars
<1>3. NetType'
  <2>1. answer' \in Addrs \cup {NoAddr} /\ (found => answer' = answer)
    BY AskType DEF HandshakeStep, HandshakeSend, HandshakeSees, LocalTimeout, HandshakeEnds,
                   netVars, NetType
  <2>. QED BY <1>1, <2>1 DEF NetType
<1>4. conn \in Connections /\ conn # NoConn
  BY DEF HandshakeStep, HandshakeSend, HandshakeSees, LocalTimeout, HandshakeEnds, ConnType
<1>5. /\ conn' \in Connections
      /\ conn'.wait = conn.wait /\ conn'.established = conn.established
      /\ conn.wait \in Nat
  <2>1. conn.wait \in Nat BY <1>4, MaxWaitType DEF Connections
  <2>2. CASE HandshakeSend BY <1>4, <2>1, <2>2 DEF HandshakeSend
  <2>3. CASE HandshakeSees \/ HandshakeEnds
    BY <1>4, <2>1, <2>3 DEF HandshakeSees, HandshakeEnds, Connections
  <2>4. CASE LocalTimeout BY <1>4, <2>1, <2>4 DEF LocalTimeout, Connections
  <2>. QED BY <2>2, <2>3, <2>4 DEF HandshakeStep
<1>6. LockInv' /\ TablesAgree' /\ NothingSurvivesRemoval' /\ BackoffCapped'
  BY <1>1, <1>4, <1>5, EntryStep DEF WaitKept
<1>. QED BY <1>2, <1>3, <1>5, <1>6 DEF ConnType
(* A handshake looked up before a removal finds no peer and no connection. *)
LEMMA ReceiveKeepsInv ==
  ASSUME P2PInv, ReceiveStep
  PROVE  P2PInv'
<1> USE DEF P2PInv
<1>1. UNCHANGED <<tableVars, reader, pending, reach, timeVars>>
  BY DEF ReceiveStep, ReceiveHandshake, HandleHandshake
<1>2. TimeType' /\ TableType'
  BY <1>1 DEF TimeType, TableType, tableVars, timeVars
<1>3. NetType'
  <2>1. answer' \in Addrs \cup {NoAddr}
    BY DEF ReceiveStep, ReceiveHandshake, HandleHandshake, NetType
  <2>2. found' \in BOOLEAN /\ (found' => answer' # NoAddr)
    BY DEF ReceiveStep, ReceiveHandshake, HandleHandshake, FindPeer, NetType
  <2>. QED BY <1>1, <2>1, <2>2 DEF NetType
<1>4. ObjType'
  <2>1. CASE ReceiveHandshake
    BY <2>1 DEF ReceiveHandshake, ObjType
  <2>2. CASE HandleHandshake
    <3>1. \A p \in PeerInfos :
             [p EXCEPT !.connected = TRUE, !.throughServer = FALSE] \in PeerInfos
      BY DEF PeerInfos
    <3>. QED BY <2>2, <3>1 DEF HandleHandshake, ObjType
  <2>. QED BY <2>1, <2>2 DEF ReceiveStep
<1>5. /\ conn = NoConn => conn' = NoConn
      /\ conn # NoConn =>
            conn' \in Connections /\ WaitKept
  <2>1. CASE ReceiveHandshake
    BY <2>1, OldWaitKept DEF ReceiveHandshake, ConnType
  <2>2. CASE HandleHandshake /\ conn = NoConn
    BY <2>2 DEF HandleHandshake
  <2>3. CASE HandleHandshake /\ conn # NoConn
    <3>1. conn \in Connections
      BY <2>3 DEF ConnType
    <3> DEFINE est == conn.established \/ (mPeer # NoPeer /\ ~obj[mPeer].connected)
    <3>2. est \in BOOLEAN
      BY <3>1 DEF Connections
    <3>3. 0 \in 0..IntWidth /\ 0 \in 0..MaxWait
      BY P2PAssumption, MaxWaitType
    <3>4. conn' = [conn EXCEPT !.remote = answer, !.rtt = TRUE, !.failures = 0, !.wait = 0,
                               !.established = est]
      BY <2>3 DEF HandleHandshake
    <3>5. answer \in Addrs
      BY <2>3 DEF HandleHandshake, NetType
    <3> HIDE DEF est
    <3>. QED BY <3>1, <3>2, <3>3, <3>4, <3>5, <2>3 DEF Connections, WaitKept
  <2>. QED BY <2>1, <2>2, <2>3 DEF ReceiveStep
<1>6. LockInv' /\ TablesAgree' /\ NothingSurvivesRemoval' /\ BackoffCapped'
  BY <1>1, <1>5, EntryStep
<1>. QED BY <1>2, <1>3, <1>4, <1>5, <1>6 DEF ConnType

(* Time, and the packets that only refresh LastSeen. *)
LEMMA TimeKeepsInv ==
  ASSUME P2PInv, Tick
  PROVE  P2PInv'
<1> USE DEF P2PInv
<1>1. UNCHANGED <<tableVars, reader, pending, netVars>>
  BY DEF Tick
<1>2. NetType' /\ TableType'
  BY <1>1 DEF NetType, TableType, tableVars, netVars
<1>3. TimeType'
  BY P2PAssumption DEF Tick, TimeType
<1>4. ObjType'
  <2>1. \A p \in PeerInfos : p.age < MaxAge => [p EXCEPT !.age = @ + 1] \in PeerInfos
    BY MaxAgeType DEF PeerInfos
  <2>. QED BY <2>1 DEF Tick, ObjType
<1>5. /\ conn = NoConn => conn' = NoConn
      /\ conn # NoConn =>
            conn' \in Connections /\ WaitKept
  <2>1. \A c \in Connections : c.wait > 0 =>
           /\ [c EXCEPT !.wait = @ - 1] \in Connections
           /\ [c EXCEPT !.wait = @ - 1].wait <= c.wait
           /\ [c EXCEPT !.wait = @ - 1].established = c.established
    BY MaxWaitType DEF Connections
  <2>2. CASE conn' = conn BY <2>2, OldWaitKept DEF ConnType
  <2>3. CASE conn' # conn BY <2>1, <2>3 DEF Tick, ConnType, WaitKept
  <2>. QED BY <2>2, <2>3
<1>6. LockInv' /\ TablesAgree' /\ NothingSurvivesRemoval' /\ BackoffCapped'
  BY <1>1, <1>5, EntryStep
<1>. QED BY <1>2, <1>3, <1>4, <1>5, <1>6 DEF ConnType

(* The keepalive loop changes flags and counters of entries that exist. *)
LEMMA KeepaliveKeepsInv ==
  ASSUME P2PInv, KeepaliveStep
  PROVE  P2PInv'
<1> USE DEF P2PInv
<1>1. UNCHANGED <<tableVars, reader, pending, found, reach, qa>> /\ ka' = KeepalivePeriod
  BY DEF KeepaliveStep, KeepaliveNothing, ContinuousHandshake, StaleRefresh, KeepaliveSent,
         KeepaliveFails, KeepaliveDue
<1>2. TableType' /\ TimeType'
  BY <1>1, P2PAssumption DEF TableType, TimeType, tableVars
<1>3. NetType'
  <2>1. answer' \in Addrs \cup {NoAddr} /\ (found => answer' = answer)
    BY AskType DEF KeepaliveStep, KeepaliveNothing, ContinuousHandshake, StaleRefresh,
                   KeepaliveSent, KeepaliveFails, NetType
  <2>. QED BY <1>1, <2>1 DEF NetType
<1>4. ObjType'
  <2>1. \A p \in PeerInfos : [p EXCEPT !.age = 0] \in PeerInfos
    BY MaxAgeType DEF PeerInfos
  <2>2. \A p \in PeerInfos : [p EXCEPT !.connected = FALSE] \in PeerInfos
    BY DEF PeerInfos
  <2>3. \A o \in Objs, x \in PeerInfos : [obj EXCEPT ![o] = x] \in [Objs -> PeerInfos]
    BY DEF ObjType
  <2>4. \/ obj' = obj
        \/ /\ mPeer \in Objs
           /\ \/ obj' = [obj EXCEPT ![mPeer] = [obj[mPeer] EXCEPT !.age = 0]]
              \/ obj' = [obj EXCEPT ![mPeer] = [obj[mPeer] EXCEPT !.connected = FALSE]]
    BY DEF KeepaliveStep, KeepaliveNothing, ContinuousHandshake, StaleRefresh, KeepaliveSent,
           KeepaliveFails, HasEntry, TableType
  <2>5. mPeer \in Objs => obj[mPeer] \in PeerInfos
    BY DEF ObjType
  <2>. QED BY <2>1, <2>2, <2>3, <2>4, <2>5 DEF ObjType
<1>5. /\ conn = NoConn => conn' = NoConn
      /\ conn # NoConn =>
            conn' \in Connections /\ WaitKept
  <2>1. CASE KeepaliveNothing \/ StaleRefresh \/ KeepaliveSent
    BY <2>1, OldWaitKept DEF KeepaliveNothing, StaleRefresh, KeepaliveSent, ConnType
  <2>2. CASE \E sent \in BOOLEAN : ContinuousHandshake(sent)
    BY <2>2, AfterAttemptType DEF ContinuousHandshake, HasEntry, ConnType, WaitKept
  <2>3. CASE KeepaliveFails
    <3>1. conn \in Connections /\ conn # NoConn
      BY <2>3 DEF KeepaliveFails, HasEntry, ConnType
    <3> DEFINE f == IF conn.failures < IntWidth THEN conn.failures + 1 ELSE conn.failures
    <3>2. f \in 0..IntWidth
      BY <3>1, P2PAssumption DEF Connections
    <3>3. 0 \in 0..MaxWait
      BY P2PAssumption, MaxWaitType
    <3>4. conn' = [conn EXCEPT !.failures = f, !.wait = 0]
      BY <2>3 DEF KeepaliveFails
    <3> HIDE DEF f
    <3>. QED BY <3>1, <3>2, <3>3, <3>4 DEF Connections, WaitKept
  <2>. QED BY <2>1, <2>2, <2>3 DEF KeepaliveStep
<1>6. LockInv' /\ TablesAgree' /\ NothingSurvivesRemoval' /\ BackoffCapped'
  BY <1>1, <1>5, EntryStep
<1>. QED BY <1>2, <1>3, <1>4, <1>5, <1>6 DEF ConnType
(* So does the quality loop. *)
LEMMA QualityKeepsInv ==
  ASSUME P2PInv, NEW critical \in BOOLEAN, CheckQuality(critical)
  PROVE  P2PInv'
<1> USE DEF P2PInv
<1>1. UNCHANGED <<tableVars, conn, reader, pending, netVars, ka>> /\ qa' = QualityPeriod
  BY DEF CheckQuality
<1>2. TableType' /\ NetType' /\ ConnType'
  BY <1>1 DEF TableType, NetType, ConnType, tableVars, netVars
<1>3. TimeType'
  BY <1>1, P2PAssumption DEF TimeType
<1>4. ObjType'
  <2>1. ASSUME NEW o \in Objs
        PROVE  obj'[o] \in PeerInfos
    <3>1. obj[o] \in PeerInfos
      BY DEF ObjType
    <3> DEFINE relay == critical /\ 2 * obj[o].age > StaleTimeout
               age == IF conn.rtt THEN 0 ELSE obj[o].age
               through == obj[o].throughServer \/ relay
    <3>2. (~relay) \in BOOLEAN /\ through \in BOOLEAN
      OBVIOUS
    <3>3. age \in 0..MaxAge
      BY <3>1, MaxAgeType DEF PeerInfos
    <3>4. obj'[o] \in {obj[o], [obj[o] EXCEPT !.age = age, !.connected = ~relay,
                                             !.throughServer = through]}
      BY DEF CheckQuality
    <3> HIDE DEF relay, age, through
    <3>. QED BY <3>1, <3>2, <3>3, <3>4 DEF PeerInfos
  <2>2. obj' = [o \in Objs |-> obj'[o]]
    BY DEF CheckQuality
  <2>. QED BY <2>1, <2>2 DEF ObjType
<1>5. LockInv' /\ TablesAgree' /\ NothingSurvivesRemoval' /\ BackoffCapped'
  BY <1>1, OldWaitKept, EntryStep DEF ConnType
<1>. QED BY <1>2, <1>3, <1>4, <1>5

(* Packets that only refresh LastSeen, and the environment. *)
LEMMA OutsideKeepsInv ==
  ASSUME P2PInv,
         \/ \E a \in Addrs : ReceiveOther(a) \/ PeerSends(a)
         \/ \E S \in Paths : PathChange(S)
  PROVE  P2PInv'
<1> USE DEF P2PInv
<1>1. UNCHANGED <<tableVars, conn, reader, pending, found, timeVars>>
  BY DEF ReceiveOther, PeerSends, PathChange, netVars
<1>2. TableType' /\ TimeType' /\ ConnType'
  BY <1>1 DEF TableType, TimeType, ConnType, tableVars, timeVars
<1>3. NetType'
  BY <1>1, P2PAssumption DEF ReceiveOther, PeerSends, PathChange, NetType, netVars
<1>4. ObjType'
  <2>1. \A p \in PeerInfos : [p EXCEPT !.age = 0] \in PeerInfos
    BY MaxAgeType DEF PeerInfos
  <2>2. obj' = obj \/ (mPeer \in Objs /\ obj' = [obj EXCEPT ![mPeer] = [obj[mPeer] EXCEPT !.age = 0]])
    BY DEF ReceiveOther, PeerSends, PathChange, TableType
  <2>. QED BY <2>1, <2>2 DEF ObjType
<1>5. LockInv' /\ TablesAgree' /\ NothingSurvivesRemoval' /\ BackoffCapped'
  BY <1>1, OldWaitKept, EntryStep DEF ConnType
<1>. QED BY <1>2, <1>3, <1>4, <1>5

LEMMA StutterKeepsInv ==
  ASSUME P2PInv, UNCHANGED vars
  PROVE  P2PInv'
  BY DEF P2PInv, vars, TableType, NetType, TimeType, ObjType, ConnType, LockInv, TablesAgree,
         NothingSurvivesRemoval, BackoffCapped

(* P2PInv is an invariant. *)
THEOREM P2PInvariant == Spec => []P2PInv
<1>1. P2PInv /\ [Next]_vars => P2PInv'
  <2> SUFFICES ASSUME P2PInv, [Next]_vars PROVE P2PInv'
    OBVIOUS
  <2>1. CASE \E mine \in NATs : ConnectToPeer(mine)
    BY <2>1, ConnectKeepsInv
  <2>2. CASE QualityStep
    BY <2>2, QualityKeepsInv DEF QualityStep
  <2>. QED BY <2>1, <2>2, RouteKeepsInv, ReaderKeepsInv, HandshakeKeepsInv, ReceiveKeepsInv,
              KeepaliveKeepsInv, TimeKeepsInv, OutsideKeepsInv, StutterKeepsInv DEF Next
<1>. QED BY P2PInit, <1>1, PTL DEF Spec

(* Every reachable state of the P2P manager and the routing table is well
   typed, and no more goroutines wait than were started. *)
THEOREM P2PTypes == Spec => []TypeOK
<1>1. P2PInv => TypeOK
  BY DEF P2PInv, TypeOK, TableType, NetType, TimeType, ObjType, ConnType
<1>. QED BY P2PInvariant, <1>1, PTL

(* The manager (AddPeer, RemovePeer) and the routing table hold the same
   PeerInfo object whenever netReader is not inside a handler. *)
THEOREM TablesHoldSamePeer == Spec => []TablesAgree
<1>1. P2PInv => TablesAgree
  BY DEF P2PInv
<1>. QED BY P2PInvariant, <1>1, PTL

(* After handlePeerDisconnect neither a delayed ConnectToPeer nor a handshake
   or route update under way brings the peer's connection or route back. *)
THEOREM RemovedStaysRemoved == Spec => []NothingSurvivesRemoval
<1>1. P2PInv => NothingSurvivesRemoval
  BY DEF P2PInv
<1>. QED BY P2PInvariant, <1>1, PTL

(* The delay before the next handshake never exceeds the cap of the phase the
   connection is in, through the overflow of 1 << failures and through the
   change of phase, which resets the delay. *)
THEOREM BackoffKeepsCap == Spec => []BackoffCapped
<1>1. P2PInv => BackoffCapped
  BY DEF P2PInv
<1>. QED BY P2PInvariant, <1>1, PTL
=============================================================================
