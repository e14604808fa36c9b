----------------------- MODULE PeerIntroductionProofs -----------------------
(***************************************************************************)
(* For any clients, connections, retries and requests: the types of the    *)
(* introduction, that the server's table of clients agrees with its open   *)
(* connections, and that what clients are told of each other is genuine.   *)
(* PeerInv adds what makes these inductive: addresses and registrations    *)
(* belong to connections there have been (Past), the announcements that    *)
(* are built or under way name their client (GenuineAnnouncements), and a  *)
(* goroutine that waits holds connections of two clients (TwoClients).     *)
(* With it the server's table is that of ClientTable, as it is in          *)
(* ServerRegistry.                                                         *)
(*                                                                         *)
(* Then the NAT types that are announced: for any number of STUN servers   *)
(* and any IPv4 addresses, ports and octets, that a detection is not too   *)
(* good but for three causes, that private addresses are recognised, and   *)
(* that one of two peers connects.                                         *)
(***************************************************************************)
EXTENDS PeerIntroduction, NatDetection, TLAPS

(* A client's connections are numbered from 1. *)
LEMMA NumbersAre ==
  /\ Numbers \subseteq Nat \ {0}
  /\ \A c \in Clients : Conns[c] \in Nat \ {0}
  /\ \A c \in Clients : \A g \in Nat \ {0} : g <= Conns[c] => g \in Numbers
<1>1. \A c \in Clients : Conns[c] \in Nat \ {0} BY IntroductionAssumption
<1>2. ASSUME NEW c \in Clients, NEW g \in Nat \ {0}, g <= Conns[c] PROVE g \in Numbers
  <2>1. g \in 1..Conns[c] BY <1>1, <1>2
  <2>. QED BY <2>1 DEF Numbers
<1>3. ASSUME NEW g \in Numbers PROVE g \in Nat \ {0}
  <2>1. PICK c \in Clients : g \in 1..Conns[c] BY <1>3 DEF Numbers
  <2>. QED BY <1>1, <2>1
<1>. QED BY <1>1, <1>2, <1>3

(* A connection is a client and a number within that client's. *)
LEMMA LinksAre ==
  /\ \A l \in Links : /\ l[1] \in Clients /\ l[2] \in Numbers /\ l[2] \in Nat \ {0}
                      /\ l[2] <= Conns[l[1]] /\ l = <<l[1], l[2]>>
  /\ \A c \in Clients : \A g \in Nat \ {0} : g <= Conns[c] => <<c, g>> \in Links
<1>1. ASSUME NEW l \in Links
      PROVE  /\ l[1] \in Clients /\ l[2] \in Numbers /\ l[2] \in Nat \ {0}
             /\ l[2] <= Conns[l[1]] /\ l = <<l[1], l[2]>>
  <2>1. l \in Clients \X Numbers /\ l[2] <= Conns[l[1]] BY DEF Links
  <2>2. l[1] \in Clients /\ l[2] \in Numbers /\ l = <<l[1], l[2]>> BY <2>1
  <2>. QED BY <2>1, <2>2, NumbersAre
<1>2. ASSUME NEW c \in Clients, NEW g \in Nat \ {0}, g <= Conns[c] PROVE <<c, g>> \in Links
  <2>1. g \in Numbers BY <1>2, NumbersAre
  <2>. QED BY <1>2, <2>1 DEF Links
<1>. QED BY <1>1, <1>2

(* What the parts of a packet are. *)
LEMMA PacketsAre ==
  ASSUME NEW p \in Packets
  PROVE  /\ p.link \in Links
         /\ p.kind \in {"info", "peer"} => p.info \in Infos
         /\ p.kind = "disconnect" => p.ip \in Clients
  BY DEF Packets

LEMMA InfosAre ==
  ASSUME NEW info \in Infos PROVE info.ip \in Clients /\ info.public \in Nat \ {0}
  BY NumbersAre DEF Infos

-----------------------------------------------------------------------------

(* Connections come one after another: an address is one of a connection there *)
(* has been, and only such connections have registered.                        *)
Past ==
  /\ \A c \in Clients : conn[c] <= Conns[c] /\ publicAddr[c] <= conn[c]
  /\ \A c \in Clients : owner[c] <= conn[c]
  /\ \A l \in hasIP : l[2] <= conn[l[1]]

(* A goroutine that has built its packet, and a packet on its way, say of their *)
(* client what it was when the packet was built or sent.                        *)
GenuineAnnouncements ==
  /\ \A a \in Links \X Kinds : announcer[a].pc = "built" =>
        announcer[a].info \in Infos /\ Genuine(announcer[a].info, a[1][1], conn[a[1][1]])
  /\ \A p \in toServer : /\ p.kind = "info" /\ p.link[2] <= conn[p.link[1]]
                         /\ Genuine(p.info, p.link[1], p.link[2])

(* A goroutine of handleP2PRequest waits for two different clients. *)
TwoClients == \A w \in waiting : w.from[1] # w.to[1]

PeerInv ==
  /\ TypeOK /\ Past /\ GenuineAnnouncements /\ TwoClients
  /\ OneRegistered /\ GenuineIntroductions

(* The connections a client has still to make are untouched: what the server *)
(* has told to stop, or has removed, is never opened again.                  *)
Untouched == \A l \in Links : l[2] > conn[l[1]] => phase[l] = "new"

(* Start: the early clients have announced themselves on their first connection. *)
LEMMA PeerInit == Init => PeerInv
<1> SUFFICES ASSUME Init PROVE PeerInv
  OBVIOUS
<1> DEFINE first == {<<c, 1>> : c \in Early}
<1>1. \A c \in Clients : 1 \in Numbers /\ <<c, 1>> \in Links /\ 1 <= Conns[c]
  BY NumbersAre, LinksAre
<1>2. first \subseteq Links /\ \A l \in first : l[1] \in Early /\ l[2] = 1
  BY <1>1, IntroductionAssumption
<1>3. \A l \in Links : l[1] \in Early /\ l[2] = 1 => l \in first
  BY LinksAre
<1>4. \A l \in Links : l[1] \in Clients /\ l[2] \in Nat \ {0} /\ 1 <= l[2] BY LinksAre
<1>5. /\ conn = [c \in Clients |-> 1] /\ up = [c \in Clients |-> TRUE]
      /\ publicAddr = [c \in Clients |-> IF c \in Early THEN 1 ELSE 0]
      /\ announcer = [a \in Links \X Kinds |-> Idle]
      /\ known = [c \in Clients |-> [d \in Clients |-> NoInfo]]
      /\ phase = [l \in Links |-> IF l[2] = 1 THEN "open" ELSE "new"]
      /\ hasIP = first
      /\ owner = [c \in Clients |-> IF c \in Early THEN 1 ELSE 0]
      /\ lastPeerInfo = [l \in Links |-> IF l \in first THEN [ip |-> l[1], public |-> 1]
                                         ELSE NoInfo]
      /\ waiting = {}
      /\ toServer = {}
      /\ toClient = {sendPublicAddrToClient(<<c, 1>>) : c \in Clients \ Early}
      /\ spoiled = [c \in Clients |-> FALSE]
  BY Zenon DEF Init
<1> HIDE DEF first
<1>6. TypeOK
  <2>1. publicAddr \in [Clients -> Numbers \cup {0}] /\ owner \in [Clients -> Numbers \cup {0}]
    BY <1>1, <1>5
  <2>2. conn \in [Clients -> Numbers] BY <1>1, <1>5
  <2>3. announcer \in [Links \X Kinds ->
                        [pc : {"idle", "ready", "built"},
                         tries : 0..MaxRetries, info : Infos \cup {NoInfo}]]
    <3>1. 0 \in 0..MaxRetries BY IntroductionAssumption
    <3>2. Idle \in [pc : {"idle", "ready", "built"},
                     tries : 0..MaxRetries, info : Infos \cup {NoInfo}]
      BY <3>1 DEF Idle
    <3>. QED BY <3>2, <1>5
  <2>4. lastPeerInfo \in [Links -> Infos \cup {NoInfo}]
    <3>1. ASSUME NEW l \in Links PROVE [ip |-> l[1], public |-> 1] \in Infos
      BY <1>1, <1>4 DEF Infos
    <3>. QED BY <1>5, <3>1
  <2>5. toClient \subseteq Packets
    <3>1. ASSUME NEW c \in Clients PROVE sendPublicAddrToClient(<<c, 1>>) \in Packets
      BY <1>1 DEF sendPublicAddrToClient, Packets
    <3>. QED BY <1>5, <3>1
  <2>6. up \in [Clients -> BOOLEAN] /\ spoiled \in [Clients -> BOOLEAN] BY <1>5, Zenon
  <2>7. known \in [Clients -> [Clients -> Infos \cup {NoInfo}]] BY <1>5
  <2>8. phase \in [Links -> {"new", "open", "closing", "gone"}] /\ hasIP \subseteq Links
    BY <1>2, <1>5
  <2>9. waiting \subseteq [from : Links, to : Links, left : 1..WaitAttempts]
        /\ toServer \subseteq Packets
    BY <1>5
  <2>. QED BY <1>5, <2>1, <2>2, <2>3, <2>4, <2>5, <2>6, <2>7, <2>8, <2>9 DEF TypeOK
<1>7. Past BY <1>1, <1>2, <1>5, IntroductionAssumption DEF Past
<1>8. GenuineAnnouncements
  <2>1. \A a \in Links \X Kinds : announcer[a].pc # "built" BY <1>5 DEF Idle
  <2>. QED BY <1>5, <2>1 DEF GenuineAnnouncements
<1>9. TwoClients BY <1>5 DEF TwoClients
<1>10. OneRegistered BY <1>2, <1>3, <1>4, <1>5 DEF OneRegistered
<1>11. GenuineIntroductions
  <2>1. ASSUME NEW l \in Links, lastPeerInfo[l] # NoInfo
        PROVE  l \in hasIP /\ Genuine(lastPeerInfo[l], l[1], l[2])
    <3>1. l \in first /\ lastPeerInfo[l] = [ip |-> l[1], public |-> 1] BY <1>5, <2>1
    <3>. QED BY <1>4, <1>5, <3>1 DEF Genuine
  <2>2. \A p \in toClient : p.kind # "peer" BY <1>5 DEF sendPublicAddrToClient
  <2>3. \A c, d \in Clients : known[c][d] = NoInfo BY <1>5
  <2>. QED BY <2>1, <2>2, <2>3 DEF GenuineIntroductions
<1>. QED BY <1>6, <1>7, <1>8, <1>9, <1>10, <1>11 DEF PeerInv

-----------------------------------------------------------------------------
(* What the helpers of the actions do. *)

(* The connection a client has or had last is one of its own. *)
LEMMA PresentLink ==
  ASSUME TypeOK, Past, NEW c \in Clients
  PROVE  /\ Link(c) \in Links /\ Link(c)[1] = c /\ Link(c)[2] = conn[c]
         /\ conn[c] \in Nat \ {0} /\ conn[c] \in Numbers
<1>1. conn[c] \in Numbers /\ conn[c] \in Nat \ {0} BY NumbersAre DEF TypeOK
<1>2. conn[c] <= Conns[c] BY DEF Past
<1>. QED BY <1>1, <1>2, LinksAre DEF Link

(* So is the connection the table has for a client. *)
LEMMA OwnerLink ==
  ASSUME TypeOK, Past, NEW c \in Clients, owner[c] # 0
  PROVE  <<c, owner[c]>> \in Links /\ owner[c] \in Nat \ {0}
<1>1. owner[c] \in Nat \ {0} BY NumbersAre DEF TypeOK
<1>2. conn[c] \in Nat /\ Conns[c] \in Nat BY NumbersAre DEF TypeOK
<1>3. owner[c] <= conn[c] /\ conn[c] <= Conns[c] BY DEF Past
<1>. QED BY <1>1, <1>2, <1>3, LinksAre

(* Starting a goroutine that announces. *)
LEMMA AnnouncerType ==
  ASSUME TypeOK, NEW a
  PROVE  [announcer EXCEPT ![a].pc = "ready"] \in
           [Links \X Kinds -> [pc : {"idle", "ready", "built"},
                               tries : 0..MaxRetries, info : Infos \cup {NoInfo}]]
<1> DEFINE T == [pc : {"idle", "ready", "built"},
                 tries : 0..MaxRetries, info : Infos \cup {NoInfo}]
<1>1. announcer \in [Links \X Kinds -> T] BY DEF TypeOK
<1>2. \A r \in T : [r EXCEPT !.pc = "ready"] \in T OBVIOUS
<1> HIDE DEF T
<1>3. [announcer EXCEPT ![a].pc = "ready"] \in [Links \X Kinds -> T] BY <1>1, <1>2
<1>. QED BY <1>3 DEF T

(* addClient, on an open connection: the table gets it, and the connection that *)
(* was there before is closed.                                                  *)
LEMMA AddClientInv ==
  ASSUME TypeOK, Past, OneRegistered, NEW l \in Links, phase[l] = "open",
         l[2] <= conn[l[1]], AddClient(l)
  PROVE  /\ phase' \in [Links -> {"new", "open", "closing", "gone"}]
         /\ hasIP' \subseteq Links /\ l \in hasIP' /\ hasIP \subseteq hasIP'
         /\ owner' \in [Clients -> Numbers \cup {0}]
         /\ \A c \in Clients : owner'[c] <= conn[c]
         /\ \A m \in hasIP' : m[2] <= conn[m[1]]
         /\ OneRegistered'
<1>1. /\ l[1] \in Clients /\ l[2] \in Numbers /\ l[2] \in Nat \ {0}
      /\ l = <<l[1], l[2]>>
  BY LinksAre
<1>2. CASE l \in hasIP
  BY <1>2 DEF AddClient, TypeOK, Past, OneRegistered
<1>3. CASE l \notin hasIP
  <2> DEFINE old == <<l[1], owner[l[1]]>>
  <2>1. /\ owner' = [owner EXCEPT ![l[1]] = l[2]]
        /\ hasIP' = hasIP \cup {l}
        /\ phase' = IF owner[l[1]] # 0 THEN [phase EXCEPT ![old] = "closing"] ELSE phase
    BY <1>3, Zenon DEF AddClient
  <2>2. owner[l[1]] # l[2] BY <1>3 DEF OneRegistered
  <2>3. old # l BY <1>1, <2>2
  <2>4. phase' \in [Links -> {"new", "open", "closing", "gone"}] /\ phase'[l] = "open"
    BY <2>1, <2>3 DEF TypeOK
  <2>5. owner' \in [Clients -> Numbers \cup {0}] BY <1>1, <2>1 DEF TypeOK
  <2>6. \A c \in Clients : owner'[c] <= conn[c] BY <1>1, <2>1 DEF TypeOK, Past
  <2>7. \A m \in hasIP' : m[2] <= conn[m[1]] BY <2>1 DEF Past
  <2>8. ASSUME NEW m \in Links PROVE owner'[m[1]] = m[2] <=> m \in hasIP' /\ phase'[m] = "open"
    <3>1. /\ m[1] \in Clients /\ m[2] \in Nat \ {0} /\ m = <<m[1], m[2]>> BY LinksAre
    <3>2. owner[m[1]] = m[2] <=> m \in hasIP /\ phase[m] = "open" BY DEF OneRegistered
    <3>3. CASE m = l BY <1>1, <2>1, <2>4, <3>3 DEF TypeOK
    <3>4. CASE m # l /\ m[1] = l[1]
      <4>1. owner'[m[1]] # m[2] BY <1>1, <2>1, <3>1, <3>4 DEF TypeOK
      <4>2. ASSUME m \in hasIP', phase'[m] = "open" PROVE FALSE
        <5>1. m \in hasIP BY <2>1, <3>4, <4>2
        <5>2. phase[m] = "open" BY <2>1, <4>2 DEF TypeOK
        <5>3. m = old /\ owner[l[1]] # 0 BY <3>1, <3>2, <3>4, <5>1, <5>2
        <5>. QED BY <2>1, <4>2, <5>3 DEF TypeOK
      <4>. QED BY <4>1, <4>2
    <3>5. CASE m[1] # l[1]
      <4>1. owner'[m[1]] = owner[m[1]] BY <1>1, <2>1, <3>1, <3>5 DEF TypeOK
      <4>2. m # old /\ m # l BY <3>1, <3>5
      <4>3. phase'[m] = phase[m] BY <2>1, <4>2 DEF TypeOK
      <4>. QED BY <2>1, <3>2, <4>1, <4>2, <4>3
    <3>. QED BY <3>3, <3>4, <3>5
  <2>9. OneRegistered' BY <2>8 DEF OneRegistered
  <2>. QED BY <2>1, <2>4, <2>5, <2>6, <2>7, <2>9 DEF TypeOK
<1>. QED BY <1>2, <1>3

(* The announcement on file for a connection, if there is one. *)
LEMMA FiledInfo ==
  ASSUME TypeOK, Past, GenuineIntroductions, NEW l \in Links, lastPeerInfo[l] # NoInfo
  PROVE  /\ lastPeerInfo[l] \in Infos
         /\ lastPeerInfo[l].ip = l[1] /\ lastPeerInfo[l].public <= conn[l[1]]
<1>1. lastPeerInfo[l] \in Infos BY DEF TypeOK
<1>2. lastPeerInfo[l].public \in Nat BY <1>1, InfosAre
<1>3. l \in hasIP /\ lastPeerInfo[l].ip = l[1] /\ lastPeerInfo[l].public <= l[2]
  BY DEF GenuineIntroductions, Genuine
<1>4. l[2] \in Nat /\ l[1] \in Clients BY LinksAre
<1>5. conn[l[1]] \in Nat BY <1>4, NumbersAre DEF TypeOK
<1>6. l[2] <= conn[l[1]] BY <1>3 DEF Past
<1>. QED BY <1>1, <1>2, <1>3, <1>4, <1>5, <1>6

(* processP2PConnection for two clients that have announced themselves. *)
LEMMA IntroductionInv ==
  ASSUME TypeOK, Past, GenuineIntroductions, NEW l \in Links, NEW m \in Links,
         l[1] # m[1], lastPeerInfo[l] # NoInfo, lastPeerInfo[m] # NoInfo,
         NEW p \in Introduction(l, m, lastPeerInfo[l], lastPeerInfo[m])
  PROVE  p \in Packets /\ p.info.ip # p.link[1] /\ p.info.public <= conn[p.info.ip]
<1>1. CASE p = [kind |-> "peer", link |-> l, info |-> lastPeerInfo[m]]
  BY <1>1, FiledInfo DEF Packets
<1>2. CASE p = [kind |-> "peer", link |-> m, info |-> lastPeerInfo[l]]
  BY <1>2, FiledInfo DEF Packets
<1>. QED BY <1>1, <1>2 DEF Introduction, Written

-----------------------------------------------------------------------------
(* The steps, one by one. *)

(* A packet is lost, or the connection it was to come in on: what is left of   *)
(* the packets to the clients is genuine.                                      *)
LEMMA LossInv ==
  ASSUME PeerInv, toClient' \subseteq toClient, up' \in [Clients -> BOOLEAN],
         UNCHANGED <<conn, publicAddr, announcer, known, serverVars,
                     toServer, spoiled>>
  PROVE  PeerInv'
<1> USE DEF serverVars
<1>1. TypeOK' BY DEF PeerInv, TypeOK
<1>2. Past' /\ TwoClients' /\ OneRegistered' BY DEF PeerInv, Past, TwoClients, OneRegistered
<1>3. GenuineAnnouncements' BY DEF PeerInv, GenuineAnnouncements
<1>4. GenuineIntroductions' BY DEF PeerInv, GenuineIntroductions
<1>. QED BY <1>1, <1>2, <1>3, <1>4 DEF PeerInv

LEMMA DropInv == ASSUME PeerInv, NEW c \in Clients, Drop(c) PROVE PeerInv'
<1>1. up' = [up EXCEPT ![c] = FALSE] /\ toClient' \subseteq toClient BY DEF Drop
<1>2. up' \in [Clients -> BOOLEAN] BY <1>1 DEF PeerInv, TypeOK
<1>. QED BY <1>1, <1>2, LossInv DEF Drop

LEMMA LosesInv == ASSUME PeerInv, NEW p, Loses(p) PROVE PeerInv'
<1>1. toClient' \subseteq toClient /\ up' = up BY DEF Loses, clientVars
<1>2. up' \in [Clients -> BOOLEAN] BY <1>1 DEF PeerInv, TypeOK
<1>. QED BY <1>1, <1>2, LossInv DEF Loses, clientVars

(* A new connection has not registered, since all that have are older. *)
LEMMA ReconnectInv == ASSUME PeerInv, NEW c \in Clients, Reconnect(c) PROVE PeerInv'
<1> DEFINE link == <<c, conn[c] + 1>>
<1> USE DEF PeerInv
<1>1. conn[c] \in Nat \ {0} /\ conn[c] + 1 \in Nat \ {0} BY PresentLink
<1>2. link \in Links /\ conn[c] + 1 <= Conns[c] /\ conn[c] + 1 \in Numbers
  <2>1. link \in Links BY Zenon DEF Reconnect
  <2>. QED BY <2>1, LinksAre
<1>3. /\ conn' = [conn EXCEPT ![c] = @ + 1] /\ up' = [up EXCEPT ![c] = TRUE]
      /\ announcer' \in {announcer, [announcer EXCEPT ![<<link, "reannounce">>].pc = "ready"]}
      /\ phase' = [phase EXCEPT ![link] = "open"]
      /\ toClient' = toClient \cup {sendPublicAddrToClient(link)}
      /\ spoiled' = [spoiled EXCEPT ![c] = FALSE]
      /\ UNCHANGED <<publicAddr, known, hasIP, owner,
                     lastPeerInfo, waiting, toServer>>
  BY Zenon DEF Reconnect, reannounceP2PInfoAfterReconnect
<1>4. \A d \in Clients : conn[d] \in Nat /\ conn'[d] \in Nat /\ conn[d] <= conn'[d]
  <2>1. \A d \in Clients : conn[d] \in Nat BY NumbersAre DEF TypeOK
  <2>. QED BY <1>1, <1>3, <2>1 DEF TypeOK
<1> HIDE DEF link
<1>5. TypeOK'
  <2>1. conn' \in [Clients -> Numbers] BY <1>2, <1>3 DEF TypeOK
  <2>2. up' \in [Clients -> BOOLEAN] /\ spoiled' \in [Clients -> BOOLEAN] BY <1>3 DEF TypeOK
  <2>3. announcer' \in [Links \X Kinds ->
                        [pc : {"idle", "ready", "built"},
                         tries : 0..MaxRetries, info : Infos \cup {NoInfo}]]
    <3>1. CASE announcer' = announcer BY <3>1 DEF TypeOK
    <3>2. CASE announcer' = [announcer EXCEPT ![<<link, "reannounce">>].pc = "ready"]
      BY <3>2, AnnouncerType
    <3>. QED BY <1>3, <3>1, <3>2
  <2>4. phase' \in [Links -> {"new", "open", "closing", "gone"}] BY <1>3 DEF TypeOK
  <2>5. sendPublicAddrToClient(link) \in Packets BY <1>2 DEF sendPublicAddrToClient, Packets
  <2>6. toClient' \subseteq Packets BY <1>3, <2>5 DEF TypeOK
  <2>. QED BY <1>3, <2>1, <2>2, <2>3, <2>4, <2>6 DEF TypeOK
<1>6. Past'
  <2>1. \A d \in Clients : publicAddr[d] \in Nat /\ owner[d] \in Nat
    <3>1. Numbers \cup {0} \subseteq Nat BY NumbersAre
    <3>. QED BY <3>1 DEF TypeOK
  <2>2. \A d \in Clients : conn'[d] <= Conns[d] BY <1>2, <1>3 DEF TypeOK, Past
  <2>3. \A d \in Clients : publicAddr'[d] <= conn'[d] /\ owner'[d] <= conn'[d]
    BY <1>3, <1>4, <2>1 DEF Past
  <2>4. ASSUME NEW l \in hasIP' PROVE l[2] <= conn'[l[1]]
    <3>1. l \in Links BY <1>3, <2>4 DEF TypeOK
    <3>2. l[1] \in Clients /\ l[2] \in Nat BY <3>1, LinksAre
    <3>3. l[2] <= conn[l[1]] BY <1>3, <2>4 DEF Past
    <3>. QED BY <1>4, <3>2, <3>3
  <2>. QED BY <2>2, <2>3, <2>4 DEF Past
<1>7. GenuineAnnouncements'
  <2>1. ASSUME NEW a \in Links \X Kinds, announcer'[a].pc = "built"
        PROVE  announcer'[a].info \in Infos
               /\ Genuine(announcer'[a].info, a[1][1], conn'[a[1][1]])
    <3>1. announcer'[a] = announcer[a]
      <4>1. CASE announcer' = announcer BY <4>1
      <4>2. CASE announcer' = [announcer EXCEPT ![<<link, "reannounce">>].pc = "ready"]
        <5>1. a # <<link, "reannounce">> BY <2>1, <4>2 DEF TypeOK
        <5>. QED BY <4>2, <5>1 DEF TypeOK
      <4>. QED BY <1>3, <4>1, <4>2
    <3>2. announcer[a].info \in Infos /\ Genuine(announcer[a].info, a[1][1], conn[a[1][1]])
      BY <2>1, <3>1 DEF GenuineAnnouncements
    <3>3. a[1][1] \in Clients BY LinksAre
    <3>. QED BY <1>4, <3>1, <3>2, <3>3, InfosAre DEF Genuine
  <2>2. ASSUME NEW p \in toServer'
        PROVE  /\ p.kind = "info" /\ p.link[2] <= conn'[p.link[1]]
               /\ Genuine(p.info, p.link[1], p.link[2])
    <3>1. p \in toServer /\ p \in Packets BY <1>3, <2>2 DEF TypeOK
    <3>2. p.link[1] \in Clients /\ p.link[2] \in Nat BY <3>1, PacketsAre, LinksAre
    <3>. QED BY <1>4, <3>1, <3>2 DEF GenuineAnnouncements
  <2>. QED BY <2>1, <2>2 DEF GenuineAnnouncements
<1>8. TwoClients' BY <1>3 DEF TwoClients
<1>9. OneRegistered'
  <2>1. link[1] = c /\ link[2] = conn[c] + 1 BY DEF link
  <2>2. link \notin hasIP BY <1>1, <2>1 DEF Past
  <2>3. owner[c] # conn[c] + 1 BY <1>2, <2>1, <2>2 DEF OneRegistered
  <2>4. ASSUME NEW l \in Links PROVE owner'[l[1]] = l[2] <=> l \in hasIP' /\ phase'[l] = "open"
    <3>1. CASE l = link BY <1>3, <2>1, <2>2, <2>3, <3>1
    <3>2. CASE l # link
      <4>1. phase'[l] = phase[l] BY <1>3, <3>2 DEF TypeOK
      <4>. QED BY <1>3, <4>1 DEF OneRegistered
    <3>. QED BY <3>1, <3>2
  <2>. QED BY <2>4 DEF OneRegistered
<1>10. GenuineIntroductions'
  <2>1. ASSUME NEW p \in toClient', p.kind = "peer"
        PROVE  p.info.ip # p.link[1] /\ p.info.public <= conn'[p.info.ip]
    <3>1. p \in toClient BY <1>3, <2>1 DEF sendPublicAddrToClient
    <3>2. p \in Packets BY <3>1 DEF TypeOK
    <3>3. p.info.ip \in Clients /\ p.info.public \in Nat BY <2>1, <3>2, PacketsAre, InfosAre
    <3>4. p.info.ip # p.link[1] /\ p.info.public <= conn[p.info.ip]
      BY <2>1, <3>1 DEF GenuineIntroductions
    <3>. QED BY <1>4, <3>3, <3>4
  <2>2. ASSUME NEW d \in Clients, NEW e \in Clients, known'[d][e] # NoInfo
        PROVE  d # e /\ Genuine(known'[d][e], e, conn'[e])
    <3>1. known[d][e] \in Infos BY <1>3, <2>2 DEF TypeOK
    <3>2. known[d][e].public \in Nat BY <3>1, InfosAre
    <3>3. d # e /\ Genuine(known[d][e], e, conn[e]) BY <1>3, <2>2 DEF GenuineIntroductions
    <3>. QED BY <1>3, <1>4, <3>2, <3>3 DEF Genuine
  <2>3. \A l \in Links : lastPeerInfo'[l] # NoInfo =>
          l \in hasIP' /\ Genuine(lastPeerInfo'[l], l[1], l[2])
    BY <1>3 DEF GenuineIntroductions
  <2>. QED BY <2>1, <2>2, <2>3 DEF GenuineIntroductions
<1>. QED BY <1>5, <1>6, <1>7, <1>8, <1>9, <1>10

(* The client's address is that of the connection the packet came in on. *)
LEMMA ReceivesAddrInv ==
  ASSUME PeerInv, NEW c \in Clients, NEW p, ReceivesAddr(c, p) PROVE PeerInv'
<1> USE DEF PeerInv
<1>1. /\ publicAddr' = [publicAddr EXCEPT ![c] = conn[c]]
      /\ announcer' = [announcer EXCEPT ![<<p.link, "detect">>].pc = "ready"]
      /\ toClient' \subseteq toClient
      /\ UNCHANGED <<conn, up, known, serverVars, toServer, spoiled>>
  BY DEF ReceivesAddr, Receives
<1>2. conn[c] \in Numbers /\ conn[c] \in Nat BY PresentLink
<1>3. TypeOK'
  <2>1. publicAddr' \in [Clients -> Numbers \cup {0}] BY <1>1, <1>2 DEF TypeOK
  <2>2. announcer' \in [Links \X Kinds ->
                        [pc : {"idle", "ready", "built"},
                         tries : 0..MaxRetries, info : Infos \cup {NoInfo}]]
    BY <1>1, AnnouncerType
  <2>. QED BY <1>1, <2>1, <2>2 DEF TypeOK, serverVars
<1>4. Past' BY <1>1, <1>2 DEF Past, TypeOK, serverVars
<1>5. GenuineAnnouncements'
  <2>1. \A a \in Links \X Kinds : announcer'[a].pc = "built" => announcer'[a] = announcer[a]
    BY <1>1 DEF TypeOK
  <2>. QED BY <1>1, <2>1 DEF GenuineAnnouncements
<1>6. TwoClients' /\ OneRegistered' BY <1>1 DEF TwoClients, OneRegistered, serverVars
<1>7. GenuineIntroductions' BY <1>1 DEF GenuineIntroductions, serverVars
<1>. QED BY <1>3, <1>4, <1>5, <1>6, <1>7

(* An entry is filled from a packet that is about another client. *)
LEMMA LearnsInv ==
  ASSUME PeerInv, NEW c \in Clients, NEW p, Learns(c, p) PROVE PeerInv'
<1> USE DEF PeerInv
<1>1. /\ p \in toClient /\ p.link = Link(c) /\ p.kind \in {"peer", "disconnect"}
      /\ toClient' \subseteq toClient
      /\ UNCHANGED <<conn, up, publicAddr, announcer, serverVars, toServer, spoiled>>
  BY DEF Learns, Receives
<1>2. p \in Packets BY <1>1 DEF TypeOK
<1>3. CASE p.kind = "disconnect"
  <2>1. p.ip \in Clients BY <1>2, <1>3, PacketsAre
  <2>2. known' \in {known, [known EXCEPT ![c][p.ip] = NoInfo]} BY <1>3 DEF Learns
  <2>3. known' \in [Clients -> [Clients -> Infos \cup {NoInfo}]]
    <3>1. CASE known' = known BY <3>1 DEF TypeOK
    <3>2. CASE known' = [known EXCEPT ![c][p.ip] = NoInfo] BY <2>1, <3>2 DEF TypeOK
    <3>. QED BY <2>2, <3>1, <3>2
  <2>4. TypeOK' BY <1>1, <2>3 DEF TypeOK, serverVars
  <2>5. \A d, e \in Clients : known'[d][e] # NoInfo => known'[d][e] = known[d][e]
    <3>1. known \in [Clients -> [Clients -> Infos \cup {NoInfo}]] BY DEF TypeOK
    <3>2. CASE known' = [known EXCEPT ![c][p.ip] = NoInfo] BY <2>1, <3>1, <3>2
    <3>. QED BY <2>2, <3>2
  <2>6. GenuineIntroductions' BY <1>1, <2>5 DEF GenuineIntroductions, serverVars
  <2>7. Past' /\ TwoClients' /\ OneRegistered'
    BY <1>1 DEF Past, TwoClients, OneRegistered, serverVars
  <2>8. GenuineAnnouncements' BY <1>1 DEF GenuineAnnouncements
  <2>. QED BY <2>4, <2>6, <2>7, <2>8
<1>4. CASE p.kind = "peer"
  <2>1. p.info \in Infos BY <1>2, <1>4, PacketsAre
  <2>2. p.info.ip \in Clients BY <2>1, InfosAre
  <2>3. p.info.ip # c /\ p.info.public <= conn[p.info.ip]
    BY <1>1, <1>4, PresentLink DEF GenuineIntroductions
  <2>4. known' = [known EXCEPT ![c][p.info.ip] = p.info] BY <1>4, <2>3 DEF Learns
  <2>5. known' \in [Clients -> [Clients -> Infos \cup {NoInfo}]] BY <2>1, <2>2, <2>4 DEF TypeOK
  <2>6. TypeOK' BY <1>1, <2>5 DEF TypeOK, serverVars
  <2>7. ASSUME NEW d \in Clients, NEW e \in Clients, known'[d][e] # NoInfo
        PROVE  d # e /\ Genuine(known'[d][e], e, conn'[e])
    <3>1. CASE d = c /\ e = p.info.ip
      <4>1. known'[d][e] = p.info BY <2>2, <2>4, <3>1 DEF TypeOK
      <4>. QED BY <1>1, <2>3, <3>1, <4>1 DEF Genuine
    <3>2. CASE ~ (d = c /\ e = p.info.ip)
      <4>1. known'[d][e] = known[d][e] BY <2>2, <2>4, <3>2 DEF TypeOK
      <4>. QED BY <1>1, <2>7, <4>1 DEF GenuineIntroductions
    <3>. QED BY <3>1, <3>2
  <2>8. GenuineIntroductions' BY <1>1, <2>7 DEF GenuineIntroductions, serverVars
  <2>9. Past' /\ TwoClients' /\ OneRegistered'
    BY <1>1 DEF Past, TwoClients, OneRegistered, serverVars
  <2>10. GenuineAnnouncements' BY <1>1 DEF GenuineAnnouncements
  <2>. QED BY <2>6, <2>8, <2>9, <2>10
<1>. QED BY <1>1, <1>3, <1>4

(* A failed announcement. *)
LEMMA FailsType ==
  ASSUME TypeOK, NEW a \in Links \X Kinds, Fails(a)
  PROVE  /\ announcer' \in [Links \X Kinds ->
                              [pc : {"idle", "ready", "built"},
                               tries : 0..MaxRetries, info : Infos \cup {NoInfo}]]
         /\ \A b \in Links \X Kinds : announcer'[b].pc = "built" => announcer'[b] = announcer[b]
<1> DEFINE T == [pc : {"idle", "ready", "built"},
                 tries : 0..MaxRetries, info : Infos \cup {NoInfo}]
           tries == announcer[a].tries + 1
           limit == IF a[2] = "detect" THEN MaxRetries + 1 ELSE MaxRetries
           new == IF tries < limit THEN [pc |-> "ready", tries |-> tries, info |-> NoInfo]
                  ELSE Idle
<1>1. announcer \in [Links \X Kinds -> T] BY DEF TypeOK
<1>2. announcer' = [announcer EXCEPT ![a] = new] BY DEF Fails
<1>3. new \in T /\ new.pc # "built"
  <2>1. announcer[a].tries \in 0..MaxRetries BY <1>1
  <2>2. MaxRetries \in Nat \ {0} BY IntroductionAssumption
  <2>3. CASE tries < limit
    <3>1. tries \in 0..MaxRetries BY <2>1, <2>2, <2>3
    <3>2. new = [pc |-> "ready", tries |-> tries, info |-> NoInfo] BY <2>3
    <3>. QED BY <3>1, <3>2
  <2>4. CASE ~ (tries < limit)
    <3>1. new = Idle BY <2>4
    <3>2. 0 \in 0..MaxRetries BY <2>2
    <3>. QED BY <3>1, <3>2 DEF Idle
  <2>. QED BY <2>3, <2>4
<1> HIDE DEF T, new
<1>4. announcer' \in [Links \X Kinds -> T] BY <1>1, <1>2, <1>3
<1>5. \A b \in Links \X Kinds : announcer'[b].pc = "built" => announcer'[b] = announcer[b]
  BY <1>1, <1>2, <1>3
<1>. QED BY <1>4, <1>5 DEF T

(* The packet that is built has the client's name and its last address. *)
LEMMA BuildsInv ==
  ASSUME PeerInv, NEW c \in Clients, NEW a \in Links \X Kinds, Builds(c, a) PROVE PeerInv'
<1> USE DEF PeerInv
<1> DEFINE T == [pc : {"idle", "ready", "built"},
                 tries : 0..MaxRetries, info : Infos \cup {NoInfo}]
           built == [ip |-> c, public |-> publicAddr[c]]
<1>1. a[1][1] = c /\ UNCHANGED <<conn, up, publicAddr, known, serverVars,
                                 toServer, toClient, spoiled>>
  BY DEF Builds
<1>2. announcer \in [Links \X Kinds -> T] BY DEF TypeOK
<1>3. /\ announcer' \in [Links \X Kinds -> T]
      /\ \A b \in Links \X Kinds : announcer'[b].pc = "built" =>
            \/ announcer'[b] = announcer[b]
            \/ b = a /\ announcer'[b].info = built /\ built \in Infos
  <2>1. CASE up[c] /\ publicAddr[c] # 0
    <3>1. built \in Infos BY <2>1 DEF Infos, TypeOK
    <3>2. announcer' = [announcer EXCEPT ![a] =
                          [pc |-> "built", tries |-> announcer[a].tries, info |-> built]]
      BY <2>1, Zenon DEF Builds
    <3>3. [pc |-> "built", tries |-> announcer[a].tries, info |-> built] \in T
      BY <1>2, <3>1
    <3> HIDE DEF T, built
    <3>. QED BY <1>2, <3>1, <3>2, <3>3
  <2>2. CASE ~ (up[c] /\ publicAddr[c] # 0)
    <3>1. Fails(a) BY <2>2, Zenon DEF Builds
    <3>. QED BY <3>1, FailsType
  <2>. QED BY <2>1, <2>2
<1>4. TypeOK' BY <1>1, <1>3 DEF TypeOK, serverVars
<1>5. GenuineAnnouncements'
  <2>1. ASSUME NEW b \in Links \X Kinds, announcer'[b].pc = "built"
        PROVE  announcer'[b].info \in Infos
               /\ Genuine(announcer'[b].info, b[1][1], conn'[b[1][1]])
    <3>1. CASE announcer'[b] = announcer[b]
      BY <1>1, <2>1, <3>1 DEF GenuineAnnouncements
    <3>2. CASE b = a /\ announcer'[b].info = built /\ built \in Infos
      <4>1. built.ip = c /\ built.public <= conn[c] BY DEF Past
      <4>. QED BY <1>1, <3>2, <4>1 DEF Genuine
    <3>. QED BY <1>3, <2>1, <3>1, <3>2
  <2>. QED BY <1>1, <2>1 DEF GenuineAnnouncements
<1>6. Past' /\ TwoClients' /\ OneRegistered'
  BY <1>1 DEF Past, TwoClients, OneRegistered, serverVars
<1>7. GenuineIntroductions' BY <1>1 DEF GenuineIntroductions, serverVars
<1>. QED BY <1>4, <1>5, <1>6, <1>7

(* The packet that goes out is no younger than the connection it goes out on. *)
LEMMA SendsInv ==
  ASSUME PeerInv, NEW c \in Clients, NEW a \in Links \X Kinds, Sends(c, a) PROVE PeerInv'
<1> USE DEF PeerInv
<1> DEFINE T == [pc : {"idle", "ready", "built"},
                 tries : 0..MaxRetries, info : Infos \cup {NoInfo}]
           packet == [kind |-> "info", link |-> Link(c), info |-> announcer[a].info]
<1>1. /\ announcer[a].pc = "built" /\ a[1][1] = c
      /\ UNCHANGED <<conn, up, publicAddr, known, serverVars, toClient>>
  BY DEF Sends
<1>2. announcer[a].info \in Infos /\ Genuine(announcer[a].info, c, conn[c])
  BY <1>1 DEF GenuineAnnouncements
<1>3. Link(c) \in Links /\ Link(c)[1] = c /\ Link(c)[2] = conn[c] /\ conn[c] \in Nat
  BY PresentLink
<1>4. packet \in Packets BY <1>2, <1>3 DEF Packets
<1>5. /\ packet.kind = "info" /\ packet.link[2] <= conn[packet.link[1]]
      /\ Genuine(packet.info, packet.link[1], packet.link[2])
  BY <1>2, <1>3
<1>6. /\ announcer' \in [Links \X Kinds -> T]
      /\ \A b \in Links \X Kinds : announcer'[b].pc = "built" => announcer'[b] = announcer[b]
      /\ toServer' \subseteq toServer \cup {packet}
  <2>1. CASE /\ toServer' \in {toServer, toServer \cup {packet}}
             /\ announcer' = [announcer EXCEPT ![a] = Idle]
    <3>1. announcer \in [Links \X Kinds -> T] BY DEF TypeOK
    <3>2. Idle \in T /\ Idle.pc # "built"
      <4>1. 0 \in 0..MaxRetries BY IntroductionAssumption
      <4>. QED BY <4>1 DEF Idle
    <3> HIDE DEF T, packet
    <3>3. announcer' \in [Links \X Kinds -> T] BY <2>1, <3>1, <3>2
    <3>4. \A b \in Links \X Kinds : announcer'[b].pc = "built" => announcer'[b] = announcer[b]
      BY <2>1, <3>1, <3>2
    <3>. QED BY <2>1, <3>3, <3>4
  <2>2. CASE Fails(a) /\ UNCHANGED toServer BY <2>2, FailsType
  <2>. QED BY <2>1, <2>2, Zenon DEF Sends
<1> HIDE DEF packet
<1>7. TypeOK'
  <2>1. spoiled' \in [Clients -> BOOLEAN] BY Zenon DEF Sends, TypeOK
  <2>. QED BY <1>1, <1>4, <1>6, <2>1 DEF TypeOK, serverVars
<1>8. GenuineAnnouncements'
  <2>1. \A b \in Links \X Kinds : announcer'[b].pc = "built" =>
           announcer'[b].info \in Infos
           /\ Genuine(announcer'[b].info, b[1][1], conn'[b[1][1]])
    BY <1>1, <1>6 DEF GenuineAnnouncements
  <2>2. \A p \in toServer' : /\ p.kind = "info" /\ p.link[2] <= conn'[p.link[1]]
                             /\ Genuine(p.info, p.link[1], p.link[2])
    BY <1>1, <1>5, <1>6 DEF GenuineAnnouncements
  <2>. QED BY <2>1, <2>2 DEF GenuineAnnouncements
<1>9. Past' /\ TwoClients' /\ OneRegistered'
  BY <1>1 DEF Past, TwoClients, OneRegistered, serverVars
<1>10. GenuineIntroductions' BY <1>1 DEF GenuineIntroductions, serverVars
<1>. QED BY <1>7, <1>8, <1>9, <1>10

(* A data packet registers its connection, which is not one yet to be made. *)
LEMMA RegistersInv ==
  ASSUME PeerInv, Untouched, NEW l \in Links, Registers(l) PROVE PeerInv'
<1> USE DEF PeerInv, clientVars
<1>1. /\ phase[l] = "open" /\ AddClient(l)
      /\ UNCHANGED <<clientVars, lastPeerInfo, waiting, toServer, toClient>>
  BY DEF Registers
<1>2. l[2] <= conn[l[1]]
  <2>1. l[1] \in Clients /\ l[2] \in Nat BY LinksAre
  <2>2. conn[l[1]] \in Nat BY <2>1, NumbersAre DEF TypeOK
  <2>3. ~ (l[2] > conn[l[1]]) BY <1>1 DEF Untouched
  <2>. QED BY <2>1, <2>2, <2>3
<1>3. /\ phase' \in [Links -> {"new", "open", "closing", "gone"}]
      /\ hasIP' \subseteq Links /\ hasIP \subseteq hasIP'
      /\ owner' \in [Clients -> Numbers \cup {0}]
      /\ \A d \in Clients : owner'[d] <= conn[d]
      /\ \A m \in hasIP' : m[2] <= conn[m[1]]
      /\ OneRegistered'
  BY <1>1, <1>2, AddClientInv
<1>4. TypeOK'
  <2>1. spoiled' \in [Clients -> BOOLEAN] BY Zenon DEF Registers, TypeOK
  <2>. QED BY <1>1, <1>3, <2>1 DEF TypeOK
<1>5. Past' BY <1>1, <1>3 DEF Past
<1>6. GenuineAnnouncements' /\ TwoClients' BY <1>1 DEF GenuineAnnouncements, TwoClients
<1>7. GenuineIntroductions' BY <1>1, <1>3 DEF GenuineIntroductions
<1>. QED BY <1>3, <1>4, <1>5, <1>6, <1>7

(* An announcement registers its connection, which may be an old one, and is *)
(* filed under it.                                                           *)
LEMMA StoresInfoInv ==
  ASSUME PeerInv, NEW c \in Clients, NEW p, StoresInfo(c, p) PROVE PeerInv'
<1> USE DEF PeerInv, clientVars
<1>1. /\ p \in toServer /\ p.kind = "info" /\ p.link[1] = c /\ phase[p.link] = "open"
      /\ toServer' \subseteq toServer /\ AddClient(p.link)
      /\ lastPeerInfo' = [lastPeerInfo EXCEPT ![p.link] = p.info]
      /\ UNCHANGED <<clientVars, waiting, toClient>>
  BY DEF StoresInfo, Arrives
<1>2. p \in Packets BY <1>1 DEF TypeOK
<1>3. p.link \in Links /\ p.info \in Infos BY <1>1, <1>2, PacketsAre
<1>4. p.link[2] <= conn[p.link[1]] /\ Genuine(p.info, p.link[1], p.link[2])
  BY <1>1 DEF GenuineAnnouncements
<1>5. /\ phase' \in [Links -> {"new", "open", "closing", "gone"}]
      /\ hasIP' \subseteq Links /\ p.link \in hasIP' /\ hasIP \subseteq hasIP'
      /\ owner' \in [Clients -> Numbers \cup {0}]
      /\ \A d \in Clients : owner'[d] <= conn[d]
      /\ \A m \in hasIP' : m[2] <= conn[m[1]]
      /\ OneRegistered'
  BY <1>1, <1>3, <1>4, AddClientInv
<1>6. TypeOK'
  <2>1. lastPeerInfo' \in [Links -> Infos \cup {NoInfo}] BY <1>1, <1>3 DEF TypeOK
  <2>2. spoiled' \in [Clients -> BOOLEAN]
    BY Zenon DEF StoresInfo, TypeOK
  <2>3. toServer' \subseteq Packets BY <1>1 DEF TypeOK
  <2>. QED BY <1>1, <1>5, <2>1, <2>2, <2>3 DEF TypeOK
<1>7. Past' BY <1>1, <1>5 DEF Past
<1>8. GenuineAnnouncements' /\ TwoClients' BY <1>1 DEF GenuineAnnouncements, TwoClients
<1>9. GenuineIntroductions'
  <2>1. ASSUME NEW l \in Links, lastPeerInfo'[l] # NoInfo
        PROVE  l \in hasIP' /\ Genuine(lastPeerInfo'[l], l[1], l[2])
    <3>1. CASE l = p.link
      <4>1. lastPeerInfo'[l] = p.info BY <1>1, <3>1 DEF TypeOK
      <4>. QED BY <1>4, <1>5, <3>1, <4>1
    <3>2. CASE l # p.link
      <4>1. lastPeerInfo'[l] = lastPeerInfo[l] BY <1>1, <3>2 DEF TypeOK
      <4>. QED BY <1>5, <2>1, <4>1 DEF GenuineIntroductions
    <3>. QED BY <3>1, <3>2
  <2>. QED BY <1>1, <2>1 DEF GenuineIntroductions
<1>. QED BY <1>5, <1>6, <1>7, <1>8, <1>9

(* Adding packets to the clients and goroutines that wait keeps the rest. *)
LEMMA MoreToClient ==
  ASSUME PeerInv, toClient' \subseteq Packets,
         \A p \in toClient' : p.kind = "peer" =>
            p.info.ip # p.link[1] /\ p.info.public <= conn[p.info.ip],
         waiting' \subseteq [from : Links, to : Links, left : 1..WaitAttempts],
         \A w \in waiting' : w.from[1] # w.to[1],
         UNCHANGED <<clientVars, phase, owner, hasIP, lastPeerInfo, toServer, spoiled>>
  PROVE  PeerInv'
<1> USE DEF PeerInv, clientVars
<1>1. TypeOK' BY DEF TypeOK
<1>2. Past' /\ OneRegistered' BY DEF Past, OneRegistered
<1>3. GenuineAnnouncements' /\ TwoClients' BY DEF GenuineAnnouncements, TwoClients
<1>4. GenuineIntroductions' BY DEF GenuineIntroductions
<1>. QED BY <1>1, <1>2, <1>3, <1>4

(* A request: the two are introduced, or a goroutine waits for them. *)
LEMMA HandlesRequestInv ==
  ASSUME PeerInv, NEW l \in Links, NEW d \in Clients, HandlesRequest(l, d) PROVE PeerInv'
<1> USE DEF PeerInv
<1> DEFINE target == <<d, owner[d]>>
           wait == [from |-> l, to |-> target, left |-> WaitAttempts]
<1>1. /\ l[1] # d /\ owner[d] # 0
      /\ UNCHANGED <<clientVars, phase, owner, hasIP, lastPeerInfo, toServer, spoiled>>
  BY DEF HandlesRequest, Requested
<1>2. target \in Links /\ target[1] = d BY <1>1, OwnerLink
<1>3. CASE waiting' = waiting \cup {wait} /\ UNCHANGED toClient
  <2>1. WaitAttempts \in 1..WaitAttempts BY IntroductionAssumption
  <2>2. wait \in [from : Links, to : Links, left : 1..WaitAttempts] BY <1>2, <2>1
  <2>3. wait.from[1] # wait.to[1] BY <1>1, <1>2
  <2> HIDE DEF wait, target
  <2>4. /\ waiting' \subseteq [from : Links, to : Links, left : 1..WaitAttempts]
        /\ \A w \in waiting' : w.from[1] # w.to[1]
    BY <1>3, <2>2, <2>3 DEF TypeOK, TwoClients
  <2>5. /\ toClient' \subseteq Packets
        /\ \A p \in toClient' : p.kind = "peer" =>
              p.info.ip # p.link[1] /\ p.info.public <= conn[p.info.ip]
    BY <1>3 DEF TypeOK, GenuineIntroductions
  <2>. QED BY <1>1, <2>4, <2>5, MoreToClient
<1>4. CASE /\ NoInfo \notin {lastPeerInfo[l], lastPeerInfo[target]} /\ UNCHANGED waiting
           /\ toClient' = toClient \cup
                Introduction(l, target, lastPeerInfo[l], lastPeerInfo[target])
  <2>1. lastPeerInfo[l] # NoInfo /\ lastPeerInfo[target] # NoInfo BY <1>4
  <2>2. l[1] # target[1] BY <1>1, <1>2
  <2> HIDE DEF target
  <2>3. \A p \in Introduction(l, target, lastPeerInfo[l], lastPeerInfo[target]) :
          p \in Packets /\ p.info.ip # p.link[1] /\ p.info.public <= conn[p.info.ip]
    BY <1>2, <2>1, <2>2, IntroductionInv
  <2>4. /\ toClient' \subseteq Packets
        /\ \A p \in toClient' : p.kind = "peer" =>
              p.info.ip # p.link[1] /\ p.info.public <= conn[p.info.ip]
    BY <1>4, <2>3 DEF TypeOK, GenuineIntroductions
  <2>5. /\ waiting' \subseteq [from : Links, to : Links, left : 1..WaitAttempts]
        /\ \A w \in waiting' : w.from[1] # w.to[1]
    BY <1>4 DEF TypeOK, TwoClients
  <2>. QED BY <1>1, <2>4, <2>5, MoreToClient
<1>. QED BY <1>3, <1>4, Zenon DEF HandlesRequest

(* A goroutine that waits finds the announcements of the connections it holds, *)
(* or goes round again, or gives up.                                           *)
LEMMA WaiterLooksInv == ASSUME PeerInv, NEW w \in waiting, WaiterLooks(w) PROVE PeerInv'
<1> USE DEF PeerInv
<1> DEFINE less == [w EXCEPT !.left = @ - 1]
<1>1. UNCHANGED <<clientVars, phase, owner, hasIP, lastPeerInfo, toServer, spoiled>>
  BY DEF WaiterLooks
<1>2. w \in [from : Links, to : Links, left : 1..WaitAttempts] /\ w.from[1] # w.to[1]
  BY DEF TypeOK, TwoClients
<1>3. CASE /\ waiting' = (waiting \ {w}) \cup (IF w.left > 1 THEN {less} ELSE {})
           /\ UNCHANGED toClient
  <2>1. ASSUME w.left > 1
        PROVE  /\ less \in [from : Links, to : Links, left : 1..WaitAttempts]
               /\ less.from[1] # less.to[1]
    <3>1. w.left - 1 \in 1..WaitAttempts BY <1>2, <2>1, IntroductionAssumption
    <3>. QED BY <1>2, <3>1
  <2> HIDE DEF less
  <2>2. /\ waiting' \subseteq [from : Links, to : Links, left : 1..WaitAttempts]
        /\ \A v \in waiting' : v.from[1] # v.to[1]
    <3>1. CASE w.left > 1 BY <1>3, <2>1, <3>1 DEF TypeOK, TwoClients
    <3>2. CASE ~ (w.left > 1) BY <1>3, <3>2 DEF TypeOK, TwoClients
    <3>. QED BY <3>1, <3>2
  <2>3. /\ toClient' \subseteq Packets
        /\ \A p \in toClient' : p.kind = "peer" =>
              p.info.ip # p.link[1] /\ p.info.public <= conn[p.info.ip]
    BY <1>3 DEF TypeOK, GenuineIntroductions
  <2>. QED BY <1>1, <2>2, <2>3, MoreToClient
<1>4. CASE /\ NoInfo \notin {lastPeerInfo[w.from], lastPeerInfo[w.to]}
           /\ waiting' = waiting \ {w}
           /\ toClient' = toClient \cup
                Introduction(w.from, w.to, lastPeerInfo[w.from], lastPeerInfo[w.to])
  <2>1. lastPeerInfo[w.from] # NoInfo /\ lastPeerInfo[w.to] # NoInfo BY <1>4
  <2>2. w.from \in Links /\ w.to \in Links BY <1>2
  <2>3. \A p \in Introduction(w.from, w.to, lastPeerInfo[w.from], lastPeerInfo[w.to]) :
          p \in Packets /\ p.info.ip # p.link[1] /\ p.info.public <= conn[p.info.ip]
    BY <1>2, <2>1, <2>2, IntroductionInv
  <2>4. /\ toClient' \subseteq Packets
        /\ \A p \in toClient' : p.kind = "peer" =>
              p.info.ip # p.link[1] /\ p.info.public <= conn[p.info.ip]
    BY <1>4, <2>3 DEF TypeOK, GenuineIntroductions
  <2>5. /\ waiting' \subseteq [from : Links, to : Links, left : 1..WaitAttempts]
        /\ \A v \in waiting' : v.from[1] # v.to[1]
    BY <1>4 DEF TypeOK, TwoClients
  <2>. QED BY <1>1, <2>4, <2>5, MoreToClient
<1>. QED BY <1>3, <1>4, Zenon DEF WaiterLooks

(* The server ends a connection; the table forgets it if it has it. *)
LEMMA RemovesInv == ASSUME PeerInv, NEW l \in Links, Removes(l) PROVE PeerInv'
<1> USE DEF PeerInv, clientVars
<1> DEFINE told == {[kind |-> "disconnect", link |-> <<d, owner[d]>>, ip |-> l[1]] :
                      d \in {d \in Clients \ {l[1]} : owner[d] # 0}}
<1>1. /\ phase' = [phase EXCEPT ![l] = "gone"]
      /\ owner' = IF l \in hasIP /\ owner[l[1]] = l[2] THEN [owner EXCEPT ![l[1]] = 0] ELSE owner
      /\ toServer' \subseteq toServer
      /\ UNCHANGED <<clientVars, hasIP, lastPeerInfo, waiting, spoiled>>
  BY DEF Removes
<1>2. toClient' \subseteq toClient \cup told BY DEF Removes, Written
<1>3. \A p \in told : p \in Packets /\ p.kind # "peer"
  <2>1. ASSUME NEW d \in Clients, owner[d] # 0
        PROVE  [kind |-> "disconnect", link |-> <<d, owner[d]>>, ip |-> l[1]] \in Packets
    <3>1. <<d, owner[d]>> \in Links /\ l[1] \in Clients BY <2>1, OwnerLink, LinksAre
    <3>. QED BY <3>1 DEF Packets
  <2>. QED BY <2>1
<1> HIDE DEF told
<1>4. l[1] \in Clients /\ l[2] \in Nat \ {0} /\ l = <<l[1], l[2]>> BY LinksAre
<1>5. TypeOK'
  <2>1. phase' \in [Links -> {"new", "open", "closing", "gone"}] BY <1>1 DEF TypeOK
  <2>2. owner' \in [Clients -> Numbers \cup {0}] BY <1>1 DEF TypeOK
  <2>3. toClient' \subseteq Packets /\ toServer' \subseteq Packets BY <1>1, <1>2, <1>3 DEF TypeOK
  <2>. QED BY <1>1, <2>1, <2>2, <2>3 DEF TypeOK
<1>6. Past'
  <2>1. \A c \in Clients : conn[c] \in Nat BY NumbersAre DEF TypeOK
  <2>2. \A c \in Clients : owner'[c] <= conn[c] BY <1>1, <2>1 DEF Past, TypeOK
  <2>. QED BY <1>1, <2>2 DEF Past
<1>7. GenuineAnnouncements' /\ TwoClients' BY <1>1 DEF GenuineAnnouncements, TwoClients
<1>8. OneRegistered'
  <2>1. ASSUME NEW m \in Links PROVE owner'[m[1]] = m[2] <=> m \in hasIP' /\ phase'[m] = "open"
    <3>1. m[1] \in Clients /\ m[2] \in Nat \ {0} /\ m = <<m[1], m[2]>> BY LinksAre
    <3>2. /\ owner[m[1]] = m[2] <=> m \in hasIP /\ phase[m] = "open"
          /\ owner[l[1]] = l[2] <=> l \in hasIP /\ phase[l] = "open"
      BY DEF OneRegistered
    <3>3. CASE m = l
      <4>1. phase'[m] # "open" BY <1>1, <3>3 DEF TypeOK
      <4>2. CASE l \in hasIP /\ owner[l[1]] = l[2]
        <5>1. owner'[m[1]] = 0 BY <1>1, <1>4, <3>3, <4>2 DEF TypeOK
        <5>. QED BY <3>1, <4>1, <5>1
      <4>3. CASE ~ (l \in hasIP /\ owner[l[1]] = l[2])
        BY <1>1, <3>2, <3>3, <4>1, <4>3
      <4>. QED BY <4>2, <4>3
    <3>4. CASE m # l
      <4>1. phase'[m] = phase[m] BY <1>1, <3>4 DEF TypeOK
      <4>2. CASE l \in hasIP /\ owner[l[1]] = l[2] /\ m[1] = l[1]
        <5>1. owner'[m[1]] = 0 BY <1>1, <1>4, <4>2 DEF TypeOK
        <5>2. m[2] # l[2] BY <1>4, <3>1, <3>4, <4>2
        <5>. QED BY <1>1, <3>1, <3>2, <4>1, <4>2, <5>1, <5>2
      <4>3. CASE ~ (l \in hasIP /\ owner[l[1]] = l[2] /\ m[1] = l[1])
        <5>1. owner'[m[1]] = owner[m[1]] BY <1>1, <1>4, <3>1, <4>3 DEF TypeOK
        <5>. QED BY <1>1, <3>2, <4>1, <5>1
      <4>. QED BY <4>2, <4>3
    <3>. QED BY <3>3, <3>4
  <2>. QED BY <2>1 DEF OneRegistered
<1>9. GenuineIntroductions' BY <1>1, <1>2, <1>3 DEF GenuineIntroductions
<1>. QED BY <1>5, <1>6, <1>7, <1>8, <1>9

(* Every step keeps the invariant. *)
LEMMA PeerStep == ASSUME PeerInv, Untouched, [Next]_vars PROVE PeerInv'
<1>1. ASSUME NEW c \in Clients, ClientStep(c) PROVE PeerInv'
  <2>1. CASE Drop(c) BY <2>1, DropInv
  <2>2. CASE Reconnect(c) BY <2>2, ReconnectInv
  <2>3. CASE \E p \in toClient : ReceivesAddr(c, p) \/ Learns(c, p)
    BY <2>3, ReceivesAddrInv, LearnsInv
  <2>4. CASE \E a \in Links \X Kinds : Builds(c, a) \/ Sends(c, a)
    BY <2>4, BuildsInv, SendsInv
  <2>5. CASE \E p \in toServer : StoresInfo(c, p) BY <2>5, StoresInfoInv
  <2>. QED BY <1>1, <2>1, <2>2, <2>3, <2>4, <2>5, Zenon DEF ClientStep
<1>2. CASE \E w \in waiting : WaiterLooks(w) BY <1>2, WaiterLooksInv
<1>3. CASE \E l \in Links : Registers(l) \/ Removes(l) \/ \E d \in Clients : HandlesRequest(l, d)
  BY <1>3, RegistersInv, RemovesInv, HandlesRequestInv
<1>4. CASE \E p \in toClient : Loses(p) BY <1>4, LosesInv
<1>5. CASE UNCHANGED vars
  <2> USE <1>5 DEF vars, PeerInv
  <2>1. TypeOK' BY DEF TypeOK
  <2>2. Past' /\ TwoClients' BY DEF Past, TwoClients
  <2>3. OneRegistered' BY DEF OneRegistered
  <2>4. GenuineAnnouncements' BY DEF GenuineAnnouncements
  <2>5. GenuineIntroductions' BY DEF GenuineIntroductions
  <2>. QED BY <2>1, <2>2, <2>3, <2>4, <2>5
<1>. QED BY <1>1, <1>2, <1>3, <1>4, <1>5, Zenon DEF Next

-----------------------------------------------------------------------------
(* The table of ClientTable, and that untouched connections stay so. *)

Stopped == {l \in Links : phase[l] \in {"closing", "gone"}}
Entry(c) == IF owner[c] = 0 THEN <<>> ELSE <<c, owner[c]>>

(* The entry of a client is one of its connections, or none. *)
LEMMA EntryIs ==
  ASSUME PeerInv, NEW c \in Clients
  PROVE  /\ Entry(c) \in Links \cup {<<>>}
         /\ \A l \in Links : l # <<>> /\ (Entry(c) = l <=> c = l[1] /\ owner[c] = l[2])
<1> USE DEF PeerInv
<1>1. \A l \in Links : l = <<l[1], l[2]>> /\ l[2] \in Nat \ {0} BY LinksAre
<1>2. \A l \in Links : l # <<>> BY DEF Links
<1>3. CASE owner[c] = 0 BY <1>1, <1>2, <1>3 DEF Entry
<1>4. CASE owner[c] # 0
  <2>1. <<c, owner[c]>> \in Links BY <1>4, OwnerLink
  <2>2. Entry(c) = <<c, owner[c]>> BY <1>4 DEF Entry
  <2>. QED BY <1>1, <1>2, <2>1, <2>2
<1>. QED BY <1>3, <1>4

(* addClient of a connection that has no IP yet is a claim. *)
LEMMA AddClientClaims ==
  ASSUME PeerInv, PeerInv', NEW l \in Links, phase[l] = "open", l \notin hasIP, AddClient(l)
  PROVE  Table!Claim(l, l[1])
<1> USE DEF PeerInv
<1>1. l[1] \in Clients /\ l[2] \in Nat \ {0} /\ l = <<l[1], l[2]>> BY LinksAre
<1> DEFINE old == <<l[1], owner[l[1]]>>
<1>2. /\ owner' = [owner EXCEPT ![l[1]] = l[2]]
      /\ phase' = IF owner[l[1]] # 0 THEN [phase EXCEPT ![old] = "closing"] ELSE phase
  BY Zenon DEF AddClient
<1>3. owner[l[1]] # l[2] BY DEF OneRegistered
<1>4. \A c \in Clients : Entry(c) # l BY <1>3, EntryIs
<1>5. [c \in Clients |-> Entry(c)]' = [[c \in Clients |-> Entry(c)] EXCEPT ![l[1]] = l]
  <2>1. \A c \in Clients : c # l[1] => owner'[c] = owner[c] BY <1>2 DEF TypeOK
  <2>2. owner'[l[1]] = l[2] BY <1>1, <1>2 DEF TypeOK
  <2>3. \A c \in Clients : Entry(c)' = IF c = l[1] THEN l ELSE Entry(c)
    BY <1>1, <2>1, <2>2 DEF Entry
  <2>. QED BY <1>1, <2>3
<1>6. Gone' = Gone /\ Stopped' = Stopped \cup ({Entry(l[1])} \ {<<>>})
  <2>1. CASE owner[l[1]] = 0
    <3>1. phase' = phase /\ Entry(l[1]) = <<>> BY <1>2, <2>1 DEF Entry
    <3>. QED BY <3>1 DEF Gone, Stopped
  <2>2. CASE owner[l[1]] # 0
    <3>1. old \in Links /\ old[1] = l[1] /\ old[2] = owner[l[1]] BY <1>1, <2>2, OwnerLink
    <3>2. Entry(l[1]) = old /\ old # <<>> BY <2>2 DEF Entry
    <3>3. phase' = [phase EXCEPT ![old] = "closing"] BY <1>2, <2>2
    <3>4. phase[old] = "open" BY <3>1 DEF OneRegistered
    <3> HIDE DEF old
    <3>5. phase'[old] = "closing" /\ \A m \in Links : m # old => phase'[m] = phase[m]
      BY <3>1, <3>3 DEF TypeOK
    <3>6. Gone' = Gone BY <3>4, <3>5 DEF Gone
    <3>7. Stopped' = Stopped \cup {old} BY <3>1, <3>5 DEF Stopped
    <3>. QED BY <3>2, <3>6, <3>7
  <2>. QED BY <2>1, <2>2
<1>7. l \notin Gone BY DEF Gone
<1>. QED BY <1>1, <1>4, <1>5, <1>6, <1>7 DEF Table!Claim, Entry, Stopped

(* removeClient takes the connection's own entry and no other. *)
LEMMA RemovesLeaves ==
  ASSUME PeerInv, NEW l \in Links, Removes(l) PROVE Table!Leave(l)
<1> USE DEF PeerInv
<1>1. l[1] \in Clients /\ l[2] \in Nat \ {0} /\ l = <<l[1], l[2]>> BY LinksAre
<1>2. /\ phase[l] \in {"closing", "open"}
      /\ phase' = [phase EXCEPT ![l] = "gone"]
      /\ owner' = IF l \in hasIP /\ owner[l[1]] = l[2] THEN [owner EXCEPT ![l[1]] = 0] ELSE owner
  BY DEF Removes
<1>3. owner[l[1]] = l[2] => l \in hasIP BY DEF OneRegistered
<1>4. ASSUME NEW c \in Clients PROVE Entry(c)' = IF Entry(c) = l THEN <<>> ELSE Entry(c)
  <2>1. Entry(c) = l <=> c = l[1] /\ owner[c] = l[2] BY EntryIs
  <2>2. CASE Entry(c) = l
    <3>1. owner'[c] = 0 BY <1>2, <1>3, <2>1, <2>2 DEF TypeOK
    <3>. QED BY <2>2, <3>1 DEF Entry
  <2>3. CASE Entry(c) # l
    <3>1. owner'[c] = owner[c] BY <1>2, <2>1, <2>3 DEF TypeOK
    <3>. QED BY <2>3, <3>1 DEF Entry
  <2>. QED BY <2>2, <2>3
<1>5. phase'[l] = "gone" /\ \A m \in Links : m # l => phase'[m] = phase[m] BY <1>2 DEF TypeOK
<1>6. l \notin Gone /\ Gone' = Gone \cup {l} /\ Stopped' = Stopped \cup {l}
  BY <1>2, <1>5 DEF Gone, Stopped
<1>7. [c \in Clients |-> Entry(c)]' =
        [c \in Clients |-> IF [d \in Clients |-> Entry(d)][c] = l THEN <<>>
                           ELSE [d \in Clients |-> Entry(d)][c]]
  BY <1>4
<1>. QED BY <1>6, <1>7 DEF Table!Leave, Entry, Stopped

(* A new connection is one of those that are untouched. *)
LEMMA ReconnectHides ==
  ASSUME PeerInv, Untouched, NEW c \in Clients, Reconnect(c)
  PROVE  UNCHANGED Table!tableVars /\ Untouched'
<1> USE DEF PeerInv
<1> DEFINE link == <<c, conn[c] + 1>>
<1>1. /\ link \in Links /\ conn' = [conn EXCEPT ![c] = @ + 1]
      /\ phase' = [phase EXCEPT ![link] = "open"] /\ owner' = owner
  BY Zenon DEF Reconnect
<1>2. conn[c] \in Nat /\ conn[c] + 1 > conn[c] /\ link[1] = c /\ link[2] = conn[c] + 1
  BY PresentLink
<1>3. phase[link] = "new" BY <1>1, <1>2 DEF Untouched
<1> HIDE DEF link
<1>4. phase'[link] = "open" /\ \A l \in Links : l # link => phase'[l] = phase[l]
  BY <1>1 DEF TypeOK
<1>5. Gone' = Gone /\ Stopped' = Stopped BY <1>3, <1>4 DEF Gone, Stopped
<1>6. Untouched'
  <2> SUFFICES ASSUME NEW l \in Links, l[2] > conn'[l[1]] PROVE phase'[l] = "new"
    BY DEF Untouched
  <2>1. l[1] \in Clients /\ l[2] \in Nat BY LinksAre
  <2>2. conn[l[1]] \in Nat BY <2>1, NumbersAre DEF TypeOK
  <2>3. conn'[l[1]] = IF l[1] = c THEN conn[c] + 1 ELSE conn[l[1]] BY <1>1, <2>1 DEF TypeOK
  <2>4. l[2] > conn[l[1]] BY <1>2, <2>1, <2>2, <2>3
  <2>5. l # link BY <1>2, <2>1, <2>3
  <2>. QED BY <1>4, <2>4, <2>5 DEF Untouched
<1>. QED BY <1>1, <1>5, <1>6 DEF Table!tableVars, Stopped

(* addClient and removeClient touch connections there have been. *)
LEMMA AddClientUntouched ==
  ASSUME PeerInv, Untouched, conn' = conn, NEW l \in Links, AddClient(l) PROVE Untouched'
<1> USE DEF PeerInv
<1> SUFFICES ASSUME NEW m \in Links, m[2] > conn[m[1]] PROVE phase'[m] = "new"
  BY DEF Untouched
<1>1. phase[m] = "new" BY DEF Untouched
<1>2. l[1] \in Clients /\ m[1] \in Clients /\ m[2] \in Nat BY LinksAre
<1>3. conn[m[1]] \in Nat BY <1>2, NumbersAre DEF TypeOK
<1>4. owner[m[1]] <= conn[m[1]] BY <1>2 DEF Past
<1>5. owner[m[1]] # m[2]
  <2>1. owner[m[1]] \in Numbers \cup {0} BY <1>2 DEF TypeOK
  <2>2. Numbers \cup {0} \subseteq Nat BY NumbersAre
  <2>3. owner[m[1]] \in Nat BY <2>1, <2>2
  <2>. QED BY <1>2, <1>3, <1>4, <2>3
<1>6. m # <<l[1], owner[l[1]]>> BY <1>5
<1>. QED BY <1>1, <1>6 DEF AddClient, TypeOK

LEMMA RemovesUntouched ==
  ASSUME PeerInv, Untouched, NEW l \in Links, Removes(l) PROVE Untouched'
<1>1. /\ phase[l] # "new" /\ phase' = [phase EXCEPT ![l] = "gone"] /\ conn' = conn
  BY DEF Removes, clientVars
<1>. QED BY <1>1 DEF Untouched, PeerInv, TypeOK

(* Each step is a claim, a leave, or invisible. *)
LEMMA IntroductionStepRefines ==
  ASSUME PeerInv, PeerInv', Untouched, [Next]_vars
  PROVE  [Table!TableNext]_(Table!tableVars) /\ Untouched'
<1> USE DEF PeerInv
<1>1. ASSUME UNCHANGED <<conn, owner, phase>>
      PROVE  UNCHANGED Table!tableVars /\ Untouched'
  BY <1>1 DEF Table!tableVars, Gone, Untouched
<1>2. ASSUME NEW l \in Links, phase[l] = "open", AddClient(l), conn' = conn
      PROVE  [Table!TableNext]_(Table!tableVars) /\ Untouched'
  <2>1. CASE l \in hasIP
    <3>1. UNCHANGED <<conn, owner, phase>> BY <1>2, <2>1 DEF AddClient
    <3>. QED BY <1>1, <3>1
  <2>2. CASE l \notin hasIP
    <3>1. Table!Claim(l, l[1]) BY <1>2, <2>2, AddClientClaims
    <3>2. l[1] \in Clients BY LinksAre
    <3>. QED BY <1>2, <3>1, <3>2, AddClientUntouched DEF Table!TableNext
  <2>. QED BY <2>1, <2>2
<1>3. ASSUME NEW c \in Clients, ClientStep(c)
      PROVE  [Table!TableNext]_(Table!tableVars) /\ Untouched'
  <2>1. CASE Drop(c) \/ \E p \in toClient : ReceivesAddr(c, p) \/ Learns(c, p)
    <3>1. UNCHANGED <<conn, owner, phase>>
      BY <2>1 DEF Drop, ReceivesAddr, Learns, serverVars
    <3>. QED BY <1>1, <3>1
  <2>2. CASE \E a \in Links \X Kinds : Builds(c, a) \/ Sends(c, a)
    <3>1. UNCHANGED <<conn, owner, phase>> BY <2>2 DEF Builds, Sends, serverVars
    <3>. QED BY <1>1, <3>1
  <2>3. CASE Reconnect(c) BY <2>3, ReconnectHides
  <2>4. CASE \E p \in toServer : StoresInfo(c, p)
    <3>1. PICK p \in toServer : StoresInfo(c, p) BY <2>4
    <3>2. phase[p.link] = "open" /\ AddClient(p.link) /\ conn' = conn
      BY <3>1 DEF StoresInfo, Arrives, clientVars
    <3>3. p.link \in Links BY PacketsAre DEF TypeOK
    <3>. QED BY <1>2, <3>2, <3>3
  <2>. QED BY <1>3, <2>1, <2>2, <2>3, <2>4, Zenon DEF ClientStep
<1>4. CASE (\E w \in waiting : WaiterLooks(w)) \/ \E p \in toClient : Loses(p)
  <2>1. UNCHANGED <<conn, owner, phase>>
    BY <1>4 DEF WaiterLooks, Loses, serverVars, clientVars
  <2>. QED BY <1>1, <2>1
<1>5. ASSUME NEW l \in Links, Removes(l)
      PROVE  [Table!TableNext]_(Table!tableVars) /\ Untouched'
  BY <1>5, RemovesLeaves, RemovesUntouched DEF Table!TableNext
<1>6. ASSUME NEW l \in Links, NEW d \in Clients, HandlesRequest(l, d)
      PROVE  [Table!TableNext]_(Table!tableVars) /\ Untouched'
  <2>1. UNCHANGED <<conn, owner, phase>> BY <1>6 DEF HandlesRequest, clientVars
  <2>. QED BY <1>1, <2>1
<1>7. ASSUME NEW l \in Links, Registers(l)
      PROVE  [Table!TableNext]_(Table!tableVars) /\ Untouched'
  BY <1>2, <1>7 DEF Registers, clientVars
<1>8. CASE UNCHANGED vars
  <2>1. UNCHANGED <<conn, owner, phase>> BY <1>8 DEF vars
  <2>. QED BY <1>1, <2>1
<1>. QED BY <1>3, <1>4, <1>5, <1>6, <1>7, <1>8, Zenon DEF Next

(* At the start every client has its first connection only. *)
LEMMA UntouchedInit == Init => Untouched
<1> SUFFICES ASSUME Init PROVE Untouched
  OBVIOUS
<1>1. /\ phase = [l \in Links |-> IF l[2] = 1 THEN "open" ELSE "new"]
      /\ conn = [c \in Clients |-> 1]
  BY Zenon DEF Init
<1>2. \A l \in Links : l[1] \in Clients /\ l[2] \in Nat \ {0} BY LinksAre
<1>. QED BY <1>1, <1>2 DEF Untouched

(* The invariant holds always, for every number of clients, connections and   *)
(* retries.                                                                   *)
LEMMA PeerAlways == Spec => [](PeerInv /\ Untouched)
<1>1. Init => PeerInv /\ Untouched BY PeerInit, UntouchedInit
<1>2. PeerInv /\ Untouched /\ [Next]_vars => (PeerInv /\ Untouched)'
  BY PeerStep, IntroductionStepRefines
<1>. QED BY <1>1, <1>2, PTL DEF Spec

(* The types of the clients, the connections, the goroutines and the packets. *)
THEOREM IntroductionTypes == Spec => []TypeOK
<1>1. PeerInv => TypeOK BY DEF PeerInv
<1>. QED BY <1>1, PeerAlways, PTL

(* t.clients and the open, registered connections agree, whichever connection *)
(* of a client addClient and removeClient are called with, and in what order. *)
THEOREM TableMatchesConnections == Spec => []OneRegistered
<1>1. PeerInv => OneRegistered BY DEF PeerInv
<1>. QED BY <1>1, PeerAlways, PTL

(* handleP2PRequest and processP2PConnection never hand out one client's      *)
(* address under another's name, and lastPeerInfo never holds an address that *)
(* is younger than its connection.                                            *)
THEOREM IntroducedGenuinely == Spec => []GenuineIntroductions
<1>1. PeerInv => GenuineIntroductions BY DEF PeerInv
<1>. QED BY <1>1, PeerAlways, PTL

(* For any clients and connections, the server of this module keeps the table *)
(* of ClientTable, which ServerRegistry is shown to keep goroutine by         *)
(* goroutine: what is taken as one step here, addClient and removeClient, is  *)
(* what the finer module lets a reader see.                                   *)
THEOREM IntroductionRefinesTable == Spec => TableRefinement
<1>1. Init => Table!TableInit
  <2> SUFFICES ASSUME Init PROVE Table!TableInit
    OBVIOUS
  <2>1. PeerInv BY PeerInit
  <2>2. phase = [l \in Links |-> IF l[2] = 1 THEN "open" ELSE "new"]
    BY Zenon DEF Init
  <2>3. Gone = {} /\ Stopped = {} BY <2>2 DEF Gone, Stopped
  <2>4. \A c \in Clients : Entry(c) \in Links \cup {<<>>} BY <2>1, EntryIs
  <2>5. ASSUME NEW c \in Clients, NEW d \in Clients, Entry(c) = Entry(d), Entry(c) # <<>>
        PROVE  c = d
    BY <2>1, <2>4, <2>5, EntryIs
  <2>6. [c \in Clients |-> Entry(c)] \in [Clients -> Links \cup {<<>>}] BY <2>4
  <2>. QED BY <2>3, <2>5, <2>6 DEF Table!TableInit, Entry, Stopped
<1>2. PeerInv /\ PeerInv' /\ Untouched /\ [Next]_vars => [Table!TableNext]_(Table!tableVars)
  BY IntroductionStepRefines
<1>. QED BY <1>1, <1>2, PeerAlways, PTL DEF Spec, TableRefinement, Table!TableSpec

-----------------------------------------------------------------------------
(* NAT types: what is detected, and who connects. *)

Changes == {"honoured", "refused", "ignored"}
Hosts == [nat : RealTypes, ips : Addresses, samePort : BOOLEAN, dials : BOOLEAN]
Detections == [pc : {"next", "test1", "test2", "test3", "test4", "done"}, server : Nat,
               change : Changes, alternate : BOOLEAN, result : NATTypes]

\* The detection ends with a type.
NatInv ==
    /\ host \in Hosts /\ det \in Detections
    /\ det.pc = "done" => det.result \in RealTypes
    /\ NeverFlatters

(* The levels of the types. *)
LEMMA Levels ==
  /\ GetLevel("none") = 0 /\ GetLevel("full") = 1 /\ GetLevel("restricted") = 2
  /\ GetLevel("portRestricted") = 3 /\ GetLevel("symmetric") = 4 /\ GetLevel("unknown") = 5
  BY DEF GetLevel

(* Before the first server is asked. *)
LEMMA NatStarts == NatInit => NatInv
  BY DEF NatInit, NatInv, Unasked, Hosts, Detections, Changes, NATTypes, NeverFlatters

(* A detection that ends: NeverFlatters for its result. *)
LEMMA DetectionEnds ==
  ASSUME NatInv, NEW nat \in RealTypes, Results(nat), UNCHANGED host,
         GetLevel(nat) < GetLevel(host.nat) =>
            \/ nat \in {"full", "restricted"} /\ det.change = "ignored"
            \/ nat = "portRestricted" /\ host.nat = "symmetric"
            \/ nat = "none" /\ hasPublicIP(host.ips)
  PROVE  NatInv'
<1>1. det' = [det EXCEPT !.pc = "done", !.result = nat] BY DEF Results
<1>2. det' \in Detections BY <1>1 DEF NatInv, Detections, NATTypes
<1>3. det'.pc = "done" /\ det'.result = nat /\ det'.change = det.change
  BY <1>1 DEF NatInv, Detections
<1>4. NeverFlatters' BY <1>3 DEF NeverFlatters
<1>. QED BY <1>2, <1>3, <1>4 DEF NatInv

(* Every test keeps the invariant. *)
LEMMA NatStep == NatInv /\ [NatNext]_natVars => NatInv'
<1> SUFFICES ASSUME NatInv, [NatNext]_natVars PROVE NatInv'
  OBVIOUS
<1>1. host.nat \in RealTypes BY DEF NatInv, Hosts
<1>2. ASSUME NEW pc \in {"next", "test1", "test2", "test3", "test4"}, UNCHANGED host,
             det' = [det EXCEPT !.pc = pc]
      PROVE  NatInv'
  <2>1. det' \in Detections /\ det'.pc = pc BY <1>2 DEF NatInv, Detections
  <2>. QED BY <1>2, <2>1 DEF NatInv, NeverFlatters
<1>3. ASSUME NEW change \in Changes, NEW alternate \in BOOLEAN, NextServer(change, alternate)
      PROVE  NatInv'
  <2>1. det' = [det EXCEPT !.pc = "test1", !.server = @ + 1, !.change = change,
                           !.alternate = alternate]
        /\ host' = host
    BY <1>3 DEF NextServer
  <2>2. det.server + 1 \in Nat BY DEF NatInv, Detections
  <2>3. det' \in Detections /\ det'.pc = "test1" BY <2>1, <2>2 DEF NatInv, Detections
  <2>. QED BY <2>1, <2>3 DEF NatInv, NeverFlatters
<1>4. ASSUME NEW lost \in BOOLEAN, Test1(lost) PROVE NatInv'
  <2>1. CASE lost BY <1>2, <1>4, <2>1 DEF Test1
  <2>2. CASE ~ lost /\ host.nat = "none" /\ host.ips # {}
    <3>1. Results("none") /\ UNCHANGED host BY <1>4, <2>2 DEF Test1
    <3>. QED BY <2>2, <3>1, Levels, DetectionEnds DEF RealTypes
  <2>3. CASE ~ lost /\ ~ (host.nat = "none" /\ host.ips # {}) BY <1>2, <1>4, <2>3 DEF Test1
  <2>. QED BY <2>1, <2>2, <2>3
<1>5. ASSUME NEW lost \in BOOLEAN, Test2(lost) PROVE NatInv'
  <2>1. CASE ~ lost /\ ChangedReply(PassesFromIP)
    <3>1. Results("full") /\ UNCHANGED host BY <1>5, <2>1 DEF Test2
    <3>2. det.change = "ignored" \/ host.nat \in {"none", "full"}
      BY <2>1 DEF ChangedReply, PassesFromIP
    <3>. QED BY <3>1, <3>2, Levels, DetectionEnds DEF RealTypes
  <2>2. CASE ~(~ lost /\ ChangedReply(PassesFromIP))
    BY <1>2, <1>5, <2>2 DEF Test2, NatInv
  <2>. QED BY <2>1, <2>2
<1>6. ASSUME NEW lost \in BOOLEAN, Test3(lost) PROVE NatInv'
  <2>1. CASE ~ lost /\ ChangedReply(PassesFromPort)
    <3>1. Results("restricted") /\ UNCHANGED host BY <1>6, <2>1 DEF Test3
    <3>2. det.change = "ignored" \/ host.nat \in {"none", "full", "restricted"}
      BY <2>1 DEF ChangedReply, PassesFromPort
    <3>. QED BY <3>1, <3>2, Levels, DetectionEnds DEF RealTypes
  <2>2. CASE ~(~ lost /\ ChangedReply(PassesFromPort))
    BY <1>2, <1>6, <2>2 DEF Test3, NatInv
  <2>. QED BY <2>1, <2>2
<1>7. ASSUME Results("portRestricted") \/ Results("symmetric"), UNCHANGED host PROVE NatInv'
  <2>1. GetLevel("portRestricted") < GetLevel(host.nat) => host.nat = "symmetric"
    BY <1>1, Levels DEF RealTypes
  <2>2. ~(GetLevel("symmetric") < GetLevel(host.nat)) BY <1>1, Levels DEF RealTypes
  <2>. QED BY <1>7, <2>1, <2>2, DetectionEnds DEF RealTypes
<1>8. ASSUME NEW lost \in BOOLEAN, Test4(lost) PROVE NatInv'
  BY <1>7, <1>8 DEF Test4
<1>9. CASE Fallback
  <2>1. CASE ~ hasPublicIP(host.ips) BY <1>7, <1>9, <2>1 DEF Fallback
  <2>2. CASE hasPublicIP(host.ips)
    <3>1. Results("none") /\ UNCHANGED host BY <1>9, <2>2 DEF Fallback
    <3>. QED BY <2>2, <3>1, DetectionEnds DEF RealTypes
  <2>. QED BY <2>1, <2>2
<1>10. CASE UNCHANGED natVars
  <2>1. host' = host /\ det' = det BY <1>10 DEF natVars
  <2>. QED BY <2>1 DEF NatInv, NeverFlatters
<1>. QED BY <1>3, <1>4, <1>5, <1>6, <1>8, <1>9, <1>10 DEF NatNext, Changes

(* Whatever is lost, refused or ignored, on any number of servers: a type that *)
(* is better than the NAT has one of three causes.                             *)
THEOREM DetectionNeverFlatters == NatSpec => []NeverFlatters
<1>1. NatInv => NeverFlatters BY DEF NatInv
<1>. QED BY <1>1, NatStarts, NatStep, PTL DEF NatSpec


(* Four bytes compared from the left. *)
LEMMA FourBytes ==
  ASSUME NEW s \in [1..4 -> 0..255], NEW t \in [1..4 -> 0..255]
  PROVE  /\ LexLess(s, t, 4) <=> s[4] < t[4]
         /\ LexLess(s, t, 3) <=> s[3] < t[3] \/ (s[3] = t[3] /\ LexLess(s, t, 4))
         /\ LexLess(s, t, 2) <=> s[2] < t[2] \/ (s[2] = t[2] /\ LexLess(s, t, 3))
         /\ LexLess(s, t, 1) <=> s[1] < t[1] \/ (s[1] = t[1] /\ LexLess(s, t, 2))
<1>1. Len(s) = 4 OBVIOUS
<1>2. \A k : k \in 4..4 <=> k = 4 OBVIOUS
<1>3. \A k : k \in 3..4 <=> k = 3 \/ k = 4 OBVIOUS
<1>4. \A k : k \in 2..4 <=> k = 2 \/ k = 3 \/ k = 4 OBVIOUS
<1>5. \A k : k \in 1..4 <=> k = 1 \/ k = 2 \/ k = 3 \/ k = 4 OBVIOUS
<1>6. \A j : /\ j \notin 4..3 /\ j \notin 3..2 /\ j \notin 2..1 /\ j \notin 1..0
             /\ (j \in 3..3 <=> j = 3) /\ (j \in 2..2 <=> j = 2) /\ (j \in 1..1 <=> j = 1)
             /\ (j \in 2..3 <=> j = 2 \/ j = 3) /\ (j \in 1..2 <=> j = 1 \/ j = 2)
             /\ (j \in 1..3 <=> j = 1 \/ j = 2 \/ j = 3)
  OBVIOUS
<1>7. LexLess(s, t, 4) <=> s[4] < t[4]
  BY <1>1, <1>2, <1>6 DEF LexLess
<1>8. LexLess(s, t, 3) <=> s[3] < t[3] \/ (s[3] = t[3] /\ s[4] < t[4])
  BY <1>1, <1>3, <1>6 DEF LexLess
<1>9. LexLess(s, t, 2) <=> s[2] < t[2] \/ (s[2] = t[2] /\ (s[3] < t[3] \/ (s[3] = t[3] /\ s[4] < t[4])))
  BY <1>1, <1>4, <1>6 DEF LexLess
<1>10. LexLess(s, t, 1) <=>
         s[1] < t[1] \/ (s[1] = t[1] /\
           (s[2] < t[2] \/ (s[2] = t[2] /\ (s[3] < t[3] \/ (s[3] = t[3] /\ s[4] < t[4])))))
  BY <1>1, <1>5, <1>6 DEF LexLess
<1>. QED BY <1>7, <1>8, <1>9, <1>10

(* bytesInRange decides at the first byte that differs from the start. *)
LEMMA DecidesAtDifference ==
  ASSUME NEW ip \in [1..4 -> 0..255], NEW start \in [1..4 -> 0..255],
         NEW end \in [1..4 -> 0..255], NEW k \in 1..4,
         \A i \in 1..4 : i < k => ip[i] = start[i], ip[k] # start[k]
  PROVE  bytesInRange(ip, start, end) <=> ip[k] > start[k] /\ ~ LexLess(end, ip, k)
<1> DEFINE skipped == CHOOSE j \in 0..Len(ip) :
                         /\ \A i \in 1..j : ip[i] = start[i]
                         /\ j < Len(ip) => ip[j + 1] # start[j + 1]
<1>1. Len(ip) = 4 OBVIOUS
<1>2. /\ k - 1 \in 0..4 /\ \A i \in 1..(k - 1) : ip[i] = start[i]
      /\ (k - 1) + 1 = k
  OBVIOUS
<1>3. /\ skipped \in 0..4 /\ \A i \in 1..skipped : ip[i] = start[i]
      /\ skipped < 4 => ip[skipped + 1] # start[skipped + 1]
  <2>1. \E j \in 0..Len(ip) : /\ \A i \in 1..j : ip[i] = start[i]
                              /\ j < Len(ip) => ip[j + 1] # start[j + 1]
    <3>1. k - 1 \in 0..Len(ip) /\ ip[(k - 1) + 1] # start[(k - 1) + 1] BY <1>1, <1>2
    <3>. QED BY <1>2, <3>1
  <2>2. /\ skipped \in 0..Len(ip) /\ \A i \in 1..skipped : ip[i] = start[i]
        /\ skipped < Len(ip) => ip[skipped + 1] # start[skipped + 1]
    BY <2>1, Zenon
  <2> HIDE DEF skipped
  <2>. QED BY <1>1, <2>2
<1>4. bytesInRange(ip, start, end) <=>
        IF skipped = Len(ip) THEN ~ LexLess(end, ip, 1)
        ELSE ip[skipped + 1] > start[skipped + 1] /\ ~ LexLess(end, ip, skipped + 1)
  BY DEF bytesInRange, skipped
<1> HIDE DEF skipped
<1>5. skipped < k
  <2> SUFFICES ASSUME ~(skipped < k) PROVE FALSE
    OBVIOUS
  <2>1. k \in 1..skipped BY <1>3
  <2>. QED BY <1>3, <2>1
<1>6. ~(skipped + 1 < k)
  <2> SUFFICES ASSUME skipped + 1 < k PROVE FALSE
    OBVIOUS
  <2>1. skipped + 1 \in 1..4 /\ skipped < 4 BY <1>3
  <2>. QED BY <1>3, <2>1
<1>7. skipped + 1 = k /\ skipped # 4 BY <1>3, <1>5, <1>6
<1>. QED BY <1>1, <1>4, <1>7

(* An address that is the start is compared with the end alone. *)
LEMMA DecidesAtEnd ==
  ASSUME NEW ip \in [1..4 -> 0..255], NEW start \in [1..4 -> 0..255],
         NEW end \in [1..4 -> 0..255], \A i \in 1..4 : ip[i] = start[i]
  PROVE  bytesInRange(ip, start, end) <=> ~ LexLess(end, ip, 1)
<1> DEFINE skipped == CHOOSE j \in 0..Len(ip) :
                         /\ \A i \in 1..j : ip[i] = start[i]
                         /\ j < Len(ip) => ip[j + 1] # start[j + 1]
<1>1. Len(ip) = 4 OBVIOUS
<1>2. /\ skipped \in 0..4
      /\ skipped < 4 => ip[skipped + 1] # start[skipped + 1]
  <2>1. /\ Len(ip) \in 0..Len(ip) /\ \A i \in 1..Len(ip) : ip[i] = start[i]
        /\ Len(ip) < Len(ip) => ip[Len(ip) + 1] # start[Len(ip) + 1]
    BY <1>1
  <2>2. \E j \in 0..Len(ip) : /\ \A i \in 1..j : ip[i] = start[i]
                              /\ j < Len(ip) => ip[j + 1] # start[j + 1]
    BY <2>1
  <2>3. /\ skipped \in 0..Len(ip)
        /\ skipped < Len(ip) => ip[skipped + 1] # start[skipped + 1]
    BY <2>2, Zenon
  <2> HIDE DEF skipped
  <2>. QED BY <1>1, <2>3
<1>3. bytesInRange(ip, start, end) <=>
        IF skipped = Len(ip) THEN ~ LexLess(end, ip, 1)
        ELSE ip[skipped + 1] > start[skipped + 1] /\ ~ LexLess(end, ip, skipped + 1)
  BY DEF bytesInRange, skipped
<1> HIDE DEF skipped
<1>4. ~(skipped < 4)
  <2> SUFFICES ASSUME skipped < 4 PROVE FALSE
    OBVIOUS
  <2>1. skipped + 1 \in 1..4 BY <1>2
  <2>. QED BY <1>2, <2>1
<1>5. skipped = 4 BY <1>2, <1>4
<1>. QED BY <1>1, <1>3, <1>5

(* bytesInRange, byte by byte. *)
LEMMA DecidesByteByByte ==
  ASSUME NEW ip \in [1..4 -> 0..255], NEW start \in [1..4 -> 0..255],
         NEW end \in [1..4 -> 0..255]
  PROVE  /\ ip[1] # start[1] =>
              (bytesInRange(ip, start, end) <=> ip[1] > start[1] /\ ~ LexLess(end, ip, 1))
         /\ ip[1] = start[1] /\ ip[2] # start[2] =>
              (bytesInRange(ip, start, end) <=> ip[2] > start[2] /\ ~ LexLess(end, ip, 2))
         /\ ip[1] = start[1] /\ ip[2] = start[2] /\ ip[3] # start[3] =>
              (bytesInRange(ip, start, end) <=> ip[3] > start[3] /\ ~ LexLess(end, ip, 3))
         /\ ip[1] = start[1] /\ ip[2] = start[2] /\ ip[3] = start[3] /\ ip[4] # start[4] =>
              (bytesInRange(ip, start, end) <=> ip[4] > start[4] /\ ~ LexLess(end, ip, 4))
         /\ ip[1] = start[1] /\ ip[2] = start[2] /\ ip[3] = start[3] /\ ip[4] = start[4] =>
              (bytesInRange(ip, start, end) <=> ~ LexLess(end, ip, 1))
<1>1. ASSUME NEW k \in 1..4, \A i \in 1..4 : i < k => ip[i] = start[i], ip[k] # start[k]
      PROVE  bytesInRange(ip, start, end) <=> ip[k] > start[k] /\ ~ LexLess(end, ip, k)
  BY <1>1, DecidesAtDifference, ZenonT(30)
<1>2. ip[1] # start[1] =>
        (bytesInRange(ip, start, end) <=> ip[1] > start[1] /\ ~ LexLess(end, ip, 1))
  <2> SUFFICES ASSUME ip[1] # start[1]
               PROVE  bytesInRange(ip, start, end) <=> ip[1] > start[1] /\ ~ LexLess(end, ip, 1)
    OBVIOUS
  <2>1. 1 \in 1..4 /\ \A i \in 1..4 : i < 1 => ip[i] = start[i] OBVIOUS
  <2>. QED BY <1>1, <2>1
<1>3. ip[1] = start[1] /\ ip[2] # start[2] =>
        (bytesInRange(ip, start, end) <=> ip[2] > start[2] /\ ~ LexLess(end, ip, 2))
  <2> SUFFICES ASSUME ip[1] = start[1] /\ ip[2] # start[2]
               PROVE  bytesInRange(ip, start, end) <=> ip[2] > start[2] /\ ~ LexLess(end, ip, 2)
    OBVIOUS
  <2>1. 2 \in 1..4 /\ \A i \in 1..4 : i < 2 => ip[i] = start[i] OBVIOUS
  <2>. QED BY <1>1, <2>1
<1>4. ip[1] = start[1] /\ ip[2] = start[2] /\ ip[3] # start[3] =>
        (bytesInRange(ip, start, end) <=> ip[3] > start[3] /\ ~ LexLess(end, ip, 3))
  <2> SUFFICES ASSUME ip[1] = start[1] /\ ip[2] = start[2] /\ ip[3] # start[3]
               PROVE  bytesInRange(ip, start, end) <=> ip[3] > start[3] /\ ~ LexLess(end, ip, 3)
    OBVIOUS
  <2>1. 3 \in 1..4 /\ \A i \in 1..4 : i < 3 => ip[i] = start[i] OBVIOUS
  <2>. QED BY <1>1, <2>1
<1>5. ip[1] = start[1] /\ ip[2] = start[2] /\ ip[3] = start[3] /\ ip[4] # start[4] =>
        (bytesInRange(ip, start, end) <=> ip[4] > start[4] /\ ~ LexLess(end, ip, 4))
  <2> SUFFICES ASSUME ip[1] = start[1] /\ ip[2] = start[2] /\ ip[3] = start[3] /\ ip[4] # start[4]
               PROVE  bytesInRange(ip, start, end) <=> ip[4] > start[4] /\ ~ LexLess(end, ip, 4)
    OBVIOUS
  <2>1. 4 \in 1..4 /\ \A i \in 1..4 : i < 4 => ip[i] = start[i] OBVIOUS
  <2>. QED BY <1>1, <2>1
<1>6. ip[1] = start[1] /\ ip[2] = start[2] /\ ip[3] = start[3] /\ ip[4] = start[4] =>
        (bytesInRange(ip, start, end) <=> ~ LexLess(end, ip, 1))
  <2> SUFFICES ASSUME ip[1] = start[1] /\ ip[2] = start[2] /\ ip[3] = start[3] /\ ip[4] = start[4]
               PROVE  bytesInRange(ip, start, end) <=> ~ LexLess(end, ip, 1)
    OBVIOUS
  <2>1. \A i \in 1..4 : ip[i] = start[i] OBVIOUS
  <2>. QED BY <2>1, DecidesAtEnd
<1>. QED BY <1>2, <1>3, <1>4, <1>5, <1>6

(* One pass over the bytes is enough for a range whose end has only 255s after *)
(* the first byte in which it differs from the start, said byte by byte.       *)
LEMMA BlocksByByte ==
  ASSUME NEW ip \in [1..4 -> 0..255], NEW start \in [1..4 -> 0..255],
         NEW end \in [1..4 -> 0..255],
         \/ start[1] <= end[1] /\ end[2] = 255 /\ end[3] = 255 /\ end[4] = 255
         \/ start[1] = end[1] /\ start[2] <= end[2] /\ end[3] = 255 /\ end[4] = 255
         \/ start[1] = end[1] /\ start[2] = end[2] /\ start[3] <= end[3] /\ end[4] = 255
         \/ start[1] = end[1] /\ start[2] = end[2] /\ start[3] = end[3] /\ start[4] <= end[4]
  PROVE  bytesInRange(ip, start, end) <=>
           ~ LexLess(ip, start, 1) /\ ~ LexLess(end, ip, 1)
<1> DEFINE a1 == ip[1]    s1 == start[1]    e1 == end[1]
           a2 == ip[2]    s2 == start[2]    e2 == end[2]
           a3 == ip[3]    s3 == start[3]    e3 == end[3]
           a4 == ip[4]    s4 == start[4]    e4 == end[4]
           Below == a1 < s1 \/ (a1 = s1 /\ (a2 < s2 \/ (a2 = s2 /\
                      (a3 < s3 \/ (a3 = s3 /\ a4 < s4)))))
           Above4 == e4 < a4
           Above3 == e3 < a3 \/ (e3 = a3 /\ Above4)
           Above2 == e2 < a2 \/ (e2 = a2 /\ Above3)
           Above1 == e1 < a1 \/ (e1 = a1 /\ Above2)
<1>1. /\ a1 \in 0..255 /\ a2 \in 0..255 /\ a3 \in 0..255 /\ a4 \in 0..255
      /\ s1 \in 0..255 /\ s2 \in 0..255 /\ s3 \in 0..255 /\ s4 \in 0..255
      /\ e1 \in 0..255 /\ e2 \in 0..255 /\ e3 \in 0..255 /\ e4 \in 0..255
  OBVIOUS
<1>2. \/ s1 <= e1 /\ e2 = 255 /\ e3 = 255 /\ e4 = 255
      \/ s1 = e1 /\ s2 <= e2 /\ e3 = 255 /\ e4 = 255
      \/ s1 = e1 /\ s2 = e2 /\ s3 <= e3 /\ e4 = 255
      \/ s1 = e1 /\ s2 = e2 /\ s3 = e3 /\ s4 <= e4
  OBVIOUS
<1>3. LexLess(ip, start, 1) <=> Below
  <2>1. /\ LexLess(ip, start, 4) <=> a4 < s4
        /\ LexLess(ip, start, 3) <=> a3 < s3 \/ (a3 = s3 /\ LexLess(ip, start, 4))
        /\ LexLess(ip, start, 2) <=> a2 < s2 \/ (a2 = s2 /\ LexLess(ip, start, 3))
        /\ LexLess(ip, start, 1) <=> a1 < s1 \/ (a1 = s1 /\ LexLess(ip, start, 2))
    BY FourBytes
  <2> HIDE DEF a1, a2, a3, a4, s1, s2, s3, s4
  <2>. QED BY <2>1, Zenon
<1>4. /\ LexLess(end, ip, 1) <=> Above1
      /\ LexLess(end, ip, 2) <=> Above2
      /\ LexLess(end, ip, 3) <=> Above3
      /\ LexLess(end, ip, 4) <=> Above4
  <2>1. /\ LexLess(end, ip, 4) <=> e4 < a4
        /\ LexLess(end, ip, 3) <=> e3 < a3 \/ (e3 = a3 /\ LexLess(end, ip, 4))
        /\ LexLess(end, ip, 2) <=> e2 < a2 \/ (e2 = a2 /\ LexLess(end, ip, 3))
        /\ LexLess(end, ip, 1) <=> e1 < a1 \/ (e1 = a1 /\ LexLess(end, ip, 2))
    BY FourBytes
  <2> HIDE DEF a1, a2, a3, a4, e1, e2, e3, e4
  <2>. QED BY <2>1, Zenon
<1>5. /\ a1 # s1 => (bytesInRange(ip, start, end) <=> a1 > s1 /\ ~ LexLess(end, ip, 1))
      /\ a1 = s1 /\ a2 # s2 =>
           (bytesInRange(ip, start, end) <=> a2 > s2 /\ ~ LexLess(end, ip, 2))
      /\ a1 = s1 /\ a2 = s2 /\ a3 # s3 =>
           (bytesInRange(ip, start, end) <=> a3 > s3 /\ ~ LexLess(end, ip, 3))
      /\ a1 = s1 /\ a2 = s2 /\ a3 = s3 /\ a4 # s4 =>
           (bytesInRange(ip, start, end) <=> a4 > s4 /\ ~ LexLess(end, ip, 4))
      /\ a1 = s1 /\ a2 = s2 /\ a3 = s3 /\ a4 = s4 =>
           (bytesInRange(ip, start, end) <=> ~ LexLess(end, ip, 1))
  BY DecidesByteByByte, ZenonT(30)
<1> HIDE DEF a1, a2, a3, a4, s1, s2, s3, s4, e1, e2, e3, e4
<1>6. CASE a1 # s1
  <2>1. Below <=> ~(a1 > s1) BY <1>1, <1>6
  <2> HIDE DEF Below
  <2>. QED BY <1>3, <1>5, <1>6, <2>1
<1>7. CASE a1 = s1 /\ a2 # s2
  <2>1. Below <=> ~(a2 > s2) BY <1>1, <1>7
  <2>2. Above1 <=> Above2 BY <1>1, <1>2, <1>7
  <2> HIDE DEF Below, Above1, Above2, Above3, Above4
  <2>. QED BY <1>3, <1>4, <1>5, <1>7, <2>1, <2>2
<1>8. CASE a1 = s1 /\ a2 = s2 /\ a3 # s3
  <2>1. Below <=> ~(a3 > s3) BY <1>1, <1>8
  <2>2. Above1 <=> Above3 BY <1>1, <1>2, <1>8
  <2> HIDE DEF Below, Above1, Above2, Above3, Above4
  <2>. QED BY <1>3, <1>4, <1>5, <1>8, <2>1, <2>2
<1>9. CASE a1 = s1 /\ a2 = s2 /\ a3 = s3 /\ a4 # s4
  <2>1. Below <=> ~(a4 > s4) BY <1>1, <1>9
  <2>2. Above1 <=> Above4 BY <1>1, <1>2, <1>9
  <2> HIDE DEF Below, Above1, Above2, Above3, Above4
  <2>. QED BY <1>3, <1>4, <1>5, <1>9, <2>1, <2>2
<1>10. CASE a1 = s1 /\ a2 = s2 /\ a3 = s3 /\ a4 = s4
  <2>1. ~ Below BY <1>1, <1>10
  <2> HIDE DEF Below
  <2>. QED BY <1>3, <1>5, <1>10, <2>1
<1>. QED BY <1>6, <1>7, <1>8, <1>9, <1>10

(* So it is for every block of addresses with a common prefix.  (For other     *)
(* ranges it is not.)                                                          *)
LEMMA BlocksAreExact ==
  ASSUME NEW ip \in [1..4 -> 0..255], NEW start \in [1..4 -> 0..255],
         NEW end \in [1..4 -> 0..255], NEW m \in 1..4,
         \A i \in 1..4 : i < m => start[i] = end[i],
         start[m] <= end[m],
         \A i \in 1..4 : i > m => end[i] = 255
  PROVE  bytesInRange(ip, start, end) <=>
           ~ LexLess(ip, start, 1) /\ ~ LexLess(end, ip, 1)
<1>1. m = 1 \/ m = 2 \/ m = 3 \/ m = 4 OBVIOUS
<1>2. \/ start[1] <= end[1] /\ end[2] = 255 /\ end[3] = 255 /\ end[4] = 255
      \/ start[1] = end[1] /\ start[2] <= end[2] /\ end[3] = 255 /\ end[4] = 255
      \/ start[1] = end[1] /\ start[2] = end[2] /\ start[3] <= end[3] /\ end[4] = 255
      \/ start[1] = end[1] /\ start[2] = end[2] /\ start[3] = end[3] /\ start[4] <= end[4]
  BY <1>1
<1>. QED BY <1>2, BlocksByByte

(* The ranges of isPrivateIP are such blocks, so it is right about every IPv4  *)
(* address.                                                                    *)
THEOREM PrivateRangesExact == NatSpec => []RangesAreExact
<1>1. NatInv => RangesAreExact
  <2> SUFFICES ASSUME NatInv, NEW ip \in host.ips, NEW r \in privateRanges
               PROVE  bytesInRange(ip, r.start, r.end) <=>
                        ~ LexLess(ip, r.start, 1) /\ ~ LexLess(r.end, ip, 1)
    BY DEF RangesAreExact
  <2>1. ip \in [1..4 -> 0..255]
    <3>1. host.ips \in Addresses BY DEF NatInv, Hosts
    <3>. QED BY <3>1, DetectionAssumption
  <2>2. r.start \in [1..4 -> 0..255] /\ r.end \in [1..4 -> 0..255] BY DEF privateRanges
  <2>3. PICK m \in 1..4 : /\ \A i \in 1..4 : i < m => r.start[i] = r.end[i]
                          /\ r.start[m] <= r.end[m]
                          /\ \A i \in 1..4 : i > m => r.end[i] = 255
    <3>1. \A i \in 1..4 : i = 1 \/ i = 2 \/ i = 3 \/ i = 4 OBVIOUS
    <3>2. CASE r = [start |-> <<10, 0, 0, 0>>, end |-> <<10, 255, 255, 255>>]
      <4> WITNESS 1 \in 1..4
      <4>. QED BY <3>1, <3>2
    <3>3. CASE r = [start |-> <<172, 16, 0, 0>>, end |-> <<172, 31, 255, 255>>]
      <4> WITNESS 2 \in 1..4
      <4>. QED BY <3>1, <3>3
    <3>4. CASE r = [start |-> <<192, 168, 0, 0>>, end |-> <<192, 168, 255, 255>>]
      <4> WITNESS 2 \in 1..4
      <4>. QED BY <3>1, <3>4
    <3>. QED BY <3>2, <3>3, <3>4 DEF privateRanges
  <2> DEFINE start == r.start
             end == r.end
  <2>4. /\ ip \in [1..4 -> 0..255] /\ start \in [1..4 -> 0..255] /\ end \in [1..4 -> 0..255]
        /\ \A i \in 1..4 : i < m => start[i] = end[i]
        /\ start[m] <= end[m]
        /\ \A i \in 1..4 : i > m => end[i] = 255
    BY <2>1, <2>2, <2>3, Zenon
  <2> HIDE DEF start, end
  <2>5. bytesInRange(ip, start, end) <=> ~ LexLess(ip, start, 1) /\ ~ LexLess(end, ip, 1)
    BY <2>4, BlocksAreExact, ZenonT(30)
  <2>. QED BY <2>5 DEF start, end
<1>. QED BY <1>1, NatStarts, NatStep, PTL DEF NatSpec

(* Who connects, once both types are known: the better type, then the smaller  *)
(* port, then the smaller octet.                                               *)
THEOREM ExactlyOneInitiates == NatSpec => []OneInitiator
<1>1. NatInv => OneInitiator
  <2> SUFFICES ASSUME NatInv, det.pc = "done", NEW nat \in RealTypes,
                      NEW p \in Ports, NEW q \in Ports, NEW i \in Octets, NEW j \in Octets,
                      NEW me, me = [nat |-> det.result, port |-> p, octet |-> i],
                      NEW peer, peer = [nat |-> nat, port |-> q, octet |-> j]
               PROVE  /\ ~ (Initiates(me, peer) /\ Initiates(peer, me))
                      /\ \/ Initiates(me, peer) \/ Initiates(peer, me)
                         \/ me.nat = "symmetric" /\ peer.nat = "symmetric"
                         \/ p = q /\ i = j
    BY DEF OneInitiator
  <2> DEFINE mine == det.result
  <2>1. mine \in RealTypes BY DEF NatInv
  <2>2. p \in Int /\ q \in Int /\ i \in Int /\ j \in Int BY DetectionAssumption
  <2>3. "unknown" \notin {mine, nat} BY <2>1 DEF RealTypes
  <2>4. GetLevel(mine) \in Int /\ GetLevel(nat) \in Int BY <2>1, Levels DEF RealTypes
  <2> HIDE DEF mine
  <2>5. Initiates(me, peer) <=>
          /\ CanTraverseWith(mine, nat)
          /\ \/ GetLevel(mine) < GetLevel(nat)
             \/ GetLevel(mine) = GetLevel(nat) /\ (p < q \/ (p = q /\ i < j))
    BY <2>3 DEF Initiates, CanEstablishP2PWith, ShouldInitiateConnection, mine
  <2>6. Initiates(peer, me) <=>
          /\ CanTraverseWith(nat, mine)
          /\ \/ GetLevel(nat) < GetLevel(mine)
             \/ GetLevel(nat) = GetLevel(mine) /\ (q < p \/ (q = p /\ j < i))
    BY <2>3 DEF Initiates, CanEstablishP2PWith, ShouldInitiateConnection, mine
  <2>7. (CanTraverseWith(mine, nat) /\ CanTraverseWith(nat, mine))
        \/ (mine = "symmetric" /\ nat = "symmetric")
    BY <2>1 DEF CanTraverseWith, RealTypes
  <2>8. ~ (Initiates(me, peer) /\ Initiates(peer, me)) BY <2>2, <2>4, <2>5, <2>6
  <2>9. \/ Initiates(me, peer) \/ Initiates(peer, me)
        \/ mine = "symmetric" /\ nat = "symmetric"
        \/ p = q /\ i = j
    BY <2>2, <2>4, <2>5, <2>6, <2>7
  <2>. QED BY <2>8, <2>9 DEF mine
<1>. QED BY <1>1, NatStarts, NatStep, PTL DEF NatSpec

=============================================================================
