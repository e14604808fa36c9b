------------------------ MODULE ServerRegistryProofs ------------------------
(***************************************************************************)
(* The registry invariants for any number of connections, IPs and routes.  *)
(* TypeOK is not inductive by itself (broadcastPeerDisconnect needs the    *)
(* connection to have an IP), so types and RegistryInv go together.  With  *)
(* them the registry implements ClientTable.                               *)
(***************************************************************************)
EXTENDS ServerRegistry, TLAPS

(* The invariant holds before the server accepts its first connection. *)
LEMMA RegistryInit == Init => TypeOK /\ RegistryInv
  BY RegistryAssumption
  DEF Init, TypeOK, RegistryInv, RegistryEntryAlive, LiveOwnerReachable, CleanedHasNoRoutes

(* Every step of clientNetReader keeps the invariant; only addClient and     *)
(* registerClientRoutes touch the maps.                                      *)
LEMMA ReaderKeepsInv ==
  ASSUME TypeOK, RegistryInv, NEW c \in Conns, ReaderStep(c)
  PROVE  TypeOK' /\ RegistryInv'
<1> USE RegistryAssumption
    DEF TypeOK, RegistryInv, RegistryEntryAlive, LiveOwnerReachable,
        CleanedHasNoRoutes, goroutineVars, registryVars, routeVars
<1>1. CASE ReaderLoop(c) BY <1>1 DEF ReaderLoop
<1>2. CASE ReaderFails(c) BY <1>2 DEF ReaderFails
<1>3. CASE ReaderHandles(c) BY <1>3 DEF ReaderHandles
<1>4. CASE ReaderTunWriteFails(c) BY <1>4 DEF ReaderTunWriteFails
<1>5. ASSUME NEW ip \in IPs, ReaderRegisters(c, ip) PROVE TypeOK' /\ RegistryInv'
  <2>1. TypeOK' BY <1>5 DEF ReaderRegisters, addClient
  <2>2. pc[c] = "serving" /\ pc' = pc BY <1>5 DEF ReaderRegisters
  <2>3. RegistryEntryAlive'
    <3> SUFFICES ASSUME NEW i \in IPs, clients'[i] # NoConn
                 PROVE  clientIP'[clients'[i]] = i /\ pc'[clients'[i]] \in {"serving", "untracked"}
      OBVIOUS
    <3>1. CASE i = ip BY <1>5, <2>2, <3>1 DEF ReaderRegisters, addClient
    <3>2. CASE i # ip
      <4>1. clients'[i] = clients[i] /\ clients[i] # c
        BY <1>5, <3>2 DEF ReaderRegisters, addClient
      <4>. QED BY <1>5, <2>2, <4>1 DEF ReaderRegisters, addClient
    <3>. QED BY <3>1, <3>2
  <2>4. LiveOwnerReachable'
    <3> SUFFICES ASSUME NEW d \in Conns, clientIP'[d] # NoIP, d \notin stopped', pc'[d] = "serving"
                 PROVE  clients'[clientIP'[d]] = d
      OBVIOUS
    <3>1. CASE d = c BY <1>5, <3>1 DEF ReaderRegisters, addClient
    <3>2. CASE d # c
      <4>1. clientIP'[d] = clientIP[d] /\ d \notin stopped /\ pc[d] = "serving"
        BY <1>5, <2>2, <3>2 DEF ReaderRegisters, addClient
      <4>2. clients[clientIP[d]] = d BY <4>1
      <4>3. clientIP[d] # ip BY <1>5, <4>1, <4>2 DEF ReaderRegisters, addClient
      <4>. QED BY <1>5, <4>1, <4>2, <4>3 DEF ReaderRegisters, addClient
    <3>. QED BY <3>1, <3>2
  <2>5. CleanedHasNoRoutes' BY <1>5, <2>2 DEF ReaderRegisters, addClient
  <2>. QED BY <1>5, <2>1, <2>2, <2>3, <2>4, <2>5 DEF ReaderRegisters, addClient
<1>6. ASSUME NEW rs \in SUBSET Routes, ReaderAdvertises(c, rs) PROVE TypeOK' /\ RegistryInv'
  BY <1>6 DEF ReaderAdvertises
<1>7. ASSUME NEW r \in Routes, ReaderInstalls(c, r) PROVE TypeOK' /\ RegistryInv'
  BY <1>7 DEF ReaderInstalls
<1>. QED BY <1>1, <1>2, <1>3, <1>4, <1>5, <1>6, <1>7 DEF ReaderStep

(* Every step of handleClient keeps the invariant: the ownership check of    *)
(* removeClient is what LiveOwnerReachable needs.                            *)
LEMMA HandlerKeepsInv ==
  ASSUME TypeOK, RegistryInv, NEW c \in Conns, HandlerStep(c)
  PROVE  TypeOK' /\ RegistryInv'
<1> USE RegistryAssumption
    DEF TypeOK, RegistryInv, RegistryEntryAlive, LiveOwnerReachable,
        CleanedHasNoRoutes, goroutineVars, registryVars, routeVars
<1>1. CASE StartHandling(c) BY <1>1 DEF StartHandling
<1>2. CASE Untrack(c) BY <1>2 DEF Untrack
<1>3. CASE Unregister(c)
  <2>1. TypeOK' BY <1>3 DEF Unregister
  <2>2. RegistryEntryAlive' BY <1>3 DEF Unregister
  <2>3. LiveOwnerReachable' BY <1>3 DEF Unregister
  <2>. QED BY <1>3, <2>1, <2>2, <2>3 DEF Unregister
<1>4. CASE CleanupRoutes(c) BY <1>4 DEF CleanupRoutes
<1>5. CASE BroadcastDisconnect(c)
  <2>1. clientIP[c] \in IPs BY <1>5 DEF BroadcastDisconnect
  <2>2. notices' \in [Conns -> SUBSET IPs] BY <1>5, <2>1 DEF BroadcastDisconnect
  <2>. QED BY <1>5, <2>2 DEF BroadcastDisconnect
<1>. QED BY <1>1, <1>2, <1>3, <1>4, <1>5 DEF HandlerStep

(* Every step of the server keeps the invariant. *)
LEMMA NextKeepsInv == TypeOK /\ RegistryInv /\ [Next]_vars => TypeOK' /\ RegistryInv'
<1> SUFFICES ASSUME TypeOK, RegistryInv, [Next]_vars PROVE TypeOK' /\ RegistryInv'
  OBVIOUS
<1>1. ASSUME NEW c \in Conns, AcceptClient(c) PROVE TypeOK' /\ RegistryInv'
  BY <1>1, RegistryAssumption
  DEF AcceptClient, TypeOK, RegistryInv, RegistryEntryAlive, LiveOwnerReachable,
      CleanedHasNoRoutes, goroutineVars, registryVars, routeVars
<1>2. ASSUME NEW c \in Conns, ReaderStep(c) PROVE TypeOK' /\ RegistryInv'
  BY <1>2, ReaderKeepsInv
<1>3. ASSUME NEW c \in Conns, HelperStep(c) PROVE TypeOK' /\ RegistryInv'
  BY <1>3 DEF HelperStep, WriteFails, HelperExits, TypeOK, RegistryInv, RegistryEntryAlive,
              LiveOwnerReachable, CleanedHasNoRoutes, registryVars, routeVars
<1>4. ASSUME NEW c \in Conns, HandlerStep(c) PROVE TypeOK' /\ RegistryInv'
  BY <1>4, HandlerKeepsInv
<1>5. CASE StopStep
  BY <1>5, RegistryAssumption
  DEF StopStep, StopSignal, StopRegistered, StopTracked, CloseAndStop, Registered, TypeOK,
      RegistryInv, RegistryEntryAlive, LiveOwnerReachable, CleanedHasNoRoutes,
      goroutineVars, registryVars, routeVars
<1>6. CASE UNCHANGED vars
  BY <1>6 DEF vars, TypeOK, RegistryInv, RegistryEntryAlive, LiveOwnerReachable,
              CleanedHasNoRoutes
<1>. QED BY <1>1, <1>2, <1>3, <1>4, <1>5, <1>6 DEF Next

(* Types, goroutine lifetimes, ownership of IPs and the route cleanup of       *)
(* removeClient hold along every behaviour of the server.                      *)
THEOREM RegistryInvariant == Spec => [](TypeOK /\ RegistryInv)
<1>1. QED BY RegistryInit, NextKeepsInv, PTL DEF Spec

(* Every variable of the server registry keeps its type. *)
THEOREM TypeCorrect == Spec => []TypeOK
<1>1. QED BY RegistryInvariant, PTL

(* Tearing down a connection never cuts off the connection that replaced it: *)
(* addClient and removeClient keep t.clients pointing at the live owner.      *)
THEOREM OwnerReachable == Spec => [](LiveOwnerReachable /\ RegistryEntryAlive)
<1>1. RegistryInv => LiveOwnerReachable /\ RegistryEntryAlive
  BY DEF RegistryInv
<1>. QED BY <1>1, RegistryInvariant, PTL

(* removeClient leaves no route behind: once a connection that had an IP has   *)
(* been cleaned up, neither route map names it, whichever order its goroutines, *)
(* its replacement and Stop ran in.                                            *)
THEOREM RoutesGoWithConnection == Spec => []CleanedHasNoRoutes
<1>1. RegistryInv => CleanedHasNoRoutes
  BY DEF RegistryInv
<1>. QED BY <1>1, RegistryInvariant, PTL

(* addClient, and removeClient under clientsMux, are the claim and the leave of *)
(* the table; nothing else touches it.                                          *)
LEMMA RegistryStepRefines ==
  ASSUME TypeOK, RegistryInv, TypeOK', [Next]_vars
  PROVE  [Table!TableNext]_(Table!tableVars)
<1>1. ASSUME UNCHANGED clients, Finished' = Finished, stopped \subseteq stopped'
      PROVE  Table!Tell
  <2>1. Finished' \subseteq Conns BY DEF Finished
  <2>2. stopped' \subseteq Conns BY DEF TypeOK
  <2>. QED BY <1>1, <2>1, <2>2 DEF Table!Tell
<1>2. ASSUME NEW c \in Conns, NEW ip \in IPs, ReaderRegisters(c, ip) PROVE Table!Claim(c, ip)
  <2>1. clientIP[c] = NoIP /\ reader[c] = "read" /\ pc' = pc BY <1>2 DEF ReaderRegisters
  <2>2. pc[c] = "serving" BY <2>1 DEF RegistryInv
  <2>3. c \notin Finished BY <2>2 DEF Finished
  <2>4. \A i \in IPs : clients[i] # c
    BY <2>1, RegistryAssumption DEF RegistryInv, RegistryEntryAlive
  <2>5. clients' = [clients EXCEPT ![ip] = c] BY <1>2 DEF ReaderRegisters, addClient
  <2>6. stopped' = stopped \cup ({clients[ip]} \ (stopped \cup {NoConn}))
    BY <1>2 DEF ReaderRegisters, addClient
  <2>7. Finished' = Finished BY <2>1 DEF Finished
  <2>8. (stopped \cup Finished)' = stopped \cup Finished \cup ({clients[ip]} \ {NoConn})
    BY <2>6, <2>7
  <2>. QED BY <2>3, <2>4, <2>5, <2>7, <2>8 DEF Table!Claim
<1>3. ASSUME NEW c \in Conns, Unregister(c) PROVE Table!Leave(c)
  <2>1. pc[c] = "untracked" /\ stopped' = stopped
        /\ pc' = [pc EXCEPT ![c] = IF clientIP[c] = NoIP THEN "gone" ELSE "unregistered"]
    BY <1>3 DEF Unregister
  <2>2. c \notin Finished BY <2>1 DEF Finished
  <2>3. Finished' = Finished \cup {c} BY <2>1 DEF Finished, TypeOK
  <2>4. clients' = [i \in IPs |-> IF clients[i] = c THEN NoConn ELSE clients[i]]
    <3>1. \A i \in IPs : clients[i] = c => clientIP[c] = i
      BY RegistryAssumption DEF RegistryInv, RegistryEntryAlive
    <3>. QED BY <1>3, <3>1 DEF Unregister
  <2>5. (stopped \cup Finished)' = stopped \cup Finished \cup {c} BY <2>1, <2>3
  <2>. QED BY <2>2, <2>3, <2>4, <2>5 DEF Table!Leave
<1>4. ASSUME NEW c \in Conns, AcceptClient(c) \/ StartHandling(c) \/ Untrack(c)
      PROVE  UNCHANGED clients /\ Finished' = Finished /\ stopped' = stopped
  BY <1>4 DEF AcceptClient, StartHandling, Untrack, Finished, TypeOK, registryVars
<1>5. ASSUME NEW c \in Conns, CleanupRoutes(c) \/ BroadcastDisconnect(c)
      PROVE  UNCHANGED clients /\ Finished' = Finished /\ stopped' = stopped
  BY <1>5 DEF CleanupRoutes, BroadcastDisconnect, Finished, TypeOK, registryVars
<1>6. ASSUME NEW c \in Conns,
             \/ ReaderLoop(c) \/ ReaderFails(c) \/ ReaderHandles(c) \/ ReaderTunWriteFails(c)
             \/ \E rs \in SUBSET Routes : ReaderAdvertises(c, rs)
             \/ \E r \in Routes : ReaderInstalls(c, r)
             \/ HelperStep(c)
      PROVE  UNCHANGED clients /\ Finished' = Finished /\ stopped \subseteq stopped'
  BY <1>6 DEF ReaderLoop, ReaderFails, ReaderHandles, ReaderTunWriteFails, ReaderAdvertises,
              ReaderInstalls, HelperStep, WriteFails, HelperExits, Finished, registryVars
<1>7. ASSUME StopStep
      PROVE  UNCHANGED clients /\ Finished' = Finished /\ stopped \subseteq stopped'
  BY <1>7 DEF StopStep, StopSignal, StopRegistered, StopTracked, CloseAndStop, Finished,
              registryVars
<1>8. CASE UNCHANGED vars
  BY <1>8 DEF vars, Table!tableVars, Finished
<1>9. ASSUME NEW c \in Conns, ReaderStep(c) PROVE Table!TableNext
  <2>1. CASE \E ip \in IPs : ReaderRegisters(c, ip) BY <1>2, <2>1 DEF Table!TableNext
  <2>2. CASE ~ \E ip \in IPs : ReaderRegisters(c, ip)
    <3>1. UNCHANGED clients /\ Finished' = Finished /\ stopped \subseteq stopped'
      BY <1>6, <1>9, <2>2 DEF ReaderStep
    <3>. QED BY <1>1, <3>1 DEF Table!TableNext
  <2>. QED BY <2>1, <2>2
<1>10. ASSUME NEW c \in Conns, HandlerStep(c) PROVE Table!TableNext
  <2>1. CASE Unregister(c) BY <1>3, <2>1 DEF Table!TableNext
  <2>2. CASE ~ Unregister(c)
    <3>1. UNCHANGED clients /\ Finished' = Finished /\ stopped' = stopped
      BY <1>4, <1>5, <1>10, <2>2 DEF HandlerStep
    <3>. QED BY <1>1, <3>1 DEF Table!TableNext
  <2>. QED BY <2>1, <2>2
<1>11. ASSUME NEW c \in Conns, AcceptClient(c) \/ HelperStep(c) PROVE Table!TableNext
  <2>1. UNCHANGED clients /\ Finished' = Finished /\ stopped \subseteq stopped'
    BY <1>4, <1>6, <1>11
  <2>. QED BY <1>1, <2>1 DEF Table!TableNext
<1>12. CASE StopStep BY <1>1, <1>7, <1>12 DEF Table!TableNext
<1>. QED BY <1>8, <1>9, <1>10, <1>11, <1>12 DEF Next

(* For any number of connections and IPs, clientsMux, the goroutines of the    *)
(* connections and Stop implement ClientTable: an IP changes hands by addClient *)
(* alone, and removeClient takes no other connection's entry.                   *)
THEOREM RegistryRefinesTable == Spec => TableRefinement
<1>1. Init => Table!TableInit
  <2> SUFFICES ASSUME Init PROVE Table!TableInit OBVIOUS
  <2>1. clients = [ip \in IPs |-> NoConn] /\ stopped = {} BY DEF Init
  <2>2. Finished = {} BY DEF Init, Finished
  <2>. QED BY <2>1, <2>2 DEF Table!TableInit
<1>2. TypeOK /\ RegistryInv /\ (TypeOK /\ RegistryInv)' /\ [Next]_vars
        => [Table!TableNext]_(Table!tableVars)
  BY RegistryStepRefines
<1>. QED
  BY <1>1, <1>2, RegistryInvariant, PTL DEF Spec, TableRefinement, Table!TableSpec
=============================================================================
