------------------------- MODULE KeyRotationProofs -------------------------
(***************************************************************************)
(* For any number of clients, keys, packets, losses, reconnections, failed *)
(* writes and restarts: clients never get ahead of the server outside a    *)
(* push, unless it came back without its newest key (because it ended in a *)
(* push or its last write had failed) and has not completed a push since.  *)
(* A previous cipher goes only for a cause, never for the timer of another *)
(* rotation.                                                               *)
(***************************************************************************)
EXTENDS KeyRotation, TLAPS

(* The nodes start with the same key. *)
LEMMA RotationInit == Init => TypeOK /\ KeyInv
<1>1. Init => unsaved \in BOOLEAN /\ behind \in BOOLEAN BY DEF Init
<1>2. Init => TypeOK BY <1>1, RotationAssumption DEF Init, TypeOK, Nodes, Keys
<1>3. Init => KeyInv BY RotationAssumption DEF Init, KeyInv, Nodes
<1>. QED BY <1>2, <1>3

(* What encryptForClient returns is a key. *)
LEMMA EncryptForClientType ==
  ASSUME TypeOK, NEW c \in Clients
  PROVE  encryptForClient(c) \in Keys
  BY DEF TypeOK, encryptForClient, Nodes

(* Every step keeps the types. *)
LEMMA RotationTypes == TypeOK /\ [Next]_vars => TypeOK'
<1> SUFFICES ASSUME TypeOK, [Next]_vars PROVE TypeOK'
  OBVIOUS
<1> USE RotationAssumption DEF TypeOK, Nodes, Keys, faultVars
<1>1. CASE PushStart BY <1>1 DEF PushStart
<1>2. ASSUME NEW c \in Clients, PushSend(c) PROVE TypeOK'
  BY <1>2, EncryptForClientType DEF PushSend
<1>3. CASE PushRotate
  <2>1. behind' \in BOOLEAN /\ unsaved' \in BOOLEAN BY <1>3 DEF PushRotate
  <2>. QED BY <1>3, <2>1 DEF PushRotate, rotateCipher
<1>4. CASE PushPersist BY <1>4 DEF PushPersist, persistKeyToConfigFile
<1>5. ASSUME NEW c \in Clients, ClientSend(c) PROVE TypeOK'
  BY <1>5 DEF ClientSend
<1>6. ASSUME NEW c \in Clients, ServerSend(c) PROVE TypeOK'
  BY <1>6, EncryptForClientType DEF ServerSend
<1>7. ASSUME NEW c \in Clients, Reconnect(c) PROVE TypeOK'
  BY <1>7 DEF Reconnect
<1>8. ASSUME NEW m \in up, ServerReceive(m) PROVE TypeOK'
  BY <1>8 DEF ServerReceive, PrevAfterReading
<1>9. ASSUME NEW m \in down, ClientReceive(m) PROVE TypeOK'
  BY <1>9 DEF ClientReceive, rotateCipher, persistKeyToConfigFile, PrevAfterReading
<1>10. ASSUME NEW n \in Nodes, NEW k \in Keys, expirePrevCipher(n, k) PROVE TypeOK'
  BY <1>10 DEF expirePrevCipher
<1>11. CASE Lose BY <1>11 DEF Lose
<1>12. CASE ServerRestart
  <2>1. behind' \in BOOLEAN /\ unsaved' \in BOOLEAN BY <1>12 DEF ServerRestart
  <2>. QED BY <1>12, <2>1 DEF ServerRestart, RestartNode
<1>13. ASSUME NEW c \in Clients, ClientRestart(c) PROVE TypeOK'
  BY <1>13 DEF ClientRestart, RestartNode
<1>14. CASE UNCHANGED vars BY <1>14 DEF vars
<1>. QED
  BY <1>1, <1>2, <1>3, <1>4, <1>5, <1>6, <1>7, <1>8, <1>9, <1>10, <1>11, <1>12, <1>13, <1>14
  DEF Next, Push

(* Every step keeps KeyInv. *)
LEMMA RotationStep == TypeOK /\ KeyInv /\ [Next]_vars => KeyInv'
<1> SUFFICES ASSUME TypeOK, KeyInv, [Next]_vars PROVE KeyInv'
  OBVIOUS
<1> USE RotationAssumption DEF TypeOK, KeyInv, Nodes, Keys, faultVars
<1>1. CASE PushStart BY <1>1 DEF PushStart
<1>2. ASSUME NEW c \in Clients, PushSend(c) PROVE KeyInv'
  BY <1>2 DEF PushSend
<1>3. CASE PushRotate
  <2>1. /\ cipher'[Server] = made /\ \A c \in Clients : cipher'[c] = cipher[c]
        /\ push'.at = "persist" /\ UNCHANGED <<disk, down, made>>
    BY <1>3 DEF PushRotate, rotateCipher
  <2>. QED BY <2>1
<1>4. CASE PushPersist
  <2>1. /\ UNCHANGED <<cipher, down, made, behind>> /\ push.at = "persist"
        /\ \A c \in Clients : disk'[c] = disk[c]
        /\ ~ unsaved' => disk'[Server] = cipher[Server]
    BY <1>4 DEF PushPersist, persistKeyToConfigFile
  <2>. QED BY <2>1
<1>5. ASSUME NEW c \in Clients, ClientSend(c) \/ ServerSend(c) \/ Reconnect(c) PROVE KeyInv'
  BY <1>5 DEF ClientSend, ServerSend, Reconnect
<1>6. ASSUME NEW m \in up, ServerReceive(m) PROVE KeyInv'
  BY <1>6 DEF ServerReceive
<1>7. ASSUME NEW m \in down, ClientReceive(m) PROVE KeyInv'
  <2>1. m.client \in Clients /\ down' \subseteq down BY <1>7 DEF ClientReceive
  <2>2. UNCHANGED <<made, push, behind, unsaved>> BY <1>7 DEF ClientReceive
  <2>3. CASE Readable(m.client, m.key) /\ m.new # NoKey
    <3>1. cipher' = [cipher EXCEPT ![m.client] = m.new] /\ m.new <= made /\ m.new \in Nat
      BY <1>7, <2>3 DEF ClientReceive, rotateCipher
    <3>2. disk' \in {disk, [disk EXCEPT ![m.client] = m.new]}
      BY <1>7, <2>3 DEF ClientReceive, persistKeyToConfigFile
    <3>. QED BY <2>1, <2>2, <3>1, <3>2
  <2>4. CASE ~(Readable(m.client, m.key) /\ m.new # NoKey)
    BY <1>7, <2>1, <2>2, <2>4 DEF ClientReceive
  <2>. QED BY <2>3, <2>4
<1>8. ASSUME NEW n \in Nodes, NEW k \in Keys, expirePrevCipher(n, k) PROVE KeyInv'
  BY <1>8 DEF expirePrevCipher
<1>9. CASE Lose BY <1>9 DEF Lose
<1>10. CASE ServerRestart
  <2>1. /\ cipher'[Server] = disk[Server] /\ \A c \in Clients : cipher'[c] = cipher[c]
        /\ down' = {} /\ UNCHANGED <<disk, made>>
        /\ ~ behind' => ~ behind /\ push.at = "idle" /\ ~ unsaved
    BY <1>10 DEF ServerRestart, RestartNode
  <2>. QED BY <2>1
<1>11. ASSUME NEW c \in Clients, ClientRestart(c) PROVE KeyInv'
  <2>1. /\ cipher' = [cipher EXCEPT ![c] = disk[c]] /\ down' \subseteq down
        /\ UNCHANGED <<disk, made, push, unsaved, behind>>
    BY <1>11 DEF ClientRestart, RestartNode
  <2>. QED BY <2>1
<1>12. CASE UNCHANGED vars BY <1>12 DEF vars
<1>. QED
  BY <1>1, <1>2, <1>3, <1>4, <1>5, <1>6, <1>7, <1>8, <1>9, <1>10, <1>11, <1>12 DEF Next, Push

(* Every variable keeps its type, with restarts too. *)
THEOREM RotationTypeCorrect == Spec => []TypeOK
<1>1. QED BY RotationInit, RotationTypes, PTL DEF Spec

(* Outside a push no client has, or is about to get, a key that the server     *)
(* lacks: pushConfigUpdate always ends with rotateCipher, whatever is lost,    *)
(* reordered or reconnected, and a restarted server has its newest key back    *)
(* unless it ended in a push or persistKeyToConfigFile had failed.             *)
THEOREM ServerCatchesUp == Spec => []ClientNeverAhead
<1>1. TypeOK /\ KeyInv => ClientNeverAhead
  BY DEF KeyInv, ClientNeverAhead
<1>2. TypeOK /\ KeyInv /\ [Next]_vars => KeyInv'
  BY RotationStep
<1>. QED BY <1>1, <1>2, RotationInit, RotationTypes, PTL DEF Spec

\* What PrevGoesForCause asks of a step at node n.
GoesForCause(n) ==
    (prev[n] # NoKey /\ prev'[n] = NoKey) =>
        \/ prev[n] \in timers[n] \ timers'[n]
        \/ \E m \in up \ up' : n = Server /\ m.key = cipher[n]
        \/ \E m \in down \ down' : n = m.client /\ m.key = cipher[n]
        \/ restarts' # restarts

(* rotateCipher never leaves a node without a previous cipher. *)
LEMMA RotateSetsPrev ==
  ASSUME TypeOK, NEW i \in Nodes, NEW k, rotateCipher(i, k), NEW n \in Nodes
  PROVE  prev'[n] # NoKey \/ prev'[n] = prev[n]
  BY RotationAssumption DEF rotateCipher, TypeOK, Keys

(* The previous cipher goes only for a cause: its own grace timer, a packet    *)
(* under the active cipher, or a restart of the node.  A timer of an earlier   *)
(* rotation never takes it away, for any number of rotations that overlap.     *)
THEOREM GracePeriodIsKept == Spec => PrevGoesForCause
<1>1. TypeOK /\ [Next]_vars => \A n \in Nodes : GoesForCause(n)
  <2> SUFFICES ASSUME TypeOK, [Next]_vars, NEW n \in Nodes, prev[n] # NoKey, prev'[n] = NoKey
               PROVE  GoesForCause(n)
    BY DEF GoesForCause
  <2> USE RotationAssumption DEF TypeOK, Nodes, Keys
  <2>1. ~ UNCHANGED prev OBVIOUS
  <2>2. CASE Push
    <3>1. ~ PushStart BY <2>1 DEF PushStart
    <3>2. ASSUME NEW c \in Clients, PushSend(c) PROVE FALSE BY <2>1, <3>2 DEF PushSend
    <3>3. ~ PushRotate BY RotateSetsPrev DEF PushRotate
    <3>4. ~ PushPersist BY <2>1 DEF PushPersist
    <3>. QED BY <2>2, <3>1, <3>2, <3>3, <3>4 DEF Push
  <2>3. ASSUME NEW c \in Clients, ClientSend(c) \/ ServerSend(c) \/ Reconnect(c) PROVE FALSE
    BY <2>1, <2>3 DEF ClientSend, ServerSend, Reconnect
  <2>4. ASSUME NEW m \in up, ServerReceive(m) PROVE GoesForCause(n)
    <3>1. up' = up \ {m} BY <2>4 DEF ServerReceive
    <3>2. prev' = [prev EXCEPT ![Server] = PrevAfterReading(Server, m.key)]
      BY <2>1, <2>4 DEF ServerReceive
    <3>3. n = Server /\ m.key = cipher[n] BY <3>2 DEF PrevAfterReading
    <3>. QED BY <3>1, <3>3 DEF GoesForCause
  <2>5. ASSUME NEW m \in down, ClientReceive(m) PROVE GoesForCause(n)
    <3>1. down' = down \ {m} /\ m.client \in Nodes BY <2>5 DEF ClientReceive
    <3>2. ~ rotateCipher(m.client, m.new) BY <3>1, RotateSetsPrev
    <3>3. prev' = [prev EXCEPT ![m.client] = PrevAfterReading(m.client, m.key)]
      BY <2>1, <2>5, <3>2 DEF ClientReceive
    <3>4. n = m.client /\ m.key = cipher[n] BY <3>1, <3>3 DEF PrevAfterReading
    <3>. QED BY <3>1, <3>4 DEF GoesForCause
  <2>6. ASSUME NEW i \in Nodes, NEW k \in Keys, expirePrevCipher(i, k) PROVE GoesForCause(n)
    <3>1. /\ k \in timers[i] /\ timers' = [timers EXCEPT ![i] = @ \ {k}]
          /\ prev' = [prev EXCEPT ![i] = IF prev[i] = k THEN NoKey ELSE prev[i]]
      BY <2>6 DEF expirePrevCipher
    <3>2. n = i /\ prev[n] = k BY <3>1
    <3>3. prev[n] \in timers[n] \ timers'[n] BY <3>1, <3>2
    <3>. QED BY <3>3 DEF GoesForCause
  <2>7. ~ Lose BY <2>1 DEF Lose
  <2>8. CASE ServerRestart
    BY <2>8 DEF ServerRestart, RestartNode, GoesForCause
  <2>9. ASSUME NEW c \in Clients, ClientRestart(c) PROVE GoesForCause(n)
    BY <2>9 DEF ClientRestart, RestartNode, GoesForCause
  <2>10. ~ UNCHANGED vars BY <2>1 DEF vars
  <2>. QED BY <2>2, <2>3, <2>4, <2>5, <2>6, <2>7, <2>8, <2>9, <2>10 DEF Next
<1>2. TypeOK /\ [Next]_vars =>
        [\A n \in Nodes : (prev[n] # NoKey /\ prev'[n] = NoKey) =>
            \/ prev[n] \in timers[n] \ timers'[n]
            \/ \E m \in up \ up' : n = Server /\ m.key = cipher[n]
            \/ \E m \in down \ down' : n = m.client /\ m.key = cipher[n]
            \/ restarts' # restarts]_vars
  BY <1>1 DEF GoesForCause
<1>. QED BY <1>2, RotationInit, RotationTypes, PTL DEF Spec, PrevGoesForCause

=============================================================================
