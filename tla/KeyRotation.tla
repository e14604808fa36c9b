---------------------------- MODULE KeyRotation ----------------------------
(***************************************************************************)
(* Key rotation: the server periodically makes a new key, sends it to every*)
(* connected client (pushConfigUpdate), then rotates its own cipher; a     *)
(* client rotates when the update arrives (handleConfigUpdate).  Both sides*)
(* run the same code with two ciphers, active and previous                 *)
(* (decryptWithFallback, rotateCipher, expirePrevCipher); the server       *)
(* encrypts to a client with the cipher that client last used.  Every node *)
(* writes a new key to its config file, from which it would start again;   *)
(* the write may fail, which the code only logs.                           *)
(*                                                                         *)
(* Keys are numbered in the order the server makes them.  A packet is the  *)
(* key it is encrypted with and, for a config update, the key it carries.  *)
(* Packets of one direction may overtake each other; they may get lost if  *)
(* Lossy.                                                                  *)
(***************************************************************************)
EXTENDS Naturals, FiniteSets

CONSTANTS
    Clients,
    Server,
    NoKey,          \* a nil cipher
    MaxKeys,        \* bound: rotations in a behaviour
    MaxInFlight,    \* bound: packets under way to or from one client
    Lossy,          \* packets may be lost
    MaxReconnects,  \* bound: reconnections of clients
    MaxRestarts,    \* bound: crashes and restarts of nodes
    WriteFails,     \* a config file may be absent or not writable
    Timely          \* keepalives are frequent and pushes rare, against the grace period

ASSUME RotationAssumption ==
    /\ Server \notin Clients
    /\ NoKey \notin Nat
    /\ MaxKeys \in Nat
    /\ MaxInFlight \in Nat
    /\ MaxReconnects \in Nat
    /\ MaxRestarts \in Nat
    /\ Lossy \in BOOLEAN
    /\ WriteFails \in BOOLEAN
    /\ Timely \in BOOLEAN

Nodes == Clients \cup {Server}
Keys == 0..MaxKeys

VARIABLES
    cipher,   \* t.cipher of every node
    prev,     \* t.prevCipher of every node
    timers,   \* old ciphers whose expirePrevCipher goroutine still sleeps
    lastUsed, \* on the server: client.cipher of the connection of each client
    up,       \* packets from clients to the server
    down,     \* packets from the server to clients
    made,     \* keys made so far
    push,     \* progress of pushConfigUpdate
    disk,     \* the key in every node's config file
    unsaved,  \* history: the server's last write to its file failed
    behind,   \* history: the server came back without its newest key, and
              \* has not made another one since
    reconnects,  \* reconnections so far
    restarts     \* restarts so far

vars == <<cipher, prev, timers, lastUsed, up, down, made, push, disk,
          unsaved, behind, reconnects, restarts>>
faultVars == <<unsaved, behind, reconnects, restarts>>

TypeOK ==
    /\ cipher \in [Nodes -> Keys]
    /\ prev \in [Nodes -> Keys \cup {NoKey}]
    /\ timers \in [Nodes -> SUBSET Keys]
    /\ lastUsed \in [Clients -> Keys \cup {NoKey}]
    /\ up \in SUBSET [client : Clients, key : Keys]
    /\ down \in SUBSET [client : Clients, key : Keys, new : Keys \cup {NoKey}]
    /\ made \in Keys
    /\ push \in [at : {"idle", "send", "persist"}, left : SUBSET Clients]
    /\ disk \in [Nodes -> Keys]
    /\ unsaved \in BOOLEAN
    /\ behind \in BOOLEAN
    /\ reconnects \in 0..MaxReconnects
    /\ restarts \in 0..MaxRestarts

\* All nodes have the key of their config files; clients are connected and
\* have not sent anything yet.
Init ==
    /\ cipher = [n \in Nodes |-> 0]
    /\ prev = [n \in Nodes |-> NoKey]
    /\ timers = [n \in Nodes |-> {}]
    /\ lastUsed = [c \in Clients |-> NoKey]
    /\ up = {}
    /\ down = {}
    /\ made = 0
    /\ push = [at |-> "idle", left |-> {}]
    /\ disk = [n \in Nodes |-> 0]
    /\ unsaved = FALSE
    /\ behind = FALSE
    /\ reconnects = 0
    /\ restarts = 0

-----------------------------------------------------------------------------
(* The two ciphers of a node. *)

\* decryptWithFallback: the active cipher is tried first, then the previous.
Readable(n, k) == k \in {cipher[n], prev[n]}

\* decryptWithFallback: a packet under the active cipher shows that the other
\* side has switched, and the previous cipher is deactivated.
PrevAfterReading(n, k) == IF k = cipher[n] THEN NoKey ELSE prev[n]

\* rotateCipher: the active cipher becomes the previous one and a goroutine is
\* started that deactivates it after the grace period.
rotateCipher(n, k) ==
    /\ cipher' = [cipher EXCEPT ![n] = k]
    /\ prev' = [prev EXCEPT ![n] = cipher[n]]
    /\ timers' = [timers EXCEPT ![n] = @ \cup {cipher[n]}]

\* persistKeyToConfigFile: write the node's new key; without a path, or when
\* UpdateConfigKey fails, the file stays as it is and the node goes on.
persistKeyToConfigFile(n, k, saved) ==
    /\ saved \/ WriteFails
    /\ disk' = IF saved THEN [disk EXCEPT ![n] = k] ELSE disk

\* expirePrevCipher that clears whatever the previous cipher is by then.
ExpireAnyPrev(n, k) ==
    /\ k \in timers[n]
    /\ timers' = [timers EXCEPT ![n] = @ \ {k}]
    /\ prev' = [prev EXCEPT ![n] = NoKey]
    /\ UNCHANGED <<cipher, lastUsed, up, down, made, push, disk, faultVars>>

\* expirePrevCipher and deactivatePrevCipher: the grace period of k is over;
\* the previous cipher is cleared if it is still k.  decryptWithFallback does
\* the same when it meets an expired previous cipher before the timer does.
\* The grace period is three keepalive intervals: with Timely the
\* server has heard the client's new key before the client's timer fires.
expirePrevCipher(n, k) ==
    /\ k \in timers[n]
    /\ Timely /\ n \in Clients => lastUsed[n] = cipher[n]
    /\ timers' = [timers EXCEPT ![n] = @ \ {k}]
    /\ prev' = [prev EXCEPT ![n] = IF prev[n] = k THEN NoKey ELSE prev[n]]
    /\ UNCHANGED <<cipher, lastUsed, up, down, made, push, disk, faultVars>>

-----------------------------------------------------------------------------
(* Traffic. *)

\* encryptForClient: the cipher the client last used, else the server's own.
encryptForClient(c) == IF lastUsed[c] = NoKey THEN cipher[Server] ELSE lastUsed[c]

UpTo(c) == {m \in up : m.client = c}
DownTo(c) == {m \in down : m.client = c}

\* encryptPacket and WritePacket on a client: data, or a keepalive.
ClientSend(c) ==
    /\ Cardinality(UpTo(c)) < MaxInFlight
    /\ up' = up \cup {[client |-> c, key |-> cipher[c]]}
    /\ UNCHANGED <<cipher, prev, timers, lastUsed, down, made, push, disk, faultVars>>

\* clientNetReader: decrypt, and remember the cipher the client used; a packet
\* that neither cipher opens is dropped.
ServerReceive(m) ==
    /\ m \in up
    /\ up' = up \ {m}
    /\ IF Readable(Server, m.key)
       THEN /\ prev' = [prev EXCEPT ![Server] = PrevAfterReading(Server, m.key)]
            /\ lastUsed' = [lastUsed EXCEPT ![m.client] = m.key]
       ELSE UNCHANGED <<prev, lastUsed>>
    /\ UNCHANGED <<cipher, timers, down, made, push, disk, faultVars>>

\* clientNetWriter, clientKeepalive and the other senders to one client.
ServerSend(c) ==
    /\ Cardinality(DownTo(c)) < MaxInFlight
    /\ down' = down \cup {[client |-> c, key |-> encryptForClient(c), new |-> NoKey]}
    /\ UNCHANGED <<cipher, prev, timers, lastUsed, up, made, push, disk, faultVars>>

\* netReader on a client: decrypt; a config update rotates the client's cipher
\* and writes its file.
ClientReceive(m) ==
    /\ m \in down
    /\ down' = down \ {m}
    /\ LET c == m.client
       IN  \/ /\ Readable(c, m.key) /\ m.new # NoKey
              /\ rotateCipher(c, m.new)
              /\ \E saved \in BOOLEAN : persistKeyToConfigFile(c, m.new, saved)
           \/ /\ Readable(c, m.key) /\ m.new = NoKey
              /\ prev' = [prev EXCEPT ![c] = PrevAfterReading(c, m.key)]
              /\ UNCHANGED <<cipher, timers, disk>>
           \/ /\ ~ Readable(c, m.key)
              /\ UNCHANGED <<cipher, prev, timers, disk>>
    /\ UNCHANGED <<lastUsed, up, made, push, faultVars>>

-----------------------------------------------------------------------------
(* pushConfigUpdate. *)

\* generateRandomKey and the snapshot of t.allClients.  The interval between
\* two pushes is longer than a packet lives and, if Timely, than a grace period.
PushStart ==
    /\ push.at = "idle"
    /\ made < MaxKeys
    /\ \A m \in down : m.new = NoKey
    /\ Timely => \A n \in Nodes : timers[n] = {}
    /\ made' = made + 1
    /\ push' = [at |-> "send", left |-> Clients]
    /\ UNCHANGED <<cipher, prev, timers, lastUsed, up, down, disk, faultVars>>

\* The update for one client, under the cipher that client last used.
PushSend(c) ==
    /\ push.at = "send"
    /\ c \in push.left
    /\ down' = down \cup {[client |-> c, key |-> encryptForClient(c), new |-> made]}
    /\ push' = [push EXCEPT !.left = @ \ {c}]
    /\ UNCHANGED <<cipher, prev, timers, lastUsed, up, made, disk, faultVars>>

\* A push whose rotation fails on the server after the clients were told.
PushSkipsRotate ==
    /\ push.at = "send"
    /\ push.left = {}
    /\ push' = [push EXCEPT !.at = "idle"]
    /\ UNCHANGED <<cipher, prev, timers, lastUsed, up, down, made, disk, faultVars>>

\* rotateCipher on the server, after the last update was written.
PushRotate ==
    /\ push.at = "send"
    /\ push.left = {}
    /\ rotateCipher(Server, made)
    /\ push' = [push EXCEPT !.at = "persist"]
    /\ behind' = FALSE
    /\ UNCHANGED <<lastUsed, up, down, made, disk, unsaved, reconnects, restarts>>

\* A rotation that leaves the config file alone.
PushForgetsPersist ==
    /\ push.at = "persist"
    /\ push' = [push EXCEPT !.at = "idle"]
    /\ UNCHANGED <<cipher, prev, timers, lastUsed, up, down, made, disk, faultVars>>

\* The end of rotateCipher.
PushPersist ==
    /\ push.at = "persist"
    /\ \E saved \in BOOLEAN :
        /\ persistKeyToConfigFile(Server, cipher[Server], saved)
        /\ unsaved' = ~ saved
    /\ push' = [push EXCEPT !.at = "idle"]
    /\ UNCHANGED <<cipher, prev, timers, lastUsed, up, down, made, behind, reconnects, restarts>>

-----------------------------------------------------------------------------
(* The environment. *)

Lose ==
    /\ Lossy
    /\ \/ \E m \in up : up' = up \ {m} /\ UNCHANGED down
       \/ \E m \in down : down' = down \ {m} /\ UNCHANGED up
    /\ UNCHANGED <<cipher, prev, timers, lastUsed, made, push, disk, faultVars>>

\* A client reconnects: the server has a new ClientConnection for it.
Reconnect(c) ==
    /\ reconnects < MaxReconnects
    /\ reconnects' = reconnects + 1
    /\ lastUsed' = [lastUsed EXCEPT ![c] = NoKey]
    /\ up' = up \ UpTo(c)
    /\ down' = down \ DownTo(c)
    /\ UNCHANGED <<cipher, prev, timers, made, push, disk, unsaved, behind, restarts>>

\* The process of a node ends and starts again with the key in its file.
RestartNode(n) ==
    /\ restarts < MaxRestarts
    /\ restarts' = restarts + 1
    /\ cipher' = [cipher EXCEPT ![n] = disk[n]]
    /\ prev' = [prev EXCEPT ![n] = NoKey]
    /\ timers' = [timers EXCEPT ![n] = {}]
    /\ UNCHANGED <<made, disk, reconnects>>

\* The server, at any point.  It comes back without the key it last told its
\* clients when it ended inside a push, or when the last write had failed.
ServerRestart ==
    /\ RestartNode(Server)
    /\ lastUsed' = [c \in Clients |-> NoKey]
    /\ up' = {} /\ down' = {}
    /\ push' = [at |-> "idle", left |-> {}]
    /\ behind' = (behind \/ push.at # "idle" \/ unsaved)
    /\ unsaved' = FALSE

\* A client, which connects again.
ClientRestart(c) ==
    /\ RestartNode(c)
    /\ lastUsed' = [lastUsed EXCEPT ![c] = NoKey]
    /\ up' = up \ UpTo(c)
    /\ down' = down \ DownTo(c)
    /\ UNCHANGED <<push, unsaved, behind>>

-----------------------------------------------------------------------------

Push == PushStart \/ (\E c \in Clients : PushSend(c)) \/ PushRotate \/ PushPersist

Next ==
    \/ Push
    \/ \E c \in Clients : ClientSend(c) \/ ServerSend(c) \/ Reconnect(c) \/ ClientRestart(c)
    \/ \E m \in up : ServerReceive(m)
    \/ \E m \in down : ClientReceive(m)
    \/ \E n \in Nodes, k \in Keys : expirePrevCipher(n, k)
    \/ Lose
    \/ ServerRestart

Spec == Init /\ [][Next]_vars

\* The push loop runs to its end once started; keepalives are sent in both
\* directions; what is not lost arrives; timers fire.
Fairness ==
    /\ WF_vars((\E c \in Clients : PushSend(c)) \/ PushRotate \/ PushPersist)
    /\ \A c \in Clients :
        /\ WF_vars(ClientSend(c))
        /\ WF_vars(ServerSend(c))
        /\ \A k \in Keys :
            /\ WF_vars(ServerReceive([client |-> c, key |-> k]))
            /\ \A j \in Keys \cup {NoKey} :
                 WF_vars(ClientReceive([client |-> c, key |-> k, new |-> j]))
    /\ \A n \in Nodes, k \in Keys : WF_vars(expirePrevCipher(n, k))

FairSpec == Spec /\ Fairness

-----------------------------------------------------------------------------
(* Properties. *)

\* Outside a push no client has a key that the server does not have yet, and
\* no update under way carries one: the server always catches up with what it
\* told its clients.  The exception is a server that came back without its
\* newest key, because it ended inside a push (between the first update and
\* the write of its file) or because the last write had failed; the next push
\* that it completes repairs this.
ClientNeverAhead ==
    push.at # "send" /\ ~ behind =>
        /\ \A c \in Clients : cipher[c] <= cipher[Server]
        /\ \A m \in down : m.new # NoKey => m.new <= cipher[Server]

\* The grace timer of an old rotation does not cut short the grace period of a
\* newer one: the previous cipher goes only when its own timer fires or the
\* active cipher is seen in use (or the node restarts).
PrevGoesForCause ==
    [][\A n \in Nodes : (prev[n] # NoKey /\ prev'[n] = NoKey) =>
          \/ prev[n] \in timers[n] \ timers'[n]
          \/ \E m \in up \ up' : n = Server /\ m.key = cipher[n]
          \/ \E m \in down \ down' : n = m.client /\ m.key = cipher[n]
          \/ restarts' # restarts]_vars

\* Clients that keep their connection and lose no packet end with the server's
\* key, and from then on each side opens what the other sends.
EventuallySynchronised ==
    <>[](\A c \in Clients :
            /\ cipher[c] = cipher[Server]
            /\ Readable(Server, cipher[c])
            /\ Readable(c, encryptForClient(c)))

\* The inductive invariant behind ClientNeverAhead: nobody holds, carries or
\* would start again with a key that was not made; outside a push the server
\* has the newest one, and its file has the server's unless a write is to come
\* or has failed.
KeyInv ==
    /\ \A c \in Clients : cipher[c] <= made /\ disk[c] <= made
    /\ \A m \in down : m.new # NoKey => m.new <= made
    /\ push.at # "send" /\ ~ behind => cipher[Server] = made
    /\ push.at # "persist" /\ ~ unsaved => disk[Server] = cipher[Server]
=============================================================================
