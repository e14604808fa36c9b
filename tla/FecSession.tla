----------------------------- MODULE FecSession -----------------------------
(***************************************************************************)
(* FEC on the wire: sendPacketWithFEC gives every packet a session ID from *)
(* a counter that all writer goroutines of a tunnel share without a lock,  *)
(* and sends its shards; the network loses, delays and reorders them; the  *)
(* receiver (processFECShard) collects shards under a session key and      *)
(* decodes as soon as it can, while startFECCleanup removes old sessions.  *)
(*                                                                         *)
(* A peer is one connection: its writer at the sender, its reader at the   *)
(* receiver.  A packet is a peer and a number; a shard is the packet it was*)
(* cut from, the session ID and its index.                                 *)
(***************************************************************************)
EXTENDS Naturals, FiniteSets, FecCodec

CONSTANTS
    Peers,        \* connections whose writers share t.fecSessionID
    MaxPackets,   \* bound: packets sent to one peer
    IdSpace,      \* session IDs are 0 .. IdSpace-1; 2^32 in the code
    Size,         \* length of the packet with a given number
    MaxCleanups,  \* bound: sessions removed by the cleanup
    None          \* no session, no shard in hand, no session ID read

Ids == 0 .. IdSpace - 1
Numbers == 1 .. MaxPackets
Shards == [to : Peers, n : Numbers, id : Ids, i : ShardIdx]

\* A session has the size of its packet and the packet of each shard it has.
Contents == UNION {[S -> Numbers] : S \in SUBSET ShardIdx}
Sessions == [size : Nat, got : Contents]

ASSUME SessionAssumption ==
    /\ IdSpace \in Nat \ {0}
    /\ MaxPackets \in Nat /\ MaxCleanups \in Nat
    /\ Size \in [1..MaxPackets -> Nat]
    /\ None \notin Ids \cup Shards \cup Sessions

VARIABLES
    counter,    \* t.fecSessionID of the sender
    read,       \* the session ID a writer has read and not yet incremented
    sent,       \* packets each writer has sent
    net,        \* shards under way
    lost,       \* shards that will not arrive
    sessions,   \* t.fecRecvSessions by peer and ID: the packet of each shard
    inHand,     \* the shard a reader has looked up the session for
    orphan,     \* that session, if the cleanup has removed it meanwhile
    delivered,  \* how often each packet was handed up
    garbage,    \* decoded bytes that are not a packet anyone sent
    cleanups    \* sessions removed so far

vars == <<counter, read, sent, net, lost, sessions, inHand, orphan, delivered,
          garbage, cleanups>>

TypeOK ==
    /\ counter \in Ids
    /\ read \in [Peers -> Ids \cup {None}]
    /\ sent \in [Peers -> 0..MaxPackets]
    /\ net \subseteq Shards
    /\ lost \subseteq Shards
    /\ sessions \in [Peers -> [Ids -> Sessions \cup {None}]]
    /\ inHand \in [Peers -> Shards \cup {None}]
    /\ orphan \in [Peers -> Sessions \cup {None}]
    /\ delivered \in [Peers -> [Numbers -> Nat]]
    /\ garbage \in BOOLEAN
    /\ cleanups \in 0..MaxCleanups

Empty == [i \in {} |-> 0]

Init ==
    /\ counter = 0
    /\ read = [p \in Peers |-> None]
    /\ sent = [p \in Peers |-> 0]
    /\ net = {}
    /\ lost = {}
    /\ sessions = [p \in Peers |-> [k \in Ids |-> None]]
    /\ inHand = [p \in Peers |-> None]
    /\ orphan = [p \in Peers |-> None]
    /\ delivered = [p \in Peers |-> [n \in Numbers |-> 0]]
    /\ garbage = FALSE
    /\ cleanups = 0

recvVars == <<sessions, inHand, orphan, delivered, garbage, cleanups>>

-----------------------------------------------------------------------------
(* sendPacketWithFEC. *)

\* sessionID := t.fecSessionID
ReadCounter(p) ==
    /\ read[p] = None
    /\ sent[p] < MaxPackets
    /\ read' = [read EXCEPT ![p] = counter]
    /\ UNCHANGED <<counter, sent, net, lost, recvVars>>

\* The shards with the ID of the previous packet: the counter stays.
SendKeepsCounter(p) ==
    /\ read[p] # None
    /\ UNCHANGED counter
    /\ read' = [read EXCEPT ![p] = None]
    /\ sent' = [sent EXCEPT ![p] = @ + 1]
    /\ net' = net \cup {[to |-> p, n |-> sent'[p], id |-> read[p], i |-> i] : i \in ShardIdx}
    /\ UNCHANGED <<lost, recvVars>>

\* t.fecSessionID++, a load and a store that other writers may come between
\* (the load is taken with ReadCounter's), then all shards are written.  A
\* write that fails is a lost shard.
SendShards(p) ==
    /\ read[p] # None
    /\ counter' = (read[p] + 1) % IdSpace
    /\ read' = [read EXCEPT ![p] = None]
    /\ sent' = [sent EXCEPT ![p] = @ + 1]
    /\ net' = net \cup {[to |-> p, n |-> sent'[p], id |-> read[p], i |-> i] : i \in ShardIdx}
    /\ UNCHANGED <<lost, recvVars>>

-----------------------------------------------------------------------------
(* The network. *)

Lose(s) ==
    /\ s \in net
    /\ net' = net \ {s}
    /\ lost' = lost \cup {s}
    /\ UNCHANGED <<counter, read, sent, recvVars>>

-----------------------------------------------------------------------------
(* processFECShard. *)

\* Under fecRecvMux: find or create the session.  A shard whose original size
\* is not the session's is refused.
LookUp(s) ==
    /\ s \in net
    /\ inHand[s.to] = None
    /\ net' = net \ {s}
    /\ LET found == sessions[s.to][s.id]
       IN  IF found # None
           THEN /\ inHand' = [inHand EXCEPT ![s.to] = IF found.size = Size[s.n] THEN s ELSE None]
                /\ UNCHANGED sessions
           ELSE /\ inHand' = [inHand EXCEPT ![s.to] = s]
                /\ sessions' = [sessions EXCEPT ![s.to][s.id] =
                                    [size |-> Size[s.n], got |-> Empty]]
    /\ UNCHANGED <<counter, read, sent, lost, orphan, delivered, garbage, cleanups>>

\* The shards of a session once shard s is added; the first one with an index
\* stays.
WithShard(session, s) ==
    [i \in DOMAIN session.got \cup {s.i} |->
        IF i \in DOMAIN session.got THEN session.got[i] ELSE s.n]

\* The session a reader adds its shard to.
Held(p) == IF orphan[p] = None THEN sessions[p][inHand[p].id] ELSE orphan[p]

\* What the decoded bytes are: a packet if all shards read were cut from it.
Sources(got) == {got[i] : i \in UsedShards(DOMAIN got)}

\* A session that stays in the map when its packet has been decoded.
AfterAddKeeps(session, got) == [session EXCEPT !.got = got]

\* A session that is given up when D shards do not decode.
AfterAddGivesUp(session, got) ==
    IF Cardinality(DOMAIN got) >= D THEN None ELSE [session EXCEPT !.got = got]

\* The session is deleted when its packet has been decoded; a failed Decode
\* leaves it to wait for more shards.
AfterAdd(session, got) ==
    IF Decodable(DOMAIN got) THEN None ELSE [session EXCEPT !.got = got]

\* After the unlock: the shard is added unless its index is there already;
\* with D or more shards Decode is tried, and a decoded packet is handed up.
AddShard(p) ==
    /\ inHand[p] # None
    /\ LET s == inHand[p]
           got == WithShard(Held(p), s)
           src == Sources(got)
       IN  /\ IF Decodable(DOMAIN got)
              THEN IF Cardinality(src) = 1
                   THEN /\ delivered' = [delivered EXCEPT ![p] =
                              [n \in Numbers |-> IF n \in src THEN @[n] + 1 ELSE @[n]]]
                        /\ UNCHANGED garbage
                   ELSE garbage' = TRUE /\ UNCHANGED delivered
              ELSE UNCHANGED <<delivered, garbage>>
           /\ sessions' = IF orphan[p] # None THEN sessions
                          ELSE [sessions EXCEPT ![p][s.id] = AfterAdd(Held(p), got)]
    /\ inHand' = [inHand EXCEPT ![p] = None]
    /\ orphan' = [orphan EXCEPT ![p] = None]
    /\ UNCHANGED <<counter, read, sent, net, lost, cleanups>>

\* cleanupStaleFECSessions removes a session that got no shard for 5 seconds.
\* The reader may hold it: it goes on with the session it has.
Cleanup(p, k) ==
    /\ cleanups < MaxCleanups
    /\ sessions[p][k] # None
    /\ cleanups' = cleanups + 1
    /\ sessions' = [sessions EXCEPT ![p][k] = None]
    /\ orphan' = IF inHand[p] # None /\ inHand[p].id = k
                 THEN [orphan EXCEPT ![p] = sessions[p][k]]
                 ELSE orphan
    /\ UNCHANGED <<counter, read, sent, net, lost, inHand, delivered, garbage>>

-----------------------------------------------------------------------------

Next ==
    \/ \E p \in Peers : ReadCounter(p) \/ SendShards(p) \/ AddShard(p)
    \/ \E s \in net : Lose(s) \/ LookUp(s)
    \/ \E p \in Peers, k \in Ids : Cleanup(p, k)

Spec == Init /\ [][Next]_vars

-----------------------------------------------------------------------------
(* Properties. *)

\* The shards a packet was cut into, which are lost, and whether all others
\* have been worked on.
LostOf(p, n) == {s.i : s \in {t \in lost : t.to = p /\ t.n = n}}
Settled(p, n) ==
    /\ n <= sent[p]
    /\ \A s \in net : s.to = p => s.n # n
    /\ inHand[p] # None => inHand[p].n # n

\* Losing one data shard, or parity shards, never costs a packet as long as
\* one parity shard arrives, in whatever order shards come and however the
\* shards of several packets mix (no session is cleaned up early).
OneLossRecovered ==
    \A p \in Peers, n \in Numbers :
        (cleanups = 0 /\ Settled(p, n) /\ Decodable(ShardIdx \ LostOf(p, n)))
            => delivered[p][n] >= 1

\* A packet is handed up at most once: the shards that arrive after the
\* decode start a new session, which must never be able to decode again.
DeliveredOnce == \A p \in Peers, n \in Numbers : delivered[p][n] <= 1

\* Only packets that were sent come out of the decoder, never a mixture.
NeverMixed == ~garbage

\* Whatever the network does with shards and however the cleanup interferes, the
\* sessions together are a channel that loses packets and does nothing worse:
\* each step hands up one packet or none, one that has been sent and for the
\* first time.
Channel == INSTANCE LossyChannel
ChannelRefinement == Channel!ChannelSpec

\* Whenever the reader calls Decode with shards it can work with, Decode
\* returns the packet that Encode was given, whatever bytes a packet of the
\* session's size has.
DecodeIsExact ==
    \A p \in Peers : inHand[p] # None =>
        LET session == Held(p)
            present == DOMAIN WithShard(session, inHand[p])
        IN  Decodable(present) =>
              \A data \in [1..session.size -> Bit] :
                  Decode(Encode(data), present, session.size) = data
=============================================================================
