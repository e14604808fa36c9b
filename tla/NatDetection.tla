---------------------------- MODULE NatDetection ----------------------------
(***************************************************************************)
(* NAT types: how a client finds its own before it announces itself, and   *)
(* what two clients that have been introduced make of them.  Detection is  *)
(* a sequence of STUN queries to one server after another, each from a new *)
(* socket, with a fallback that looks at the local address.                *)
(***************************************************************************)
EXTENDS Integers, Sequences

CONSTANTS
    Servers,    \* bound: STUN servers on the list of detectWithSTUN
    Addresses,  \* sets of local IPv4 addresses, sequences of bytes
    Ports,      \* P2P ports
    Octets      \* last octets of tunnel IPs

\* hasPublicIP looks at IPv4 addresses only.  The empty set stands for an error
\* of net.InterfaceAddrs.
ASSUME DetectionAssumption ==
    /\ Servers \in Nat \ {0}
    /\ Addresses \subseteq SUBSET [1..4 -> 0..255]
    /\ Ports \subseteq Int /\ Octets \subseteq Int

VARIABLES
    host,  \* the NAT, the local addresses, and what sockets can do there
    det    \* the detection: the server that is asked, the test, the result

natVars == <<host, det>>

RealTypes == {"none", "full", "restricted", "portRestricted", "symmetric"}
NATTypes == RealTypes \cup {"unknown"}

GetLevel(nat) ==
    CASE nat = "none" -> 0
      [] nat = "full" -> 1
      [] nat = "restricted" -> 2
      [] nat = "portRestricted" -> 3
      [] nat = "symmetric" -> 4
      [] OTHER -> 5

-----------------------------------------------------------------------------
(* The fallback: is one of the local addresses a public one? *)

privateRanges ==
    {[start |-> <<10, 0, 0, 0>>, end |-> <<10, 255, 255, 255>>],
     [start |-> <<172, 16, 0, 0>>, end |-> <<172, 31, 255, 255>>],
     [start |-> <<192, 168, 0, 0>>, end |-> <<192, 168, 255, 255>>]}

\* The first byte that differs decides between two sequences, from the i-th on.
LexLess(s, t, i) ==
    \E k \in i..Len(s) : s[k] < t[k] /\ \A j \in i..(k - 1) : s[j] = t[j]

\* The comparison that looks at the end of the range byte by byte.
bytesInRangeEach(ip, start, end) ==
    \A i \in 1..Len(ip) : start[i] <= ip[i] /\ ip[i] < end[i]

\* One pass: bytes equal to those of the start are skipped, the first larger
\* one ends the comparison with the start, and the end is compared from there.
bytesInRange(ip, start, end) ==
    LET skipped == CHOOSE k \in 0..Len(ip) :
                      /\ \A i \in 1..k : ip[i] = start[i]
                      /\ k < Len(ip) => ip[k + 1] # start[k + 1]
    IN  IF skipped = Len(ip) THEN ~ LexLess(end, ip, 1)
        ELSE ip[skipped + 1] > start[skipped + 1] /\ ~ LexLess(end, ip, skipped + 1)

IsLoopback(ip) == ip[1] = 127
IsLinkLocal(ip) ==
    (ip[1] = 169 /\ ip[2] = 254) \/ (ip[1] = 224 /\ ip[2] = 0 /\ ip[3] = 0)

\* The range that carriers share, 100.64.0.0/10, is not on the list.
isPrivateIP(ip) ==
    \/ IsLoopback(ip) \/ IsLinkLocal(ip)
    \/ \E r \in privateRanges : bytesInRange(ip, r.start, r.end)

hasPublicIP(ips) == \E ip \in ips : ~ IsLoopback(ip) /\ ~ isPrivateIP(ip)

-----------------------------------------------------------------------------
(* Detection. *)

Unasked == [pc |-> "next", server |-> 0, change |-> "honoured", alternate |-> FALSE,
            result |-> "unknown"]

\* A host without NAT has a public address, though it may be unable to list it.
NatInit ==
    /\ host \in [nat : RealTypes, ips : Addresses, samePort : BOOLEAN, dials : BOOLEAN]
    /\ host.nat = "none" => host.ips = {} \/ hasPublicIP(host.ips)
    /\ det = Unasked

Results(nat) == det' = [det EXCEPT !.pc = "done", !.result = nat]

\* detectWithSTUN turns to the next server.  How the server takes a
\* CHANGE-REQUEST, and whether it names another address, is its own affair.
NextServer(change, alternate) ==
    /\ det.pc = "next" /\ det.server < Servers
    /\ det' = [det EXCEPT !.pc = "test1", !.server = @ + 1, !.change = change,
                          !.alternate = alternate]
    /\ UNCHANGED host

\* A response gets through the NAT to a socket that has sent to the server.
PassesFromIP == host.nat \in {"none", "full"}
PassesFromPort == host.nat \in {"none", "full", "restricted"}

\* STUNClient.Query with a CHANGE-REQUEST: a refusal is an error, and where a
\* response comes from is not looked at, so a server that ignores the request
\* passes for one that has followed it.
ChangedReply(passes) ==
    det.change = "ignored" \/ (det.change = "honoured" /\ passes)

\* Test 1, and the comparison of the mapped address with the local ones.  The
\* reply may be lost; then the server has failed.
Test1(lost) ==
    /\ det.pc = "test1"
    /\ IF lost THEN det' = [det EXCEPT !.pc = "next"]
       ELSE IF host.nat = "none" /\ host.ips # {} THEN Results("none")
       ELSE det' = [det EXCEPT !.pc = "test2"]
    /\ UNCHANGED host

\* The test that asks for a reply from another port only.
Test2SameIP(lost) ==
    /\ det.pc = "test2"
    /\ IF ~ lost /\ ChangedReply(PassesFromPort) THEN Results("full")
       ELSE det' = [det EXCEPT !.pc = "test3"]
    /\ UNCHANGED host

\* Test 2: a reply from another address and port.
Test2(lost) ==
    /\ det.pc = "test2"
    /\ IF ~ lost /\ ChangedReply(PassesFromIP) THEN Results("full")
       ELSE det' = [det EXCEPT !.pc = "test3"]
    /\ UNCHANGED host

\* Test 3: a reply from another port.
Test3(lost) ==
    /\ det.pc = "test3"
    /\ IF ~ lost /\ ChangedReply(PassesFromPort) THEN Results("restricted")
       ELSE det' = [det EXCEPT !.pc = "test4"]
    /\ UNCHANGED host

\* Test 4 compares the external ports of two sockets towards two addresses:
\* they differ unless the NAT is a cone and happens to give both the same.
Test4(lost) ==
    /\ det.pc = "test4"
    /\ Results(IF ~ lost /\ det.alternate /\ (host.nat = "symmetric" \/ ~ host.samePort)
               THEN "symmetric" ELSE "portRestricted")
    /\ UNCHANGED host

\* DetectNATType when every server has failed.  testSymmetricNAT binds the port
\* that its own first socket holds: it fails to dial, or it answers yes.
Fallback ==
    /\ det.pc = "next" /\ det.server = Servers
    /\ Results(IF hasPublicIP(host.ips) THEN "none"
               ELSE IF host.dials THEN "symmetric" ELSE "portRestricted")
    /\ UNCHANGED host

NatNext ==
    \/ \E change \in {"honoured", "refused", "ignored"}, alternate \in BOOLEAN :
         NextServer(change, alternate)
    \/ \E lost \in BOOLEAN : Test1(lost) \/ Test2(lost) \/ Test3(lost) \/ Test4(lost)
    \/ Fallback

NatSpec == NatInit /\ [][NatNext]_natVars

-----------------------------------------------------------------------------
(* What two introduced clients do. *)

CanTraverseWith(n, other) ==
    LET cones == {"restricted", "portRestricted"}
    IN  \/ {n, other} \cap {"none", "full"} # {}
        \/ n \in cones /\ other \in cones
        \/ /\ "symmetric" \in {n, other}
           /\ ~(n = "symmetric" /\ other = "symmetric")

\* The rule that a level not above the other's is enough.
ShouldInitiateWhenEqual(n, other) == GetLevel(n) <= GetLevel(other)

ShouldInitiateConnection(n, other) == GetLevel(n) < GetLevel(other)

\* What is not known is tried.
CanEstablishP2PWith(mine, peer) ==
    "unknown" \in {mine, peer} \/ CanTraverseWith(mine, peer)

\* handlePeerInfoFromServer: whether a client connects without waiting for the
\* other one.
Initiates(me, peer) ==
    /\ CanEstablishP2PWith(me.nat, peer.nat)
    /\ \/ "unknown" \in {me.nat, peer.nat}
       \/ ShouldInitiateConnection(me.nat, peer.nat)
       \/ /\ GetLevel(me.nat) = GetLevel(peer.nat)
          /\ me.port < peer.port \/ (me.port = peer.port /\ me.octet < peer.octet)

-----------------------------------------------------------------------------
(* Properties. *)

\* Lost replies, refusals and failing servers make a NAT look worse than it is,
\* never better, with three exceptions the code does not tell apart: a server
\* that ignores the CHANGE-REQUEST, a symmetric NAT that test 4 or the fallback
\* could not examine, and a fallback on a local address of an unlisted range.
NeverFlatters ==
    det.pc = "done" /\ GetLevel(det.result) < GetLevel(host.nat) =>
        \/ det.result \in {"full", "restricted"} /\ det.change = "ignored"
        \/ det.result = "portRestricted" /\ host.nat = "symmetric"
        \/ det.result = "none" /\ hasPublicIP(host.ips)

\* bytesInRange, which compares both bounds in one pass, is right for the ranges
\* of isPrivateIP: an address is in one of them exactly if it is neither below
\* its start nor above its end.
RangesAreExact ==
    \A ip \in host.ips, r \in privateRanges :
        bytesInRange(ip, r.start, r.end)
            <=> ~ LexLess(ip, r.start, 1) /\ ~ LexLess(r.end, ip, 1)

\* Two clients that know each other's detected types agree on who connects on
\* PeerInfo: exactly one of them does, unless both are symmetric or they have
\* the same port and the same last octet (then nobody does before the PUNCH).
OneInitiator ==
    det.pc = "done" =>
        \A nat \in RealTypes, p, q \in Ports, i, j \in Octets :
            LET me == [nat |-> det.result, port |-> p, octet |-> i]
                peer == [nat |-> nat, port |-> q, octet |-> j]
            IN  /\ ~ (Initiates(me, peer) /\ Initiates(peer, me))
                /\ \/ Initiates(me, peer) \/ Initiates(peer, me)
                   \/ me.nat = "symmetric" /\ peer.nat = "symmetric"
                   \/ p = q /\ i = j
=============================================================================
