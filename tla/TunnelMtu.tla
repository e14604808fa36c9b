----------------------------- MODULE TunnelMtu ------------------------------
(***************************************************************************)
(* How the packet size of a tunnel is chosen: the value of the             *)
(* configuration, its default and its limits, the recommended value of a   *)
(* network type, the path search of a client, and NewTunnel's adjustment   *)
(* for encryption; and the sizes of a fake-TCP packet that follow from it. *)
(*                                                                         *)
(* The steps from the configuration to the running tunnel are actions;     *)
(* what a dial of the search finds is not known.  The program never gets   *)
(* as far as the detection: LoadConfig replaces a zero and validateConfig  *)
(* refuses it, although the comments of both files promise that zero means *)
(* automatic detection.  NewTunnel's branch for a zero is therefore also   *)
(* an initial state, so that what it would do can be checked.              *)
(***************************************************************************)
EXTENDS Integers

CONSTANT Sizes  \* the MTUs that configurations ask for

ASSUME SizesAssumption == Sizes \subseteq Int

\* Where a tunnel is on its way from its configuration to Start: whether it is
\* configured by a file or by flags; its mode, and whether it has a key; the MTU
\* so far; the variables of DiscoverOptimalMTU.
VARIABLE setup

minMTU == 576
maxMTU == 1500
conservativeMTU == 1200
maxAttempts == 10

packetTypeOverhead == 1
encryptionOverhead == 28
maxSegment == 1400
fecHeader == 13

-----------------------------------------------------------------------------
(* The configuration. *)

\* LoadConfig: a zero in the file is replaced; a flag is taken as it is.
LoadedMTU(file, mtu) == IF file /\ mtu = 0 THEN 1400 ELSE mtu

\* validateConfig.  A zero never gets past it.
ValidMTU(mtu) == mtu \in 500..9000

-----------------------------------------------------------------------------
(* Detection, when NewTunnel is given an MTU of zero. *)

GetRecommendedMTU(network) ==
    CASE network = "pppoe" -> 1343
      [] network = "mobile" -> 1200
      [] network = "vpn" -> 1300
      [] OTHER -> 1371

\* AutoDetectNetworkType.
NetworkTypes == {"ethernet", "wifi", "pppoe"}

-----------------------------------------------------------------------------
(* The sizes that follow from an MTU. *)

\* The largest shard FEC.Encode makes of a packet of a tunnel, with the header
\* sendPacketWithFEC puts before it.
ShardPacket(mtu, key, data) ==
    LET size == mtu + packetTypeOverhead + (IF key THEN encryptionOverhead ELSE 0)
        even == (size + data - 1) \div data
        least == mtu \div data
    IN  fecHeader + IF even < least THEN least ELSE even

\* WritePacket cuts what is longer into pieces that ReadPacket returns one by
\* one; nothing puts them together again.
Segmented(size) == size > maxSegment

-----------------------------------------------------------------------------
(* From the configuration to the running tunnel. *)

\* The tunnel has been started: nothing more is said of its size.
Started ==
    [pc |-> "started", file |-> TRUE, mode |-> "server", key |-> TRUE, mtu |-> 0,
     low |-> 0, high |-> 0, optimal |-> 0, attempts |-> 0]

\* main reads a file or flags.
Configured ==
    \E file, key \in BOOLEAN, mode \in {"server", "client"}, mtu \in Sizes :
        setup = [Started EXCEPT !.pc = "load", !.file = file, !.mode = mode, !.key = key,
                                !.mtu = mtu]

\* NewTunnel's branch for an MTU of zero, entered directly: no call of the
\* repository gets there.
BareZero ==
    \E key \in BOOLEAN, mode \in {"server", "client"} :
        setup = [Started EXCEPT !.pc = "new", !.mode = mode, !.key = key]

SetupInit == Configured \/ BareZero

Load ==
    /\ setup.pc = "load"
    /\ setup' = [setup EXCEPT !.pc = "validate", !.mtu = LoadedMTU(setup.file, @)]

Validate ==
    /\ setup.pc = "validate"
    /\ setup' = [setup EXCEPT !.pc = IF ValidMTU(setup.mtu) THEN "new" ELSE "rejected"]

\* NewTunnel with an MTU that is given.
Given ==
    /\ setup.pc = "new" /\ setup.mtu # 0
    /\ setup' = [setup EXCEPT !.pc = "adjust"]

\* NewTunnel detects: a server, and a client that cannot resolve the address,
\* take the value of the network type.
Recommend(network) ==
    /\ setup.pc = "new" /\ setup.mtu = 0
    /\ setup' = [setup EXCEPT !.pc = "adjust", !.mtu = GetRecommendedMTU(network)]

\* A client searches.
StartSearch ==
    /\ setup.pc = "new" /\ setup.mtu = 0 /\ setup.mode = "client"
    /\ setup' = [setup EXCEPT !.pc = "search", !.low = minMTU, !.high = maxMTU,
                              !.optimal = minMTU]

\* testMTU: a dial that succeeds accepts every size, one that fails the
\* conservative ones.
testMTU(size, dialed) == dialed \/ size <= conservativeMTU

Searching == setup.low <= setup.high /\ setup.attempts < maxAttempts

\* The probe that keeps a size it has found too large.
ProbeKeepsHigh(dialed) ==
    LET test == (setup.low + setup.high) \div 2
    IN  /\ setup.pc = "search" /\ Searching
        /\ setup' = IF testMTU(test, dialed)
                    THEN [setup EXCEPT !.optimal = test, !.low = test + 1, !.attempts = @ + 1]
                    ELSE [setup EXCEPT !.high = test, !.attempts = @ + 1]

\* One round of the loop of DiscoverOptimalMTU.
Probe(dialed) ==
    LET test == (setup.low + setup.high) \div 2
    IN  /\ setup.pc = "search" /\ Searching
        /\ setup' = IF testMTU(test, dialed)
                    THEN [setup EXCEPT !.optimal = test, !.low = test + 1, !.attempts = @ + 1]
                    ELSE [setup EXCEPT !.high = test - 1, !.attempts = @ + 1]

\* The headers are taken off and the result is kept between two limits.
TunnelPart(optimal) ==
    LET safe == optimal - 20 - 20 - packetTypeOverhead - encryptionOverhead
    IN  IF safe < 500 THEN 500 ELSE IF safe > 1371 THEN 1371 ELSE safe

EndSearch ==
    /\ setup.pc = "search" /\ ~ Searching
    /\ setup' = [setup EXCEPT !.pc = "adjust", !.mtu = TunnelPart(setup.optimal)]

\* The adjustment that forgets the type byte.
AdjustWithoutType ==
    LET maxSafeMTU == maxSegment - encryptionOverhead
    IN  /\ setup.pc = "adjust"
        /\ setup' = [setup EXCEPT !.pc = "ready",
                                  !.mtu = IF setup.key /\ @ > maxSafeMTU THEN maxSafeMTU ELSE @]

\* NewTunnel makes room for encryption.
Adjust ==
    LET maxSafeMTU == maxSegment - packetTypeOverhead - encryptionOverhead
    IN  /\ setup.pc = "adjust"
        /\ setup' = [setup EXCEPT !.pc = "ready",
                                  !.mtu = IF setup.key /\ @ > maxSafeMTU THEN maxSafeMTU ELSE @]

Start ==
    /\ setup.pc = "ready"
    /\ setup' = Started

SetupNext ==
    \/ Load \/ Validate \/ Given \/ StartSearch \/ EndSearch \/ Adjust \/ Start
    \/ \E network \in NetworkTypes : Recommend(network)
    \/ \E dialed \in BOOLEAN : Probe(dialed)

SetupSpec == SetupInit /\ [][SetupNext]_setup

-----------------------------------------------------------------------------
(* Properties. *)

\* Ten attempts are enough: the search of DiscoverOptimalMTU ends because the
\* interval is empty, never because of the limit, and whatever the dials find it
\* ends at a size that passes without a dial or at a larger one.
SearchIsComplete ==
    setup.pc = "search" /\ ~ Searching =>
        /\ setup.low > setup.high
        /\ setup.optimal = setup.high /\ setup.optimal >= conservativeMTU

\* With a key, whatever the configuration says, no packet of a tunnel is cut on
\* the fake-TCP connection: not as a whole, and not as FEC shards unless there
\* is a single data shard, whose header the adjustment does not allow for.
NeverSegmented ==
    setup.pc = "ready" /\ setup.key =>
        /\ ~ Segmented(setup.mtu + packetTypeOverhead + encryptionOverhead)
        /\ \A data \in 1..12 : Segmented(ShardPacket(setup.mtu, TRUE, data)) => data = 1
=============================================================================
