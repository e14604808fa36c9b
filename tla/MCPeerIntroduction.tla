------------------------- MODULE MCPeerIntroduction -------------------------
(***************************************************************************)
(* A client finds its NAT type, which involves nobody else and is done     *)
(* before it announces itself; then two clients are introduced.  One of    *)
(* them is there first; the other one reconnects once and asks for it on   *)
(* either connection.                                                      *)
(***************************************************************************)
EXTENDS PeerIntroduction, NatDetection, TLC

CONSTANTS a, b

MCClients == {a, b}
MCRequesters == {a}
MCEarly == {b}
MCConns == a :> 2 @@ b :> 1

\* The bounds of the private ranges and their neighbours, a loopback and a
\* link-local address, a carrier's shared one and a public one.
MCIPs ==
    {<<9, 255, 255, 255>>, <<10, 0, 0, 0>>, <<10, 255, 255, 255>>, <<11, 0, 0, 0>>,
     <<172, 15, 255, 255>>, <<172, 16, 0, 0>>, <<172, 16, 9, 0>>, <<172, 31, 255, 255>>,
     <<172, 32, 0, 0>>, <<192, 167, 255, 255>>, <<192, 168, 0, 0>>,
     <<192, 168, 255, 255>>, <<192, 169, 0, 0>>, <<100, 64, 0, 1>>, <<8, 8, 8, 8>>,
     <<127, 0, 0, 1>>, <<169, 254, 0, 1>>}

MCAddresses ==
    {{ip} : ip \in MCIPs} \cup
    {{}, {<<127, 0, 0, 1>>, <<10, 0, 0, 0>>}, {<<10, 0, 0, 0>>, <<8, 8, 8, 8>>}}

MCInit == Init /\ NatInit

\* The type is on record; nothing more is said of the network it was found in.
Over ==
    /\ det.pc = "done"
    /\ det' = [Unasked EXCEPT !.pc = "over"]
    /\ host' = [nat |-> "none", ips |-> {<<8, 8, 8, 8>>}, samePort |-> TRUE, dials |-> TRUE]

MCNext ==
    \/ (NatNext \/ Over) /\ UNCHANGED vars
    \/ det.pc = "over" /\ Next /\ UNCHANGED natVars

MCSpec == MCInit /\ [][MCNext]_<<vars, natVars>> /\ Fairness
=============================================================================
