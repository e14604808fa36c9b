---------------------------- MODULE MCPacketPath ----------------------------
(***************************************************************************)
(* A tunnel chooses its packet size and is started; then packets travel.   *)
(* Two clients, one of them a gateway, and send queues of one packet: a    *)
(* queue can be full while another goroutine has a packet to hand over.    *)
(***************************************************************************)
EXTENDS PacketPath, TunnelMtu

CONSTANTS a, b, x, y

MCClients == {a, b}
MCGateways == {a}
MCBufs == {x, y}
MCModes == {"server", "client"}

\* The limits of the code and their neighbours.
MCSizes == {0, 499, 500, 576, 1200, 1343} \cup 1369..1373
              \cup {1399, 1400, 1401, 1500, 9000, 9001}

MCInit == Init /\ SetupInit

MCNext ==
    \/ SetupNext /\ UNCHANGED vars
    \/ setup = Started /\ Next /\ UNCHANGED setup

MCSpec == MCInit /\ [][MCNext]_<<vars, setup>> /\ Fairness
=============================================================================
