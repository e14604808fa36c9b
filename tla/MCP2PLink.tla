------------------------------ MODULE MCP2PLink ------------------------------
(* Instances of P2PLink for TLC. *)
EXTENDS P2PLink

\* A peer with a local address behind a symmetric NAT.
BothAddresses == {[public |-> "pub", local |-> "loc", nat |-> "symmetric"]}
==============================================================================
