-------------------------- MODULE MCServerRegistry --------------------------
(* ServerRegistry with model values for connections, IPs and routes. *)
EXTENDS ServerRegistry
=============================================================================
