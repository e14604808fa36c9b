--------------------------- MODULE MCRawHandshake ---------------------------
(* The raw transport on small instances, which the cfg files give. *)
EXTENDS RawHandshake
=============================================================================
