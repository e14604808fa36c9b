--------------------------- MODULE MCKeyRotation ---------------------------
(* KeyRotation with one or two clients as model values. *)
EXTENDS KeyRotation
=============================================================================
