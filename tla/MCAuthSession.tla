--------------------------- MODULE MCAuthSession ---------------------------
(* AuthSession with the retry count of the code and three connections. *)
EXTENDS AuthSession
=============================================================================
