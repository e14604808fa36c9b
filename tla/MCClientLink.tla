---------------------------- MODULE MCClientLink ----------------------------
(* ClientLink with three connection names: when a goroutine dials, at most   *)
(* two closed connections are still in use by the other two goroutines.      *)
EXTENDS ClientLink
=============================================================================
