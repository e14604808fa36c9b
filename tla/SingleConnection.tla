-------------------------- MODULE SingleConnection --------------------------
(***************************************************************************)
(* What the client promises about its connection to the server, whatever   *)
(* its goroutines do: there is one slot; a connection is put only into an  *)
(* empty slot and is then the only one open; a connection that leaves the  *)
(* slot is closed.                                                         *)
(***************************************************************************)

CONSTANTS Conn, NoConn

VARIABLES slot, open

slotVars == <<slot, open>>

SlotInit == slot \in Conn /\ open = {slot}

\* A connection fills the empty slot.
Connect ==
    /\ slot = NoConn
    /\ \E c \in Conn : slot' = c /\ open' = {c}

\* The connection in the slot is closed and the slot emptied.
Discard ==
    /\ slot # NoConn
    /\ slot' = NoConn
    /\ open' = {}

\* The connection in the slot is closed and stays there (shutdown).
Shut ==
    /\ slot # NoConn
    /\ open' = {}
    /\ UNCHANGED slot

SlotNext == Connect \/ Discard \/ Shut

SlotSpec == SlotInit /\ [][SlotNext]_slotVars
=============================================================================
