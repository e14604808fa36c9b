----------------------------- MODULE ClientTable -----------------------------
(***************************************************************************)
(* What the server promises about tunnel IPs, whatever its goroutines do:  *)
(* an IP passes from one connection to the next only by a claim, which     *)
(* tells the previous owner to stop; a connection that leaves takes its    *)
(* own entry with it and nobody else's, and claims nothing afterwards.     *)
(***************************************************************************)

CONSTANTS
    IPs,     \* tunnel IPs
    Conns,   \* connections
    NoConn   \* no connection

VARIABLES
    table,   \* the connection that has an IP
    told,    \* connections that were told to stop or have left
    over     \* connections that have left

tableVars == <<table, told, over>>

\* Clients may have come before; no two IPs have the same connection.
TableInit ==
    /\ table \in [IPs -> Conns \cup {NoConn}]
    /\ \A i, j \in IPs : table[i] = table[j] /\ table[i] # NoConn => i = j
    /\ told = {} /\ over = {}

Claim(c, ip) ==
    /\ c \notin over /\ \A i \in IPs : table[i] # c
    /\ table' = [table EXCEPT ![ip] = c]
    /\ told' = told \cup ({table[ip]} \ {NoConn})
    /\ UNCHANGED over

Tell ==
    /\ told' \in SUBSET Conns /\ told \subseteq told'
    /\ UNCHANGED <<table, over>>

Leave(c) ==
    /\ c \notin over
    /\ table' = [i \in IPs |-> IF table[i] = c THEN NoConn ELSE table[i]]
    /\ told' = told \cup {c}
    /\ over' = over \cup {c}

TableNext ==
    \/ Tell
    \/ \E c \in Conns : Leave(c) \/ \E ip \in IPs : Claim(c, ip)

TableSpec == TableInit /\ [][TableNext]_tableVars
=============================================================================
