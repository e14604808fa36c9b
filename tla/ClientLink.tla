----------------------------- MODULE ClientLink -----------------------------
(***************************************************************************)
(* The client's connection to the server: t.conn, the mutex connMux and the*)
(* goroutines netReader, netWriter and keepalive that all use the          *)
(* connection, drop it when an operation fails and reconnect, while        *)
(* Tunnel.Stop may run.                                                    *)
(*                                                                         *)
(* t.conn is read without the mutex: the nil test, the evaluation of       *)
(* t.conn for the call, and the call itself are separate steps.  A call on *)
(* a nil interface ends the process (crashed).  A torn read of the         *)
(* two-word interface value has the same outcome.  Packets and timers are  *)
(* abstract: an operation succeeds or fails.  A connection that is closed  *)
(* and that no goroutine uses is forgotten, and its name may be used for a *)
(* later connection, so that nothing bounds the number of reconnections.   *)
(***************************************************************************)

CONSTANTS
    Conn,       \* names of connections; three always suffice
    NoConn,     \* t.conn == nil
    Goroutines, \* netReader, netWriter and, if wanted, keepalive
    Free        \* connMux is unlocked

ASSUME LinkAssumption ==
    /\ NoConn \notin Conn
    /\ {"reader", "writer"} \subseteq Goroutines
    /\ Goroutines \subseteq {"reader", "writer", "keepalive"}
    /\ Free \notin Goroutines

VARIABLES
    pc,        \* program point of each goroutine
    after,     \* where a goroutine continues when reconnectToServer succeeds
    held,      \* the connection a goroutine's current call was made on
    conn,      \* t.conn
    lock,      \* the goroutine that keeps connMux while it dials, or Free
    open,      \* connections that have not been closed
    broken,    \* open connections whose peer or path is gone
    stop,      \* progress of Tunnel.Stop
    crashed    \* a method was called on a nil t.conn

vars == <<pc, after, held, conn, lock, open, broken, stop, crashed>>

Points == {"top", "check", "use", "io", "drop", "reconnect", "lock", "dial",
           "dialing", "retry", "retryUse", "retryIo", "exited"}

TypeOK ==
    /\ pc \in [Goroutines -> Points]
    /\ after \in [Goroutines -> {"use", "retry", "top"}]
    /\ held \in [Goroutines -> Conn \cup {NoConn}]
    /\ conn \in Conn \cup {NoConn}
    /\ lock \in Goroutines \cup {Free}
    /\ open \in SUBSET Conn
    /\ broken \in SUBSET Conn
    /\ stop \in {"no", "signalled", "closing", "done"}
    /\ crashed \in BOOLEAN

\* Start has connected and started the goroutines.
Init ==
    /\ pc = [g \in Goroutines |-> "top"]
    /\ after = [g \in Goroutines |-> "top"]
    /\ held = [g \in Goroutines |-> NoConn]
    /\ conn \in Conn
    /\ lock = Free
    /\ open = {conn}
    /\ broken = {}
    /\ stop = "no"
    /\ crashed = FALSE

Stopping == stop # "no"

Goto(g, p) == pc' = [pc EXCEPT ![g] = p]

\* A goroutine gives up because the tunnel stops: reader and keepalive return,
\* the writer returns from the closure for one packet.
Abandon(g) == IF g = "writer" THEN "top" ELSE "exited"

\* A method call on a nil t.conn panics: the process and all goroutines end.
Crash ==
    /\ crashed' = TRUE
    /\ pc' = [g \in Goroutines |-> "exited"]
    /\ held' = [g \in Goroutines |-> NoConn]
    /\ lock' = Free
    /\ stop' = "done"
    /\ UNCHANGED <<after, conn, open, broken>>

\* t.conn is evaluated again for a method call.
Call(g, p) ==
    IF conn = NoConn
    THEN Crash
    ELSE /\ held' = [held EXCEPT ![g] = conn]
         /\ Goto(g, p)
         /\ UNCHANGED <<after, conn, lock, open, broken, stop, crashed>>

-----------------------------------------------------------------------------
(* The loops. *)

\* The writer's loop without the stopCh case.
SeeStopNotWriter(g) ==
    /\ pc[g] = "top"
    /\ Stopping
    /\ g # "writer"
    /\ Goto(g, "exited")
    /\ UNCHANGED <<after, held, conn, lock, open, broken, stop, crashed>>

\* The select at the top of each loop sees t.stopCh closed.
SeeStop(g) ==
    /\ pc[g] = "top"
    /\ Stopping
    /\ Goto(g, "exited")
    /\ UNCHANGED <<after, held, conn, lock, open, broken, stop, crashed>>

\* Another round: the reader only if t.stopCh is open; writer and keepalive
\* when a packet or a tick is ready, which select may prefer to stopCh.
Proceed(g) ==
    /\ pc[g] = "top"
    /\ g = "reader" => ~Stopping
    /\ Goto(g, "check")
    /\ UNCHANGED <<after, held, conn, lock, open, broken, stop, crashed>>

\* netReader finds that nothing arrived for IdleConnectionTimeout, whatever the
\* state of the connection: lastRecvTime says nothing of one that another
\* goroutine has just made.
ReaderIdle ==
    /\ pc["reader"] = "top"
    /\ ~Stopping
    /\ Goto("reader", "drop")
    /\ UNCHANGED <<after, held, conn, lock, open, broken, stop, crashed>>

\* if t.conn == nil { reconnectToServer }
CheckConn(g) ==
    /\ pc[g] = "check"
    /\ IF conn = NoConn
       THEN Goto(g, "reconnect") /\ after' = [after EXCEPT ![g] = "use"]
       ELSE Goto(g, "use") /\ UNCHANGED after
    /\ UNCHANGED <<held, conn, lock, open, broken, stop, crashed>>

\* ReadPacket or WritePacket on t.conn.
UseConn(g) == pc[g] = "use" /\ Call(g, "io")

\* The call succeeds.  A write into a broken path succeeds too (raw packets
\* are not acknowledged), and with FEC the writer sees no write fail, because
\* sendPacketWithFEC ignores the errors of the shards.  A read needs a live
\* connection.
IoSucceeds(g) ==
    /\ pc[g] = "io"
    /\ held[g] \in open \/ g = "writer"
    /\ g = "reader" => held[g] \notin broken
    /\ Goto(g, "top")
    /\ held' = [held EXCEPT ![g] = NoConn]
    /\ UNCHANGED <<after, conn, lock, open, broken, stop, crashed>>

\* The call fails: closed under it, peer gone, or the read deadline passed.
IoFails(g) ==
    /\ pc[g] = "io"
    /\ held[g] \notin open \/ held[g] \in broken
    /\ Goto(g, IF Stopping THEN Abandon(g) ELSE "drop")
    /\ held' = [held EXCEPT ![g] = IF Stopping THEN NoConn ELSE @]
    /\ UNCHANGED <<after, conn, lock, open, broken, stop, crashed>>

\* A drop that clears t.conn and forgets to close the connection.
DropWithoutClose(g) ==
    /\ pc[g] = "drop"
    /\ lock = Free
    /\ conn' = NoConn
    /\ held' = [held EXCEPT ![g] = NoConn]
    /\ Goto(g, "reconnect")
    /\ after' = [after EXCEPT ![g] = IF g = "writer" THEN "retry" ELSE "top"]
    /\ UNCHANGED <<lock, open, broken, stop, crashed>>

\* A drop that closes the connection and leaves it in t.conn.
DropWithoutClear(g) ==
    /\ pc[g] = "drop"
    /\ lock = Free
    /\ open' = open \ {conn}
    /\ broken' = broken \ {conn}
    /\ held' = [held EXCEPT ![g] = NoConn]
    /\ Goto(g, "reconnect")
    /\ after' = [after EXCEPT ![g] = IF g = "writer" THEN "retry" ELSE "top"]
    /\ UNCHANGED <<conn, lock, stop, crashed>>

\* A drop that puts the connection of a new dial into t.conn at once.
DropReplaces(g) ==
    /\ pc[g] = "drop"
    /\ lock = Free
    /\ \E c \in Conn \ (open \cup {held[h] : h \in Goroutines}) : conn' = c /\ open' = {c}
    /\ broken' = broken \ {conn}
    /\ held' = [held EXCEPT ![g] = NoConn]
    /\ Goto(g, "top")
    /\ UNCHANGED <<after, lock, stop, crashed>>

\* connMux.Lock; if t.conn != nil { Close; t.conn = nil }; Unlock.  The test
\* is against nil, not against the connection the call failed on.
DropConn(g) ==
    /\ pc[g] = "drop"
    /\ lock = Free
    /\ open' = open \ {conn}
    /\ broken' = broken \ {conn}
    /\ conn' = NoConn
    /\ held' = [held EXCEPT ![g] = NoConn]
    /\ Goto(g, "reconnect")
    /\ after' = [after EXCEPT ![g] = IF g = "writer" THEN "retry" ELSE "top"]
    /\ UNCHANGED <<lock, stop, crashed>>

-----------------------------------------------------------------------------
(* reconnectToServer. *)

\* The quick check of t.stopCh before the lock.
ReconnectEnter(g) ==
    /\ pc[g] = "reconnect"
    /\ Goto(g, IF Stopping THEN Abandon(g) ELSE "lock")
    /\ UNCHANGED <<after, held, conn, lock, open, broken, stop, crashed>>

\* connMux.Lock: another goroutine may have reconnected meanwhile; otherwise
\* the mutex is kept for the whole dial loop.
ReconnectLock(g) ==
    /\ pc[g] = "lock"
    /\ lock = Free
    /\ IF conn # NoConn
       THEN Goto(g, after[g]) /\ UNCHANGED lock
       ELSE lock' = g /\ Goto(g, "dial")
    /\ UNCHANGED <<after, held, conn, open, broken, stop, crashed>>

\* Top of the dial loop: t.stopCh is checked, then DialWithMode is called.
DialLoop(g) ==
    /\ pc[g] = "dial"
    /\ IF Stopping
       THEN Goto(g, Abandon(g)) /\ lock' = Free
       ELSE Goto(g, "dialing") /\ UNCHANGED lock
    /\ UNCHANGED <<after, held, conn, open, broken, stop, crashed>>

\* The dial succeeds: t.conn is set and the mutex released, Stop or not.
DialSucceeds(g) ==
    /\ pc[g] = "dialing"
    /\ \E c \in Conn \ (open \cup {held[h] : h \in Goroutines}) :
         /\ conn' = c
         /\ open' = open \cup {c}
    /\ lock' = Free
    /\ Goto(g, after[g])
    /\ UNCHANGED <<after, held, broken, stop, crashed>>

\* The dial fails: back off and try again with the mutex held.
DialFails(g) ==
    /\ pc[g] = "dialing"
    /\ Goto(g, "dial")
    /\ UNCHANGED <<after, held, conn, lock, open, broken, stop, crashed>>

-----------------------------------------------------------------------------
(* netWriter's second attempt for the packet whose first write failed. *)

RetryCheck ==
    /\ pc["writer"] = "retry"
    /\ Goto("writer", IF conn = NoConn THEN "top" ELSE "retryUse")
    /\ UNCHANGED <<after, held, conn, lock, open, broken, stop, crashed>>

RetryUse == pc["writer"] = "retryUse" /\ Call("writer", "retryIo")

\* A failure of the retry is logged and the packet is lost.
RetryIo ==
    /\ pc["writer"] = "retryIo"
    /\ Goto("writer", "top")
    /\ held' = [held EXCEPT !["writer"] = NoConn]
    /\ UNCHANGED <<after, conn, lock, open, broken, stop, crashed>>

-----------------------------------------------------------------------------
(* Tunnel.Stop and the network. *)

StopSignal ==
    /\ stop = "no"
    /\ stop' = "signalled"
    /\ UNCHANGED <<pc, after, held, conn, lock, open, broken, crashed>>

\* if t.conn != nil, without connMux.
StopCheck ==
    /\ stop = "signalled"
    /\ stop' = IF conn = NoConn THEN "done" ELSE "closing"
    /\ UNCHANGED <<pc, after, held, conn, lock, open, broken, crashed>>

\* t.conn.Close; t.conn is left as it is.
StopClose ==
    /\ stop = "closing"
    /\ IF conn = NoConn
       THEN Crash
       ELSE /\ open' = open \ {conn}
            /\ broken' = broken \ {conn}
            /\ stop' = "done"
            /\ UNCHANGED <<pc, after, held, conn, lock, crashed>>

\* The server goes away, or the path to it.
Break ==
    /\ conn \in open \ broken
    /\ broken' = broken \cup {conn}
    /\ UNCHANGED <<pc, after, held, conn, lock, open, stop, crashed>>

-----------------------------------------------------------------------------

DialStep(g) == DialLoop(g) \/ DialSucceeds(g) \/ DialFails(g)

IoStep(g) == IoSucceeds(g) \/ IoFails(g)

CallStep(g) ==
    \/ CheckConn(g) \/ UseConn(g) \/ IoStep(g) \/ DropConn(g)
    \/ ReconnectEnter(g) \/ ReconnectLock(g)

RetryStep == RetryCheck \/ RetryUse \/ RetryIo

StopStep == StopSignal \/ StopCheck \/ StopClose

Next ==
    \/ \E g \in Goroutines : SeeStop(g) \/ Proceed(g) \/ CallStep(g) \/ DialStep(g)
    \/ ReaderIdle
    \/ RetryStep
    \/ StopStep
    \/ Break

Spec == Init /\ [][Next]_vars

\* A goroutine that can take its next step takes it; ReadPacket returns within
\* its deadline; keepalive ticks.  sync.Mutex hands over to starving waiters,
\* and select picks among ready cases at random, so a case that is ready again
\* and again is chosen.  A dial that is retried forever succeeds (the server
\* is reachable between outages).
Fairness ==
    /\ \A g \in Goroutines :
        /\ WF_vars(CheckConn(g))
        /\ WF_vars(UseConn(g))
        /\ WF_vars(IoStep(g))
        /\ SF_vars(DropConn(g))
        /\ WF_vars(ReconnectEnter(g))
        /\ SF_vars(ReconnectLock(g))
        /\ WF_vars(DialStep(g))
        /\ SF_vars(DialSucceeds(g))
        /\ SF_vars(SeeStop(g))
    /\ WF_vars(Proceed("reader"))
    /\ WF_vars(RetryStep)
    /\ WF_vars((StopCheck \/ StopClose))

FairSpec == Spec /\ Fairness

-----------------------------------------------------------------------------
(* Properties. *)

\* Only t.conn can be open: whatever order the goroutines drop and reconnect
\* in, no connection is left open that nobody can reach to close.
OnlyCurrentIsOpen == open \subseteq {conn}

\* The mutex is held exactly by the goroutine that dials, and then there is no
\* connection; so two goroutines never dial at once.
DialIsExclusive ==
    /\ \A g \in Goroutines : pc[g] \in {"dial", "dialing"} <=> lock = g
    /\ lock # Free => conn = NoConn

\* The goroutines and Stop together implement one slot with one connection.
Slot == INSTANCE SingleConnection WITH slot <- conn
SlotRefinement == Slot!SlotSpec

\* After an outage the client is connected again, unless it is stopped or the
\* process ended.
LinkRecovers ==
    (conn \notin open \ broken) ~> (conn \in open \ broken \/ Stopping \/ crashed)

\* After Stop every goroutine returns; none waits for the mutex or the server.
StopEndsGoroutines ==
    Stopping ~> (\A g \in Goroutines : pc[g] = "exited")
=============================================================================
