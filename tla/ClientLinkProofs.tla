-------------------------- MODULE ClientLinkProofs --------------------------
(***************************************************************************)
(* For any set of connection names: the client never has two open          *)
(* connections, never dials twice at once, and implements SingleConnection.*)
(* DialIsExclusive is the strengthening that makes OnlyCurrentIsOpen       *)
(* inductive: a goroutine that finishes its dial must find t.conn empty.   *)
(*                                                                         *)
(* For any number of retries and connections: the types of the client's    *)
(* authentication, and that on the first connection an "OK" stands for a   *)
(* flag the server has set.                                                *)
(***************************************************************************)
EXTENDS ClientLink, AuthSession, TLAPS

LinkInv == TypeOK /\ DialIsExclusive /\ OnlyCurrentIsOpen

(* Start leaves one open connection and nobody dialling. *)
LEMMA LinkInit == Init => LinkInv
  BY LinkAssumption, ZenonT(40) DEF Init, LinkInv, TypeOK, Points, DialIsExclusive, OnlyCurrentIsOpen

(* A panic ends every goroutine; what was open stays so. *)
LEMMA CrashKeepsInv == LinkInv /\ Crash => LinkInv'
  BY LinkAssumption DEF Crash, LinkInv, TypeOK, Points, DialIsExclusive, OnlyCurrentIsOpen

(* Every step of a goroutine keeps the invariant. *)
LEMMA GoroutineKeepsInv ==
  ASSUME LinkInv, NEW g \in Goroutines, SeeStop(g) \/ Proceed(g) \/ CallStep(g) \/ DialStep(g)
  PROVE  LinkInv'
<1> USE LinkAssumption
    DEF LinkInv, TypeOK, Points, DialIsExclusive, OnlyCurrentIsOpen, Goto
<1>1. CASE SeeStop(g) BY <1>1 DEF SeeStop
<1>2. CASE Proceed(g) BY <1>2 DEF Proceed
<1>3. CASE CheckConn(g) BY <1>3 DEF CheckConn
<1>4. CASE UseConn(g) BY <1>4, CrashKeepsInv DEF UseConn, Call
<1>5. CASE IoSucceeds(g) BY <1>5 DEF IoSucceeds
<1>6. CASE IoFails(g) BY <1>6 DEF IoFails, Abandon
<1>7. CASE DropConn(g) BY <1>7 DEF DropConn
<1>8. CASE ReconnectEnter(g) BY <1>8 DEF ReconnectEnter, Abandon
<1>9. CASE ReconnectLock(g) BY <1>9 DEF ReconnectLock
<1>10. CASE DialLoop(g) BY <1>10 DEF DialLoop, Abandon
<1>11. CASE DialSucceeds(g)
  <2>1. conn = NoConn /\ open = {} BY <1>11 DEF DialSucceeds
  <2>. QED BY <1>11, <2>1 DEF DialSucceeds
<1>12. CASE DialFails(g) BY <1>12 DEF DialFails
<1>. QED
  BY <1>1, <1>2, <1>3, <1>4, <1>5, <1>6, <1>7, <1>8, <1>9, <1>10, <1>11, <1>12
  DEF CallStep, IoStep, DialStep

(* Every step of the client keeps the invariant. *)
LEMMA LinkStep == LinkInv /\ [Next]_vars => LinkInv'
<1> SUFFICES ASSUME LinkInv, [Next]_vars PROVE LinkInv'
  OBVIOUS
<1>1. ASSUME NEW g \in Goroutines, SeeStop(g) \/ Proceed(g) \/ CallStep(g) \/ DialStep(g)
      PROVE  LinkInv'
  BY <1>1, GoroutineKeepsInv
<1>2. CASE ReaderIdle
  BY <1>2, LinkAssumption
  DEF ReaderIdle, Goto, LinkInv, TypeOK, Points, DialIsExclusive, OnlyCurrentIsOpen
<1>3. CASE RetryStep
  BY <1>3, LinkAssumption, CrashKeepsInv
  DEF RetryStep, RetryCheck, RetryUse, RetryIo, Call, Goto,
      LinkInv, TypeOK, Points, DialIsExclusive, OnlyCurrentIsOpen
<1>4. CASE StopStep
  BY <1>4, LinkAssumption, CrashKeepsInv
  DEF StopStep, StopSignal, StopCheck, StopClose,
      LinkInv, TypeOK, DialIsExclusive, OnlyCurrentIsOpen
<1>5. CASE Break
  BY <1>5 DEF Break, LinkInv, TypeOK, DialIsExclusive, OnlyCurrentIsOpen
<1>6. CASE UNCHANGED vars
  BY <1>6 DEF vars, LinkInv, TypeOK, DialIsExclusive, OnlyCurrentIsOpen
<1>. QED BY <1>1, <1>2, <1>3, <1>4, <1>5, <1>6 DEF Next

(* The three parts of the invariant hold along every behaviour. *)
THEOREM LinkInvariant == Spec => []LinkInv
<1>1. QED BY LinkInit, LinkStep, PTL DEF Spec

(* No connection is ever left open outside t.conn, and only the holder of    *)
(* connMux dials (netReader, netWriter, keepalive, reconnectToServer, Stop). *)
THEOREM LinkNeverLeaks == Spec => [](OnlyCurrentIsOpen /\ DialIsExclusive)
<1>1. LinkInv => OnlyCurrentIsOpen /\ DialIsExclusive
  BY DEF LinkInv
<1>. QED BY <1>1, LinkInvariant, PTL

(* A step of the client is a step of the single slot, or leaves it alone. *)
LEMMA LinkStepRefines == LinkInv /\ [Next]_vars => [Slot!SlotNext]_(Slot!slotVars)
<1> SUFFICES ASSUME LinkInv, [Next]_vars PROVE [Slot!SlotNext]_(Slot!slotVars)
  OBVIOUS
<1> USE LinkAssumption
    DEF LinkInv, TypeOK, DialIsExclusive, OnlyCurrentIsOpen,
        Slot!SlotNext, Slot!Connect, Slot!Discard, Slot!Shut, Slot!slotVars
<1>1. CASE conn' = conn /\ open' = open BY <1>1
<1>2. ASSUME NEW g \in Goroutines, DropConn(g) PROVE [Slot!SlotNext]_(Slot!slotVars)
  BY <1>2 DEF DropConn
<1>3. ASSUME NEW g \in Goroutines, DialSucceeds(g) PROVE [Slot!SlotNext]_(Slot!slotVars)
  <2>1. conn = NoConn /\ open = {} BY <1>3 DEF DialSucceeds
  <2>. QED BY <1>3, <2>1 DEF DialSucceeds
<1>4. CASE StopClose BY <1>4 DEF StopClose, Crash
<1>5. ASSUME NEW g \in Goroutines,
             SeeStop(g) \/ Proceed(g) \/ CheckConn(g) \/ UseConn(g) \/ IoStep(g)
               \/ ReconnectEnter(g) \/ ReconnectLock(g) \/ DialLoop(g) \/ DialFails(g)
      PROVE  conn' = conn /\ open' = open
  BY <1>5 DEF SeeStop, Proceed, CheckConn, UseConn, Call, Crash, IoStep, IoSucceeds, IoFails,
              ReconnectEnter, ReconnectLock, DialLoop, DialFails
<1>6. ReaderIdle \/ RetryStep \/ StopSignal \/ StopCheck \/ Break \/ UNCHANGED vars
        => conn' = conn /\ open' = open
  BY DEF ReaderIdle, RetryStep, RetryCheck, RetryUse, RetryIo, Call, Crash, StopSignal,
         StopCheck, Break, vars
<1>. QED BY <1>1, <1>2, <1>3, <1>4, <1>5, <1>6 DEF Next, CallStep, DialStep, StopStep

(* The goroutines, connMux and Stop implement one slot with one connection:   *)
(* t.conn is filled only when nil, and a connection that leaves it is closed. *)
THEOREM LinkRefinesSlot == Spec => SlotRefinement
<1>1. Init => Slot!SlotInit
  BY DEF Init, Slot!SlotInit
<1>. QED BY <1>1, LinkInvariant, LinkStepRefines, PTL DEF Spec, SlotRefinement, Slot!SlotSpec

-----------------------------------------------------------------------------
(* AuthSession. *)

(* The start state has no answer anywhere. *)
LEMMA AuthStarts == AuthInit => AuthTypeOK /\ OkIsEarned
<1> SUFFICES ASSUME AuthInit PROVE AuthTypeOK /\ OkIsEarned
  OBVIOUS
<1>1. attempt \in [Callers -> 1..MaxRetries] /\ conns \in 1..MaxConns
  BY AuthAssumption DEF AuthInit
<1>2. caller \in [Callers -> {"waiting", "running", "exited"}]
  BY DEF AuthInit
<1>3. /\ asked \in [Callers -> BOOLEAN]
      /\ clientAuth \in BOOLEAN /\ serverAuth \in BOOLEAN /\ requests \in BOOLEAN
      /\ answers \in SUBSET Statuses
      /\ chan \in Statuses \cup {Empty}
  BY Zenon DEF AuthInit
<1>4. OkIsEarned
  <2>1. "OK" \notin answers /\ chan # "OK" BY AuthAssumption DEF AuthInit
  <2>2. clientAuth = FALSE BY DEF AuthInit
  <2>. QED BY <2>1, <2>2, Zenon DEF OkIsEarned
<1>. QED BY <1>1, <1>2, <1>3, <1>4 DEF AuthTypeOK

(* Another attempt, or none, keeps the types of what it changes. *)
LEMMA RetryType ==
  ASSUME AuthTypeOK, NEW g \in Callers, Retry(g) \/ GiveUp(g)
  PROVE  /\ caller' \in [Callers -> {"waiting", "running", "exited"}]
         /\ attempt' \in [Callers -> 1..MaxRetries]
         /\ asked' \in [Callers -> BOOLEAN]
<1>1. CASE GiveUp(g) BY <1>1 DEF GiveUp, AuthTypeOK
<1>2. CASE Retry(g) /\ attempt[g] < MaxRetries
  <2>1. /\ attempt' = [attempt EXCEPT ![g] = @ + 1]
        /\ asked' = [asked EXCEPT ![g] = FALSE] /\ caller' = caller
    BY <1>2 DEF Retry
  <2>2. attempt[g] + 1 \in 1..MaxRetries BY <1>2, AuthAssumption DEF AuthTypeOK
  <2>. QED BY <2>1, <2>2 DEF AuthTypeOK
<1>. QED BY <1>1, <1>2 DEF Retry

(* Every step keeps the types. *)
LEMMA AuthTypes == AuthTypeOK /\ [AuthNext]_authVars => AuthTypeOK'
<1> SUFFICES ASSUME AuthTypeOK, [AuthNext]_authVars PROVE AuthTypeOK'
  OBVIOUS
<1> USE AuthAssumption DEF AuthTypeOK, linkVars, callVars
<1>1. ASSUME NEW g \in Callers, SendRequest(g) PROVE AuthTypeOK'
  BY <1>1 DEF SendRequest
<1>2. ASSUME NEW g \in Callers, SendFails(g) \/ AuthTimeout(g) PROVE AuthTypeOK'
  BY <1>2, RetryType DEF SendFails, AuthTimeout
<1>3. ASSUME NEW g \in Callers, TakeAnswer(g) PROVE AuthTypeOK'
  <2>1. CASE chan = "OK" BY <1>3, <2>1 DEF TakeAnswer
  <2>2. CASE chan # "OK"
    <3>1. Retry(g) \/ GiveUp(g) BY <1>3, <2>2 DEF TakeAnswer
    <3>. QED BY <1>3, <2>2, <3>1, RetryType DEF TakeAnswer
  <2>. QED BY <2>1, <2>2
<1>4. ASSUME NEW s \in Statuses, HandleAuth(s) PROVE AuthTypeOK'
  BY <1>4 DEF HandleAuth
<1>5. ASSUME NEW s \in Statuses, LoseAnswer(s) \/ ReadAnswer(s) PROVE AuthTypeOK'
  BY <1>5 DEF LoseAnswer, ReadAnswer
<1>6. CASE LoseRequest BY <1>6 DEF LoseRequest
<1>7. CASE ReadError
  <2>1. conns' \in 1..MaxConns BY <1>7 DEF ReadError, NewConnection
  <2>2. caller' \in [Callers -> {"waiting", "running", "exited"}] BY <1>7 DEF ReadError
  <2>3. attempt' \in [Callers -> 1..MaxRetries]
    <3>1. 1 \in 1..MaxRetries OBVIOUS
    <3>2. attempt' = [attempt EXCEPT !["reader"] = 1] BY <1>7 DEF ReadError
    <3>. QED BY <3>1, <3>2
  <2>4. asked' \in [Callers -> BOOLEAN] /\ chan' \in Statuses \cup {Empty}
    BY <1>7 DEF ReadError
  <2>5. /\ clientAuth' \in BOOLEAN /\ serverAuth' \in BOOLEAN /\ requests' \in BOOLEAN
        /\ answers' \in SUBSET Statuses
    BY <1>7, Zenon DEF ReadError, NewConnection
  <2>. QED BY <2>1, <2>2, <2>3, <2>4, <2>5
<1>8. CASE OtherReconnect
  <2>1. conns' \in 1..MaxConns BY <1>8 DEF OtherReconnect, NewConnection
  <2>2. /\ serverAuth' \in BOOLEAN /\ requests' \in BOOLEAN
        /\ answers' \in SUBSET Statuses
    BY <1>8, Zenon DEF OtherReconnect, NewConnection
  <2>. QED BY <1>8, <2>1, <2>2 DEF OtherReconnect
<1>9. CASE UNCHANGED authVars BY <1>9 DEF authVars
<1>. QED
  BY <1>1, <1>2, <1>3, <1>4, <1>5, <1>6, <1>7, <1>8, <1>9 DEF AuthNext, AuthStep

(* Every step keeps OkIsEarned: only handleClientAuthentication makes an "OK", *)
(* and only a new connection clears the server's flag.                         *)
LEMMA AuthStepEarned == AuthTypeOK /\ OkIsEarned /\ [AuthNext]_authVars => OkIsEarned'
<1> SUFFICES ASSUME AuthTypeOK, OkIsEarned, [AuthNext]_authVars PROVE OkIsEarned'
  OBVIOUS
<1> USE DEF OkIsEarned, linkVars, callVars
<1>1. ASSUME NEW g \in Callers, SendRequest(g) \/ SendFails(g) \/ AuthTimeout(g)
      PROVE OkIsEarned'
  BY <1>1 DEF SendRequest, SendFails, AuthTimeout
<1>2. ASSUME NEW g \in Callers, TakeAnswer(g) PROVE OkIsEarned'
  BY <1>2, AuthAssumption DEF TakeAnswer
<1>3. ASSUME NEW s \in Statuses, HandleAuth(s) PROVE OkIsEarned'
  BY <1>3 DEF HandleAuth
<1>4. ASSUME NEW s \in Statuses, LoseAnswer(s) \/ ReadAnswer(s) PROVE OkIsEarned'
  BY <1>4 DEF LoseAnswer, ReadAnswer
<1>5. CASE LoseRequest BY <1>5 DEF LoseRequest
<1>6. CASE ReadError \/ OtherReconnect
  <2>1. conns' = conns + 1 /\ conns >= 1
    BY <1>6, AuthAssumption DEF ReadError, OtherReconnect, NewConnection, AuthTypeOK
  <2>2. conns' # 1 BY <2>1, AuthAssumption DEF AuthTypeOK
  <2>. QED BY <2>2
<1>7. CASE UNCHANGED authVars BY <1>7 DEF authVars
<1>. QED BY <1>1, <1>2, <1>3, <1>4, <1>5, <1>6, <1>7 DEF AuthNext, AuthStep

(* On the first connection, with any number of retries and whatever is lost,  *)
(* late or rejected, the client's flag implies the server's                   *)
(* (performClientAuthentication, handleClientAuthentication).                 *)
THEOREM FirstAuthAgrees == AuthSpec => [](AuthTypeOK /\ OkIsEarned)
<1>1. QED BY AuthStarts, AuthTypes, AuthStepEarned, PTL DEF AuthSpec
=============================================================================
