---------------------------- MODULE AuthSession ----------------------------
(***************************************************************************)
(* encrypt_after_auth: the client proves that it has the key once per      *)
(* connection, and from then on both sides send data packets unencrypted.  *)
(* Client and server each keep a flag; data gets through only while the    *)
(* flags agree.  The answer to an authentication request is read by        *)
(* netReader, which passes it through the one-place channel                *)
(* authResponseChan to the goroutine that waits in                         *)
(* performClientAuthentication: Start, or netReader itself after a read    *)
(* error.  The other goroutines reconnect without authenticating.          *)
(*                                                                         *)
(* Requests and answers under way belong to the current connection; they   *)
(* are gone when it is replaced.  They may be lost or late.                *)
(***************************************************************************)
EXTENDS Naturals

CONSTANTS
    Reliable,       \* nothing is lost or late, and the clocks agree
    MaxRetries,     \* const maxRetries; 3 in the code
    MaxConns,       \* bound: connections in a behaviour
    Empty           \* authResponseChan holds nothing

ASSUME AuthAssumption ==
    /\ Reliable \in BOOLEAN
    /\ MaxRetries \in Nat \ {0}
    /\ MaxConns \in Nat \ {0}
    /\ Empty \notin {"OK", "EXPIRED", "INVALID"}

\* The goroutines that call performClientAuthentication.
Callers == {"start", "reader"}

\* The answers of the server: the time stamp is outside the window, or the
\* request cannot be used.
Statuses == {"OK"} \cup IF Reliable THEN {} ELSE {"EXPIRED", "INVALID"}

VARIABLES
    caller,      \* Start and netReader: in performClientAuthentication or not
    attempt,     \* the attempt a waiting goroutine is at
    asked,       \* its request for this attempt has been written
    chan,        \* authResponseChan
    clientAuth,  \* t.authenticated on the client
    serverAuth,  \* client.authenticated of the current connection
    requests,    \* some authentication request is under way
    answers,     \* answers under way
    conns        \* connections so far

authVars == <<caller, attempt, asked, chan, clientAuth, serverAuth, requests,
              answers, conns>>
linkVars == <<serverAuth, requests, answers, conns>>
callVars == <<caller, attempt, asked>>

AuthTypeOK ==
    /\ caller \in [Callers -> {"waiting", "running", "exited"}]
    /\ attempt \in [Callers -> 1..MaxRetries]
    /\ asked \in [Callers -> BOOLEAN]
    /\ chan \in Statuses \cup {Empty}
    /\ clientAuth \in BOOLEAN
    /\ serverAuth \in BOOLEAN
    /\ requests \in BOOLEAN
    /\ answers \in SUBSET Statuses
    /\ conns \in 1..MaxConns

\* Start has connected, started netReader and called
\* performClientAuthentication.
AuthInit ==
    /\ caller = [g \in Callers |-> IF g = "start" THEN "waiting" ELSE "running"]
    /\ attempt = [g \in Callers |-> 1]
    /\ asked = [g \in Callers |-> FALSE]
    /\ chan = Empty
    /\ clientAuth = FALSE
    /\ serverAuth = FALSE
    /\ requests = FALSE
    /\ answers = {}
    /\ conns = 1

-----------------------------------------------------------------------------
(* performClientAuthentication. *)

\* The request is encrypted and written.
SendRequest(g) ==
    /\ caller[g] = "waiting"
    /\ ~asked[g]
    /\ asked' = [asked EXCEPT ![g] = TRUE]
    /\ requests' = TRUE
    /\ UNCHANGED <<caller, attempt, chan, clientAuth, serverAuth, answers, conns>>

\* Attempts that are not counted.
RetryForever(g) ==
    /\ asked' = [asked EXCEPT ![g] = FALSE]
    /\ UNCHANGED <<caller, attempt>>

\* performClientAuthentication fails: Start stops the tunnel, which ends
\* netReader; netReader closes the connection and returns.
GiveUp(g) ==
    /\ caller' = [h \in Callers |-> IF h = g \/ g = "start" THEN "exited" ELSE caller[h]]
    /\ asked' = [asked EXCEPT ![g] = FALSE]
    /\ UNCHANGED attempt

\* The next attempt, if one is left.
Retry(g) ==
    IF attempt[g] < MaxRetries
    THEN /\ attempt' = [attempt EXCEPT ![g] = @ + 1]
         /\ asked' = [asked EXCEPT ![g] = FALSE]
         /\ UNCHANGED caller
    ELSE GiveUp(g)

\* The write fails.
SendFails(g) ==
    /\ ~Reliable
    /\ caller[g] = "waiting"
    /\ ~asked[g]
    /\ Retry(g)
    /\ UNCHANGED <<chan, clientAuth, linkVars>>

\* Nothing came through the channel for AuthenticationTimeout.  On a reliable
\* network that means that nothing is under way that netReader could read.
AuthTimeout(g) ==
    /\ caller[g] = "waiting"
    /\ asked[g]
    /\ chan = Empty
    /\ Reliable => ~requests /\ (answers = {} \/ caller["reader"] # "running")
    /\ Retry(g)
    /\ UNCHANGED <<chan, clientAuth, linkVars>>

\* Something is in the channel: success, a rejection that is retried, or one that
\* is final.
TakeAnswer(g) ==
    /\ caller[g] = "waiting"
    /\ asked[g]
    /\ chan # Empty
    /\ chan' = Empty
    /\ IF chan = "OK"
       THEN /\ clientAuth' = TRUE
            /\ asked' = [asked EXCEPT ![g] = FALSE]
            /\ caller' = [caller EXCEPT ![g] = "running"]
            /\ UNCHANGED attempt
       ELSE /\ IF chan = "INVALID" THEN GiveUp(g) ELSE Retry(g)
            /\ UNCHANGED clientAuth
    /\ UNCHANGED linkVars

-----------------------------------------------------------------------------
(* The server and the network. *)

\* The flag is set once the answer has been written, if another request comes.
HandleAuthLate(status) ==
    /\ requests
    /\ requests' \in (IF Reliable THEN {FALSE} ELSE BOOLEAN)
    /\ serverAuth' = ("OK" \in answers)
    /\ answers' = answers \cup {status}
    /\ UNCHANGED <<callVars, chan, clientAuth, conns>>

\* handleClientAuthentication and sendAuthResponse: only a request that is well
\* formed and in time sets the flag.  More requests may be under way.
HandleAuth(status) ==
    /\ requests
    /\ requests' \in (IF Reliable THEN {FALSE} ELSE BOOLEAN)
    /\ serverAuth' = (status = "OK" \/ serverAuth)
    /\ answers' = answers \cup {status}
    /\ UNCHANGED <<callVars, chan, clientAuth, conns>>

LoseRequest ==
    /\ ~Reliable
    /\ requests
    /\ requests' = FALSE
    /\ UNCHANGED <<callVars, chan, clientAuth, serverAuth, answers, conns>>

LoseAnswer(status) ==
    /\ ~Reliable
    /\ status \in answers
    /\ answers' = answers \ {status}
    /\ UNCHANGED <<callVars, chan, clientAuth, serverAuth, requests, conns>>

-----------------------------------------------------------------------------
(* netReader and the goroutines that reconnect. *)

\* An answer is put into the channel, or dropped if the channel is full.
ReadAnswer(status) ==
    /\ caller["reader"] = "running"
    /\ status \in answers
    /\ answers' = answers \ {status}
    /\ chan' = IF chan = Empty THEN status ELSE chan
    /\ UNCHANGED <<callVars, clientAuth, serverAuth, requests, conns>>

\* The connection is replaced: the server has a new, unauthenticated one.
NewConnection ==
    /\ conns < MaxConns
    /\ conns' = conns + 1
    /\ serverAuth' = FALSE
    /\ requests' = FALSE
    /\ answers' = {}

\* ReadPacket fails and reconnectToServer succeeds: the flag is cleared and
\* netReader itself waits for the new authentication.
ReadError ==
    /\ caller["reader"] = "running"
    /\ NewConnection
    /\ clientAuth' = FALSE
    /\ caller' = [caller EXCEPT !["reader"] = "waiting"]
    /\ attempt' = [attempt EXCEPT !["reader"] = 1]
    /\ UNCHANGED <<asked, chan>>

\* netReader's idle check, or netWriter or keepalive once Start has returned,
\* replaces the connection; none of them authenticates.
OtherReconnect ==
    /\ "running" \in {caller[g] : g \in Callers}
    /\ NewConnection
    /\ UNCHANGED <<callVars, chan, clientAuth>>

-----------------------------------------------------------------------------

AuthStep(g) == SendRequest(g) \/ SendFails(g) \/ AuthTimeout(g) \/ TakeAnswer(g)

AuthNext ==
    \/ \E g \in Callers : AuthStep(g)
    \/ \E status \in Statuses :
          HandleAuth(status) \/ LoseAnswer(status) \/ ReadAnswer(status)
    \/ LoseRequest
    \/ ReadError
    \/ OtherReconnect

AuthSpec == AuthInit /\ [][AuthNext]_authVars

\* A waiting goroutine goes on, at the latest when its timer fires; the server
\* handles what it receives and netReader reads what it can read.
AuthFairness ==
    /\ \A g \in Callers : WF_authVars(AuthStep(g))
    /\ WF_authVars(\E status \in Statuses : HandleAuth(status))
    /\ WF_authVars(\E status \in Statuses : ReadAnswer(status))

FairAuthSpec == AuthSpec /\ AuthFairness

-----------------------------------------------------------------------------
(* Properties. *)

\* On the first connection an "OK", wherever it is, was earned: the server has
\* set its flag.  So the client never sends data in the clear before the server
\* accepts it that way, whatever is lost, late, repeated or rejected.
OkIsEarned ==
    conns = 1 => (("OK" \in answers \/ chan = "OK" \/ clientAuth) => serverAuth)

\* Nobody waits for ever in performClientAuthentication, also when the answer
\* never comes and connections are replaced meanwhile.
AuthEnds ==
    \A g \in Callers : (caller[g] = "waiting") ~> (caller[g] # "waiting")

(* What a comment says and the code does not keep. *)

\* "The response will be handled by netReader and sent to authResponseChan":
\* on a reliable network the authentication after a read error succeeds and
\* netReader goes on reading.
ReauthSucceeds == (caller["reader"] = "waiting") ~> (caller["reader"] = "running")
=============================================================================
