------------------------------- MODULE Clients -------------------------------
(***************************************************************************)
(* One stratum connection, common/net/Client.cpp: what each of its methods *)
(* and libuv callbacks does to the Client object.  A client is a record,   *)
(* an operation maps a client to the client after it; the strategies that  *)
(* own clients and the listener calls are in the modules that use this.    *)
(*                                                                         *)
(*   state     m_state                                                     *)
(*   socket    m_socket and what the peer has done with it: "connecting",  *)
(*             "open" (login sent), "served" (login answered with a job),  *)
(*             "refused" (login answered otherwise), "closing"; "dead" if  *)
(*             uv_tcp_connect refused at once, "leaked" once a second      *)
(*             socket has overwritten m_socket                             *)
(*   lookup    requests in flight on m_resolver; 2 is undefined behaviour  *)
(*   failures  m_failures, counted no further than Retries                 *)
(*   expire    m_expire is set, so that a later tick may find it passed    *)
(*   pinging   m_keepAlive has passed: every tick sends a ping             *)
(*   listener  m_listener is set                                           *)
(*   removed   the object has been deleted                                 *)
(*   known     m_job is the job the pool would send now                    *)
(*   jobs      m_jobs > 0                                                  *)
(*                                                                         *)
(* TLS is left out: it adds a handshake between connect and login.         *)
(***************************************************************************)
EXTENDS Integers

CONSTANT Retries        \* --retries, at which the failures are capped

ASSUME RetriesAssumption == Retries \in Nat \ {0}

States  == {"unconnected", "lookup", "connecting", "connected", "closing"}
Sockets == {"none", "connecting", "open", "served", "refused", "closing", "dead",
            "leaked"}

Client == [state : States, socket : Sockets, lookup : 0..2, failures : -1..Retries,
           expire : BOOLEAN, pinging : BOOLEAN, listener : BOOLEAN,
           removed : BOOLEAN, known : BOOLEAN, jobs : BOOLEAN]

NewClient == [state |-> "unconnected", socket |-> "none", lookup |-> 0,
              failures |-> 0, expire |-> FALSE, pinging |-> FALSE,
              listener |-> TRUE, removed |-> FALSE, known |-> FALSE, jobs |-> FALSE]

(* connect() and resolve(): the lookup is started, unless getaddrinfo       *)
(* refuses the name at once.                                                *)
Resolve(c, accepted) ==
    [c EXCEPT !.state = "lookup", !.expire = FALSE,
              !.failures = IF @ = -1 THEN 0 ELSE @,
              !.lookup = IF accepted /\ @ < 2 THEN @ + 1 ELSE @]

(* close(): only a client that has a socket can be closed.                  *)
Close(c) ==
    IF c.socket = "none" \/ c.state \in {"unconnected", "closing"} THEN c
    ELSE [c EXCEPT !.state = "closing", !.socket = "closing"]

(* disconnect(): close, and do not come back.                               *)
Disconnect(c) == Close([c EXCEPT !.expire = FALSE, !.pinging = FALSE, !.failures = -1])

(* deleteLater(): a client that close() did not put into closing is freed   *)
(* at once, any other by its close callback.                                *)
DeleteLater(c) ==
    LET d == Disconnect([c EXCEPT !.listener = FALSE])
    IN  IF ~c.listener THEN c
        ELSE [d EXCEPT !.removed = d.state # "closing" \/ d.socket = "none"]

(* Mutant of Reconnect: the retry is not scheduled.                         *)
ReconnectUnscheduled(c) ==
    IF ~c.listener THEN [c EXCEPT !.removed = TRUE]
    ELSE IF c.failures = -1 THEN [c EXCEPT !.pinging = FALSE]
    ELSE [c EXCEPT !.state = "connecting", !.pinging = FALSE,
                   !.failures = IF @ < Retries THEN @ + 1 ELSE @]

(* reconnect(): a client that was not disconnected schedules its retry.     *)
Reconnect(c) ==
    IF ~c.listener THEN [c EXCEPT !.removed = TRUE]
    ELSE IF c.failures = -1 THEN [c EXCEPT !.pinging = FALSE]
    ELSE [c EXCEPT !.state = "connecting", !.expire = TRUE, !.pinging = FALSE,
                   !.failures = IF @ < Retries THEN @ + 1 ELSE @]

(* connect(sockaddr): a new socket, whatever m_socket held.  What           *)
(* uv_tcp_connect returns is not looked at: if it fails, no onConnect comes.*)
ConnectSocket(c, routed) ==
    [c EXCEPT !.state = "connecting",
              !.socket = CASE @ # "none" -> "leaked"
                           [] @ = "none" /\ routed -> "connecting"
                           [] OTHER -> "dead"]

(* onConnect with success, and login(): sent, or the write fails.           *)
Login(c, written) ==
    LET d == [c EXCEPT !.state = "connected", !.socket = "open"]
    IN  IF written THEN [d EXCEPT !.expire = TRUE] ELSE Close(d)

(* onClose(): the socket is gone.                                           *)
Unconnected(c) == [c EXCEPT !.state = "unconnected", !.socket = "none"]

(* parse() of anything: the peer answers, the timeout is off and the time   *)
(* of the next ping is set.                                                 *)
Heard(c) == [c EXCEPT !.expire = FALSE, !.pinging = FALSE]

(* parseLogin(), before the failures are cleared: a job like the one held   *)
(* is refused, and either way the count of jobs starts again.               *)
LoginAccepted(c) == ~c.known
LoggedIn(c) ==
    IF LoginAccepted(c)
    THEN [Heard(c) EXCEPT !.socket = "served", !.known = TRUE, !.jobs = FALSE,
                          !.failures = 0]
    ELSE Close([Heard(c) EXCEPT !.jobs = FALSE])

(* parseJob() of a notification: a new job is taken; the same one again     *)
(* closes the connection, unless no other has come since the login.         *)
JobTaken(c)  == [Heard(c) EXCEPT !.known = TRUE, !.jobs = TRUE]
JobAgain(c)  == IF c.jobs THEN Close(Heard(c)) ELSE Heard(c)

(* ping(): written, or the write fails.  m_keepAlive stays as it is.        *)
Pinged(c, written) ==
    IF written THEN [c EXCEPT !.expire = TRUE, !.pinging = TRUE] ELSE Close(c)
=============================================================================
