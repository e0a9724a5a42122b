------------------------------ MODULE Failover ------------------------------
(***************************************************************************)
(* FailoverStrategy (common/net/strategies/FailoverStrategy.cpp) over its  *)
(* clients, from Network::connect to Network::stop or the deletion of the  *)
(* strategy when the pools are reloaded.  Every callback of a client runs  *)
(* on the main loop, so each is one step together with the calls it makes  *)
(* on the strategy, on other clients and on the Network.                   *)
(*                                                                         *)
(* `servers' is the world: a pool is "up", "down", or "odd" - it accepts   *)
(* connections but refuses logins, repeats jobs or falls silent.           *)
(***************************************************************************)
EXTENDS Clients

CONSTANTS
    N,              \* number of pools
    BadHosts,       \* pools whose name getaddrinfo refuses at once
    NoRoute,        \* pools to which connect() may be refused at once
    Odd,            \* pools that may behave oddly
    Overtake,       \* a retry may come before a connection attempt that
                    \* disconnect() did not stop is over
    KeepAlive       \* --keepalive

ASSUME FailoverAssumption ==
    /\ N \in Nat /\ N > 1
    /\ BadHosts \subseteq 0..(N - 1) /\ NoRoute \subseteq 0..(N - 1)
    /\ Odd \subseteq 0..(N - 1)
    /\ Overtake \in BOOLEAN /\ KeepAlive \in BOOLEAN

Pools == 0..(N - 1)

VARIABLES
    clients,    \* m_pools
    active,     \* m_active
    index,      \* m_index
    mining,     \* the pool whose job the Network last passed on, -1 if paused
    phase,      \* "new", "running", "stopped" or "deleted"
    servers

vars == <<clients, active, index, mining, phase, servers>>

Init ==
    /\ clients = [p \in Pools |-> NewClient]
    /\ active = -1 /\ index = 0 /\ mining = -1
    /\ phase = "new"
    /\ servers \in [Pools -> {"up", "down"}]

-----------------------------------------------------------------------------
(* The strategy's methods, on the record s of the four variables it owns.   *)

S(cs) == [c |-> cs, active |-> active, index |-> index, mining |-> mining]
Becomes(s) ==
    /\ clients' = s.c /\ active' = s.active /\ index' = s.index /\ mining' = s.mining

ConnectTo(s, p) == [s EXCEPT !.c[p] = Resolve(@, p \notin BadHosts)]

(* Mutant of OnClose: the primary is left as soon as it fails once.         *)
OnCloseNext(s, p, failures) ==
    LET lost == IF s.active = p THEN [s EXCEPT !.active = -1, !.mining = -1] ELSE s
    IN  IF failures # -1 /\ s.index = p /\ p < N - 1
        THEN ConnectTo([lost EXCEPT !.index = p + 1], p + 1)
        ELSE lost

(* Mutant of OnClose: the next pool is never tried.                         *)
OnCloseStays(s, p, failures) ==
    IF failures # -1 /\ s.active = p THEN [s EXCEPT !.active = -1, !.mining = -1] ELSE s

(* onClose(): the miner pauses if its pool is lost; the primary is tried    *)
(* Retries times before the next pool, any other once.                      *)
OnClose(s, p, failures) ==
    LET lost == IF s.active = p THEN [s EXCEPT !.active = -1, !.mining = -1] ELSE s
    IN  IF failures = -1 THEN s
        ELSE IF s.index = 0 /\ failures < Retries THEN lost
        ELSE IF s.index = p /\ p < N - 1
             THEN ConnectTo([lost EXCEPT !.index = p + 1], p + 1)
             ELSE lost

(* Mutant of OnLoginSuccess: the last to log in becomes the active pool.    *)
OnLoginSuccessLast(s, p) ==
    [s EXCEPT !.c = [q \in Pools |-> IF q # 0 /\ q # p THEN Disconnect(@[q]) ELSE @[q]],
              !.active = p, !.index = p, !.mining = p]

(* Mutant of OnLoginSuccess: the other pools stay connected.                *)
OnLoginSuccessKeeps(s, p) ==
    IF p = 0 \/ s.active = -1 THEN [s EXCEPT !.active = p, !.index = p, !.mining = p] ELSE s

(* Mutant of OnLoginSuccess: the primary is not preferred to a backup.      *)
OnLoginSuccessFirst(s, p) ==
    LET a == IF s.active = -1 THEN p ELSE s.active
    IN  [s EXCEPT !.c = [q \in Pools |-> IF q # a THEN Disconnect(@[q]) ELSE @[q]],
                  !.active = a, !.index = a, !.mining = a]

(* onLoginSuccess() and the onJobReceived() that follows it: the primary,   *)
(* or the first to log in, is the active pool; all backups but the active   *)
(* pool are disconnected, even the one that just logged in.                 *)
OnLoginSuccess(s, p) ==
    LET a == IF p = 0 \/ s.active = -1 THEN p ELSE s.active
    IN  [s EXCEPT !.c = [q \in Pools |-> IF q # 0 /\ q # a THEN Disconnect(@[q]) ELSE @[q]],
                  !.active = a,
                  !.index = IF a # s.active THEN a ELSE @,
                  !.mining = IF a = p THEN p ELSE @]

(* A client that lost its connection: reconnect(), with its onClose().      *)
Lose(p, c) ==
    LET d == Reconnect(c)
        s == S([clients EXCEPT ![p] = d])
    IN  Becomes(IF d.removed THEN s ELSE OnClose(s, p, d.failures))

Update(p, c) ==
    /\ clients' = [clients EXCEPT ![p] = c]
    /\ UNCHANGED <<active, index, mining>>

-----------------------------------------------------------------------------
(* Calls of the Network.                                                    *)

(* Network::connect()                                                       *)
Connect ==
    /\ phase = "new"
    /\ phase' = "running"
    /\ Becomes(ConnectTo(S(clients), index))
    /\ UNCHANGED servers

Stopped == [c |-> [p \in Pools |-> Disconnect(clients[p])],
            active |-> -1, index |-> 0, mining |-> -1]

(* stop(), from Network::stop when the program ends: what is left of the    *)
(* loop's last iteration are callbacks, no timers.                          *)
Stop ==
    /\ phase = "running"
    /\ phase' = "stopped"
    /\ Becomes(Stopped)
    /\ UNCHANGED servers

(* stop() and ~FailoverStrategy(), from Network::onConfigChanged            *)
Reload ==
    /\ phase = "running"
    /\ phase' = "deleted"
    /\ Becomes([Stopped EXCEPT !.c = [p \in Pools |-> DeleteLater(@[p])]])
    /\ UNCHANGED servers

-----------------------------------------------------------------------------
(* Client::tick(), from the strategy's tick() once a second.  libuv runs    *)
(* the close callbacks of an iteration before the timers of the next.       *)

Unstopped(c) == c.failures = -1 /\ (c.lookup > 0 \/ c.socket \in {"connecting", "open"})

TimersRun ==
    /\ phase = "running"
    /\ \A q \in Pools : clients[q].socket # "closing"

(* A server that is up answers within the 20 seconds of kResponseTimeout.   *)
(* A client that sends pings moves its m_expire with every one of them, and *)
(* they come every second.                                                  *)
Timeout(p) ==
    /\ TimersRun
    /\ servers[p] # "up"
    /\ clients[p].expire /\ clients[p].state = "connected"
    /\ ~clients[p].pinging
    /\ Update(p, Close(clients[p]))
    /\ UNCHANGED <<phase, servers>>

Retry(p) ==
    /\ TimersRun
    /\ Overtake \/ \A q \in Pools : ~Unstopped(clients[q])
    /\ clients[p].expire /\ clients[p].state = "connecting"
    /\ Becomes(ConnectTo(S(clients), p))
    /\ UNCHANGED <<phase, servers>>

Ping(p) ==
    /\ TimersRun
    /\ KeepAlive
    /\ clients[p].state = "connected" /\ clients[p].socket \in {"served", "refused"}
    /\ \E written \in {TRUE, servers[p] = "up"} : Update(p, Pinged(clients[p], written))
    /\ UNCHANGED <<phase, servers>>

-----------------------------------------------------------------------------
(* Callbacks of a client.  They find no client once it is removed.          *)

Alive(p) == ~clients[p].removed /\ clients[p].lookup < 2 /\ clients[p].socket # "leaked"

(* onResolved()                                                             *)
Resolved(p) ==
    /\ Alive(p) /\ clients[p].lookup = 1
    /\ LET c == [clients[p] EXCEPT !.lookup = 0]
       IN  \/ /\ c.listener
              /\ \E routed \in {TRUE, p \notin NoRoute \/ servers[p] # "down"} :
                    Update(p, ConnectSocket(c, routed))
           \/ (servers[p] = "down" \/ ~c.listener) /\ Lose(p, c)
    /\ UNCHANGED <<phase, servers>>

(* onConnect(); a connection that was closed meanwhile is left to Closed.   *)
Connected(p) ==
    /\ Alive(p) /\ clients[p].socket = "connecting"
    /\ \/ /\ servers[p] # "down"
          /\ \E written \in {TRUE, servers[p] = "up"} : Update(p, Login(clients[p], written))
       \/ servers[p] = "down" /\ Update(p, Close(clients[p]))
    /\ UNCHANGED <<phase, servers>>

(* onRead() of the answer to the login.                                     *)
Accepted(p) ==
    /\ Alive(p) /\ clients[p].socket = "open"
    /\ servers[p] = "up"
    /\ LET c == LoggedIn(clients[p])
       IN  IF LoginAccepted(clients[p])
           THEN Becomes(OnLoginSuccess(S([clients EXCEPT ![p] = c]), p))
           ELSE Update(p, c)
    /\ UNCHANGED <<phase, servers>>

(* onRead() of an error, or of a line that is no JSON: a critical error     *)
(* closes the connection, any other is only logged.                         *)
Refused(p) ==
    /\ Alive(p) /\ clients[p].socket \in {"open", "served", "refused"}
    /\ servers[p] = "odd"
    /\ \/ Update(p, Close(Heard(clients[p])))
       \/ Update(p, [Heard(clients[p]) EXCEPT !.socket =
                        IF @ = "open" THEN "refused" ELSE @])
    /\ UNCHANGED <<phase, servers>>

(* onRead() of the answer to a share or a ping                              *)
Answered(p) ==
    /\ Alive(p) /\ clients[p].socket = "served" /\ clients[p].expire
    /\ servers[p] = "up"
    /\ Update(p, Heard(clients[p]))
    /\ UNCHANGED <<phase, servers>>

(* onRead() of a job; it goes on to the Network from the active pool only.  *)
Notified(p) ==
    /\ Alive(p) /\ clients[p].socket = "served"
    /\ servers[p] # "down"
    /\ \/ ~clients[p].known /\ Update(p, JobTaken(clients[p]))
       \/ /\ clients[p].known
          /\ clients[p].jobs => servers[p] = "odd"
          /\ Update(p, JobAgain(clients[p]))
    /\ UNCHANGED <<phase, servers>>

(* onRead() of an error                                                     *)
Dropped(p) ==
    /\ Alive(p) /\ clients[p].socket \in {"open", "served", "refused"}
    /\ servers[p] = "down"
    /\ Update(p, Close(clients[p]))
    /\ UNCHANGED <<phase, servers>>

(* onClose()                                                                *)
Closed(p) ==
    /\ Alive(p) /\ clients[p].socket = "closing"
    /\ Lose(p, Unconnected(clients[p]))
    /\ UNCHANGED <<phase, servers>>

-----------------------------------------------------------------------------
(* The world.                                                               *)

NewBlock(p) ==
    /\ clients[p].known
    /\ clients' = [clients EXCEPT ![p].known = FALSE]
    /\ UNCHANGED <<active, index, mining, phase, servers>>

Turn(p) ==
    /\ \E v \in {"up", "down"} \cup (IF p \in Odd THEN {"odd"} ELSE {}) :
          v # servers[p] /\ servers' = [servers EXCEPT ![p] = v]
    /\ UNCHANGED <<clients, active, index, mining, phase>>

Callback(p) == Resolved(p) \/ Connected(p) \/ Accepted(p) \/ Answered(p)
               \/ Dropped(p) \/ Closed(p)
Tick(p) == Timeout(p) \/ Retry(p)

Next == Connect \/ Stop \/ Reload
        \/ \E p \in Pools : Callback(p) \/ Refused(p) \/ Notified(p) \/ Tick(p)
                            \/ Ping(p) \/ NewBlock(p) \/ Turn(p)

Spec == Init /\ [][Next]_vars

(* libuv runs every callback that is due and every timer, the servers that  *)
(* are up answer, and pools find new jobs.                                  *)
FairSpec == Spec /\ WF_vars(Connect)
                 /\ \A p \in Pools : /\ WF_vars(Resolved(p)) /\ WF_vars(Connected(p))
                                     /\ WF_vars(Accepted(p)) /\ WF_vars(Answered(p))
                                     /\ WF_vars(Dropped(p)) /\ WF_vars(Closed(p))
                                     /\ SF_vars(Timeout(p)) /\ SF_vars(Retry(p))
                                     /\ WF_vars(NewBlock(p))

-----------------------------------------------------------------------------
(* Properties.                                                              *)

TypeOK ==
    /\ clients \in [Pools -> Client]
    /\ active \in Pools \cup {-1} /\ index \in Pools /\ mining \in Pools \cup {-1}
    /\ phase \in {"new", "running", "stopped", "deleted"}
    /\ servers \in [Pools -> {"up", "down", "odd"}]

(* The miner works for the pool the strategy calls active, which is where   *)
(* submit() sends the shares, and that pool has accepted the login on a     *)
(* connection that is not yet known to be lost.                             *)
MinesForActive ==
    /\ mining = active
    /\ active # -1 => /\ clients[active].state \in {"connected", "closing"}
                      /\ clients[active].failures = 0

(* Never logged in at two pools at once: who is served is the active pool.  *)
ServedIsActive ==
    \A p \in Pools : clients[p].socket = "served" => active = p

(* m_index is the active pool, if there is one, so that losing it moves on  *)
(* to the pool after it.                                                    *)
IndexIsActive == active # -1 => index = active

(* A pool whose client nobody disconnected has an event to come: it is not  *)
(* left without a socket, a lookup or a timer.  The exceptions are a name   *)
(* that getaddrinfo refuses at once, and a "dead" socket, to which no       *)
(* callback comes.                                                          *)
NeverForgotten ==
    \A p \in Pools \ BadHosts : (phase = "running" /\ (p = 0 \/ p = index))
        => clients[p].expire \/ clients[p].lookup > 0 \/ clients[p].socket # "none"

(* No undefined behaviour: m_resolver is not reused while in flight, and    *)
(* m_socket is not overwritten while it holds a socket.                     *)
HandlesOwned ==
    \A p \in Pools : clients[p].lookup < 2 /\ clients[p].socket # "leaked"

(* The strategy is one of pool preference.                                  *)
P == INSTANCE Preference WITH Pools <- Pools, mining <- mining
Prefers == P!Spec

NeverOdd == [](\A p \in Pools : servers[p] # "odd")

(* A primary that comes back for good is mined for again, for good.         *)
PrimaryReturns ==
    NeverOdd /\ <>[](servers[0] = "up" /\ phase = "running") => <>[](active = 0)

(* As long as one pool is up, the miner comes to work, again and again.     *)
SomePoolServes ==
    \A p \in Pools :
        NeverOdd /\ <>[](servers[p] = "up" /\ phase = "running") => []<>(active # -1)

(* A pool that stays silent does not keep its connection: time and again no *)
(* answer is overdue.                                                       *)
SilenceTimesOut ==
    \A p \in Pools : <>[](servers[p] = "odd" /\ phase = "running")
        => []<>(~clients[p].expire \/ clients[p].state # "connected")

(* Storage::get asserts that a callback finds its client: a client is only  *)
(* removed when its socket is closed.  deleteLater() does not look at a     *)
(* lookup in flight, and that one may come too late.                        *)
CallbackFindsClient ==
    \A p \in Pools : clients[p].removed => clients[p].socket = "none"

(* disconnect() neither cancels a lookup nor waits for the close callback.   *)
(* This says that connect() never overtakes what it left behind: nobody      *)
(* starts a lookup for a client that was disconnected while its last lookup, *)
(* or its last socket, is still there.                                       *)
LeftBehind(c) == c.failures = -1 /\ (c.lookup > 0 \/ c.socket # "none")
LeavesAlone ==
    \A p \in Pools : LeftBehind(clients[p]) => clients'[p].lookup <= clients[p].lookup
NoOvertaking == [][LeavesAlone]_vars

(* At any time one pool is worked for, and it is the only one that serves.   *)
OnePoolServes == MinesForActive /\ ServedIsActive

(* No handle is used twice, and none is called back after its client is gone.*)
HandlesSafe == HandlesOwned /\ CallbackFindsClient

(* A pool that fails or falls silent is left, for any other that is up.      *)
FailedPoolsAreLeft == SomePoolServes /\ SilenceTimesOut
=============================================================================
