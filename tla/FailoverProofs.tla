--------------------------- MODULE FailoverProofs ---------------------------
(* Theorems about Failover, for any number of pools and of retries, with    *)
(* their proofs.                                                            *)
EXTENDS Failover, TLAPS

-----------------------------------------------------------------------------
(* Every operation of a client yields a client, for any number of retries.  *)

LEMMA Counts ==
  /\ 0 \in -1..Retries /\ -1 \in -1..Retries
  /\ \A n \in -1..Retries : n < Retries => n + 1 \in -1..Retries
  BY RetriesAssumption

LEMMA NewClientType == NewClient \in Client
  BY Counts DEF NewClient, Client, States, Sockets

LEMMA ResolveType ==
  ASSUME NEW c \in Client, NEW a \in BOOLEAN
  PROVE  Resolve(c, a) \in Client
  <1>1. (IF c.failures = -1 THEN 0 ELSE c.failures) \in -1..Retries
    BY Counts DEF Client
  <1>2. (IF a /\ c.lookup < 2 THEN c.lookup + 1 ELSE c.lookup) \in 0..2
    BY DEF Client
  <1> QED
    BY <1>1, <1>2 DEF Resolve, Client, States

LEMMA CloseType ==
  ASSUME NEW c \in Client
  PROVE  /\ Close(c) \in Client
         /\ Close(c).listener = c.listener
  BY ZenonT(30) DEF Close, Client, States, Sockets

LEMMA DisconnectType ==
  ASSUME NEW c \in Client
  PROVE  Disconnect(c) \in Client
  <1> DEFINE d == [c EXCEPT !.expire = FALSE, !.pinging = FALSE, !.failures = -1]
  <1>1. d \in Client
    BY Counts DEF Client
  <1> QED
    BY <1>1, CloseType DEF Disconnect

LEMMA DeleteLaterType ==
  ASSUME NEW c \in Client
  PROVE  DeleteLater(c) \in Client
  <1> DEFINE u == [c EXCEPT !.listener = FALSE]
             d == Disconnect(u)
             b == d.state # "closing" \/ d.socket = "none"
  <1>1. u \in Client
    BY DEF Client
  <1>2. d \in Client
    BY <1>1, DisconnectType
  <1>3. b \in BOOLEAN
    OBVIOUS
  <1>4. DeleteLater(c) = IF ~c.listener THEN c ELSE [d EXCEPT !.removed = b]
    BY DEF DeleteLater
  <1> HIDE DEF d, b
  <1>5. [d EXCEPT !.removed = b] \in Client
    BY <1>2, <1>3 DEF Client
  <1> QED
    BY <1>4, <1>5

LEMMA ReconnectType ==
  ASSUME NEW c \in Client
  PROVE  Reconnect(c) \in Client
  <1>1. (IF c.failures < Retries THEN c.failures + 1 ELSE c.failures) \in -1..Retries
    BY Counts DEF Client
  <1> QED
    BY <1>1 DEF Reconnect, Client, States

LEMMA ConnectSocketType ==
  ASSUME NEW c \in Client, NEW r \in BOOLEAN
  PROVE  ConnectSocket(c, r) \in Client
  BY DEF ConnectSocket, Client, States, Sockets

LEMMA CallbackType ==
  ASSUME NEW c \in Client
  PROVE  /\ Unconnected(c) \in Client
         /\ Heard(c) \in Client
         /\ JobTaken(c) \in Client
  BY DEF Unconnected, Heard, JobTaken, Client, States, Sockets

LEMMA LoginType ==
  ASSUME NEW c \in Client, NEW w \in BOOLEAN
  PROVE  Login(c, w) \in Client
  <1> DEFINE d == [c EXCEPT !.state = "connected", !.socket = "open"]
  <1>1. d \in Client
    BY DEF Client, States, Sockets
  <1>2. [d EXCEPT !.expire = TRUE] \in Client
    BY <1>1 DEF Client
  <1> QED
    BY <1>1, <1>2, CloseType DEF Login

LEMMA LoggedInType ==
  ASSUME NEW c \in Client
  PROVE  LoggedIn(c) \in Client
  <1>1. [Heard(c) EXCEPT !.socket = "served", !.known = TRUE, !.jobs = FALSE,
                         !.failures = 0] \in Client
    BY CallbackType, Counts, ZenonT(30) DEF Client, Sockets
  <1>2. [Heard(c) EXCEPT !.jobs = FALSE] \in Client
    BY CallbackType DEF Client
  <1> QED
    BY <1>1, <1>2, CloseType DEF LoggedIn

LEMMA JobAgainType ==
  ASSUME NEW c \in Client
  PROVE  JobAgain(c) \in Client
  BY CallbackType, CloseType DEF JobAgain

LEMMA PingedType ==
  ASSUME NEW c \in Client, NEW w \in BOOLEAN
  PROVE  Pinged(c, w) \in Client
  <1>1. [c EXCEPT !.expire = TRUE, !.pinging = TRUE] \in Client
    BY DEF Client
  <1> QED
    BY <1>1, CloseType DEF Pinged

-----------------------------------------------------------------------------
(* How the state of a client whose handles nobody misused goes with what    *)
(* its handles do: a lookup only in the state of that name, a timer for a   *)
(* retry only without a lookup and a socket.                                *)

Coherent(c) ==
    /\ c.lookup < 2 /\ c.socket # "leaked"
    /\ c.state = "connected" <=> c.socket \in {"open", "served", "refused"}
    /\ c.state = "closing" <=> c.socket = "closing"
    /\ c.socket \in {"connecting", "dead"} => c.state = "connecting" /\ ~c.expire
    /\ c.lookup = 1 => c.state = "lookup"
    /\ c.state = "lookup" => ~c.expire
    /\ c.state = "connecting" /\ c.expire => c.failures # -1

LEMMA NewClientCoherent == Coherent(NewClient)
  BY DEF NewClient, Coherent

(* What the states say of the handles.                                      *)
LEMMA CoherentHandles ==
  ASSUME NEW c \in Client, Coherent(c)
  PROVE  /\ c.lookup \in {0, 1}
         /\ c.lookup = 1 => c.socket = "none"
         /\ c.state \in {"unconnected", "lookup"} => c.socket = "none"
         /\ c.state = "connecting" /\ c.expire => c.socket = "none"
         /\ c.state # "lookup" => c.lookup = 0
  BY DEF Coherent, Client, States, Sockets

(* connect() of a client that has neither a lookup nor a socket.            *)
LEMMA ResolveCoherent ==
  ASSUME NEW c \in Client, NEW a \in BOOLEAN, c.lookup = 0, c.socket = "none"
  PROVE  Coherent(Resolve(c, a))
  BY DEF Coherent, Client, Resolve

LEMMA CloseCoherent ==
  ASSUME NEW c \in Client, Coherent(c)
  PROVE  /\ Coherent(Close(c))
         /\ Close(c).socket \in {"none", "closing"}
         /\ Close(c).socket = "none" => c.socket = "none"
  BY DEF Coherent, Client, Close, States, Sockets

LEMMA DisconnectCoherent ==
  ASSUME NEW c \in Client, Coherent(c)
  PROVE  /\ Coherent(Disconnect(c))
         /\ Disconnect(c).socket \in {"none", "closing"}
         /\ Disconnect(c).failures = -1 /\ Disconnect(c).lookup = c.lookup
         /\ c.socket = "none" => Disconnect(c).socket = "none"
         /\ Disconnect(c).listener = c.listener
         /\ Disconnect(c).removed = c.removed
  <1> DEFINE d == [c EXCEPT !.expire = FALSE, !.pinging = FALSE, !.failures = -1]
  <1>1. d \in Client
    BY Counts DEF Client
  <1>2. Coherent(d) /\ d.failures = -1 /\ d.lookup = c.lookup /\ d.socket = c.socket
        /\ d.listener = c.listener /\ d.removed = c.removed
    BY DEF Coherent, Client
  <1>3. Disconnect(c) = Close(d)
    BY DEF Disconnect
  <1> HIDE DEF d
  <1>4. /\ Close(d).failures = d.failures /\ Close(d).lookup = d.lookup
        /\ Close(d).listener = d.listener /\ Close(d).removed = d.removed
        /\ d.socket = "none" => Close(d).socket = "none"
    BY <1>1 DEF Client, Close
  <1> QED
    BY <1>1, <1>2, <1>3, <1>4, CloseCoherent

LEMMA DeleteLaterCoherent ==
  ASSUME NEW c \in Client, Coherent(c), c.listener
  PROVE  /\ Coherent(DeleteLater(c))
         /\ DeleteLater(c).socket \in {"none", "closing"}
         /\ DeleteLater(c).failures = -1
         /\ c.lookup = 0 => DeleteLater(c).lookup = 0
         /\ c.socket = "none" => DeleteLater(c).socket = "none"
         /\ ~DeleteLater(c).listener
         /\ DeleteLater(c).removed => DeleteLater(c).socket = "none"
  <1> DEFINE u == [c EXCEPT !.listener = FALSE]
             d == Disconnect(u)
             b == d.state # "closing" \/ d.socket = "none"
  <1>1. u \in Client /\ Coherent(u) /\ ~u.listener /\ u.lookup = c.lookup
        /\ u.socket = c.socket
    BY DEF Client, Coherent
  <1>2. DeleteLater(c) = [d EXCEPT !.removed = b]
    BY DEF DeleteLater
  <1>3. b => d.socket = "none"
    <2> HIDE DEF u
    <2>1. Coherent(d) /\ d.socket \in {"none", "closing"}
      BY <1>1, DisconnectCoherent
    <2> HIDE DEF d
    <2> QED
      BY <2>1 DEF Coherent
  <1> HIDE DEF u
  <1>4. /\ d \in Client /\ Coherent(d) /\ d.socket \in {"none", "closing"}
        /\ d.failures = -1 /\ d.lookup = c.lookup /\ ~d.listener
        /\ c.socket = "none" => d.socket = "none"
    BY <1>1, DisconnectType, DisconnectCoherent
  <1>5. b \in BOOLEAN
    OBVIOUS
  <1> HIDE DEF d, b
  <1> QED
    BY <1>2, <1>3, <1>4, <1>5 DEF Client, Coherent

(* reconnect() of a client whose lookup failed or whose socket is closed.   *)
LEMMA ReconnectCoherent ==
  ASSUME NEW c \in Client, Coherent(c), c.lookup = 0, c.socket = "none"
  PROVE  /\ Coherent(Reconnect(c))
         /\ Reconnect(c).lookup = 0 /\ Reconnect(c).socket = "none"
         /\ Reconnect(c).failures = -1 <=> c.failures = -1
         /\ Reconnect(c).listener = c.listener
         /\ Reconnect(c).removed <=> c.removed \/ ~c.listener
         /\ c.listener /\ c.failures # -1 => Reconnect(c).expire
         /\ Reconnect(c).failures = -1 => Reconnect(c).state = c.state
  <1>1. c.failures # -1 /\ c.failures < Retries => c.failures + 1 # -1
    BY RetriesAssumption DEF Client
  <1> QED
    BY <1>1, RetriesAssumption DEF Client, Coherent, Reconnect

(* The callback of a lookup.                                                *)
LEMMA LookupCoherent ==
  ASSUME NEW c \in Client, Coherent(c), c.lookup = 1
  PROVE  LET d == [c EXCEPT !.lookup = 0]
         IN  /\ d \in Client /\ Coherent(d) /\ d.socket = "none"
             /\ \A r \in BOOLEAN : /\ Coherent(ConnectSocket(d, r))
                                   /\ ConnectSocket(d, r).socket \in {"connecting", "dead"}
  BY DEF Client, Coherent, ConnectSocket, States, Sockets

LEMMA LoginCoherent ==
  ASSUME NEW c \in Client, Coherent(c), c.socket = "connecting", NEW w \in BOOLEAN
  PROVE  Coherent(Login(c, w)) /\ Login(c, w).socket \in {"open", "closing"}
  BY DEF Client, Coherent, Login, Close

LEMMA LoggedInCoherent ==
  ASSUME NEW c \in Client, Coherent(c), c.socket = "open"
  PROVE  Coherent(LoggedIn(c))
  BY DEF Client, Coherent, LoggedIn, LoginAccepted, Heard, Close

(* The callbacks of a connection on which the login is sent.                *)
LEMMA HeardCoherent ==
  ASSUME NEW c \in Client, Coherent(c), c.state = "connected"
  PROVE  /\ Coherent(Heard(c)) /\ Coherent(JobTaken(c)) /\ Coherent(JobAgain(c))
         /\ Coherent([Heard(c) EXCEPT !.socket = IF @ = "open" THEN "refused" ELSE @])
         /\ \A w \in BOOLEAN : Coherent(Pinged(c, w))
  BY DEF Client, Coherent, Heard, JobTaken, JobAgain, Pinged, Close

LEMMA UnconnectedCoherent ==
  ASSUME NEW c \in Client, Coherent(c), c.socket = "closing"
  PROVE  /\ Coherent(Unconnected(c))
         /\ Unconnected(c).lookup = 0 /\ Unconnected(c).socket = "none"
  BY DEF Client, Coherent, Unconnected

-----------------------------------------------------------------------------
(* Only reconnect() and deleteLater() remove a client, only deleteLater()   *)
(* takes its listener, and only disconnect() makes it stay away.            *)

Kept(c, d) ==
    /\ d.listener = c.listener /\ d.removed = c.removed
    /\ c.failures # -1 => d.failures # -1

LEMMA DisconnectKeeps ==
  ASSUME NEW c \in Client
  PROVE  Disconnect(c).listener = c.listener /\ Disconnect(c).removed = c.removed
  BY DEF Disconnect, Close, Client

LEMMA ResolveKeeps ==
  ASSUME NEW c \in Client, NEW a \in BOOLEAN
  PROVE  LET d == Resolve(c, a)
         IN  Kept(c, d) /\ d.failures # -1 /\ (a => d.lookup > 0)
  BY DEF Resolve, Kept, Client

LEMMA ReconnectKeeps ==
  ASSUME NEW c \in Client, c.listener
  PROVE  LET d == Reconnect(c)
         IN  Kept(c, d) /\ (c.failures # -1 => d.expire)
  <1>1. c.failures # -1 /\ c.failures < Retries => c.failures + 1 # -1
    BY RetriesAssumption DEF Client
  <1> QED
    BY <1>1 DEF Reconnect, Kept, Client

LEMMA ConnectSocketKeeps ==
  ASSUME NEW c \in Client, NEW r \in BOOLEAN
  PROVE  LET d == ConnectSocket(c, r)
         IN  Kept(c, d) /\ d.socket # "none"
  BY DEF ConnectSocket, Kept, Client

(* What happens on a connection leaves the client with a socket.            *)
LEMMA CloseKeeps ==
  ASSUME NEW c \in Client, c.socket # "none"
  PROVE  Kept(c, Close(c)) /\ Close(c).socket # "none"
  BY DEF Close, Kept, Client

LEMMA HeardKeeps ==
  ASSUME NEW c \in Client, c.socket # "none"
  PROVE  /\ Kept(c, Heard(c)) /\ Heard(c).socket # "none"
         /\ Kept(c, JobTaken(c)) /\ JobTaken(c).socket # "none"
         /\ Kept(c, JobAgain(c)) /\ JobAgain(c).socket # "none"
         /\ Kept(c, Close(Heard(c))) /\ Close(Heard(c)).socket # "none"
         /\ LET d == [Heard(c) EXCEPT !.socket = IF @ = "open" THEN "refused" ELSE @]
            IN  Kept(c, d) /\ d.socket # "none"
  BY DEF Heard, JobTaken, JobAgain, Close, Kept, Client

LEMMA WritesKeep ==
  ASSUME NEW c \in Client, c.socket # "none", NEW w \in BOOLEAN
  PROVE  /\ Kept(c, Login(c, w)) /\ Login(c, w).socket # "none"
         /\ Kept(c, Pinged(c, w)) /\ Pinged(c, w).socket # "none"
  BY DEF Login, Pinged, Close, Kept, Client

LEMMA LoggedInKeeps ==
  ASSUME NEW c \in Client, c.socket # "none"
  PROVE  /\ Kept(c, LoggedIn(c)) /\ LoggedIn(c).socket # "none"
         /\ LoginAccepted(c) => /\ LoggedIn(c).socket = "served"
                                /\ LoggedIn(c).failures = 0
                                /\ LoggedIn(c).state = c.state
  BY DEF LoggedIn, LoginAccepted, Heard, Close, Kept, Client

(* What happens on a connection on which no login is accepted moves the     *)
(* client on without another try, and does not make it served.              *)
Follows(c, d) ==
    /\ d.failures = c.failures /\ d.lookup = c.lookup
    /\ d.socket = "served" => c.socket = "served"
    /\ c.state \in {"connected", "closing"} => d.state \in {"connected", "closing"}

LEMMA CallbackFollows ==
  ASSUME NEW c \in Client, c.socket # "none"
  PROVE  /\ Follows(c, Close(c)) /\ Follows(c, Close(Heard(c)))
         /\ Follows(c, Heard(c)) /\ Follows(c, JobTaken(c)) /\ Follows(c, JobAgain(c))
         /\ LET d == [Heard(c) EXCEPT !.socket = IF @ = "open" THEN "refused" ELSE @]
            IN  Follows(c, d)
         /\ ~LoginAccepted(c) => Follows(c, LoggedIn(c))
         /\ \A w \in BOOLEAN : Follows(c, Login(c, w)) /\ Follows(c, Pinged(c, w))
  BY DEF Close, Heard, JobTaken, JobAgain, LoggedIn, LoginAccepted, Login, Pinged,
         Follows, Client

-----------------------------------------------------------------------------
(* The values of the strategy's record.                                     *)
Strategy == [c : [Pools -> Client], active : Pools \cup {-1}, index : Pools,
             mining : Pools \cup {-1}]

-----------------------------------------------------------------------------
(* Every callback of the strategy yields a strategy.                        *)

LEMMA ConnectToType ==
  ASSUME NEW s \in Strategy, NEW p \in Pools
  PROVE  /\ ConnectTo(s, p) \in Strategy
         /\ ConnectTo(s, p) = [s EXCEPT !.c = ConnectTo(s, p).c]
  <1>1. Resolve(s.c[p], p \notin BadHosts) \in Client
    BY ResolveType DEF Strategy
  <1> QED
    BY <1>1 DEF ConnectTo, Strategy

LEMMA OnCloseType ==
  ASSUME NEW s \in Strategy, NEW p \in Pools, NEW f \in -1..Retries
  PROVE  OnClose(s, p, f) \in Strategy
  <1> DEFINE lost == IF s.active = p THEN [s EXCEPT !.active = -1, !.mining = -1] ELSE s
  <1>1. lost \in Strategy
    BY DEF Strategy
  <1>2. ASSUME p < N - 1
        PROVE  ConnectTo([lost EXCEPT !.index = p + 1], p + 1) \in Strategy
    <2>1. p + 1 \in Pools
      BY <1>2, FailoverAssumption DEF Pools
    <2>2. [lost EXCEPT !.index = p + 1] \in Strategy
      BY <1>1, <2>1 DEF Strategy
    <2> QED
      BY <2>1, <2>2, ConnectToType
  <1> QED
    BY <1>1, <1>2 DEF OnClose

LEMMA OnLoginSuccessType ==
  ASSUME NEW s \in Strategy, NEW p \in Pools
  PROVE  OnLoginSuccess(s, p) \in Strategy
  <1> DEFINE a == IF p = 0 \/ s.active = -1 THEN p ELSE s.active
             cs == [q \in Pools |-> IF q # 0 /\ q # a THEN Disconnect(s.c[q]) ELSE s.c[q]]
  <1>1. a \in Pools
    BY FailoverAssumption DEF Strategy, Pools
  <1>2. cs \in [Pools -> Client]
    BY DisconnectType DEF Strategy
  <1> QED
    BY <1>1, <1>2 DEF OnLoginSuccess, Strategy

-----------------------------------------------------------------------------
(* The strategy and the Network agree on the pool worked for, and m_index   *)
(* is that pool.                                                            *)

Consistent(s) == s.mining = s.active /\ (s.active # -1 => s.index = s.active)

LEMMA OnCloseKeeps ==
  ASSUME NEW s \in Strategy, NEW p \in Pools, NEW f \in -1..Retries, Consistent(s)
  PROVE  /\ Consistent(OnClose(s, p, f))
         /\ OnClose(s, p, f).mining \in {s.mining, -1}
  <1> DEFINE lost == IF s.active = p THEN [s EXCEPT !.active = -1, !.mining = -1] ELSE s
             moved == [lost EXCEPT !.index = p + 1]
  <1>1. lost \in Strategy /\ Consistent(lost) /\ lost.mining \in {s.mining, -1}
    BY DEF Strategy, Consistent
  <1>2. ASSUME s.index = p, p < N - 1
        PROVE  /\ Consistent(ConnectTo(moved, p + 1))
               /\ ConnectTo(moved, p + 1).mining \in {s.mining, -1}
    <2>1. p + 1 \in Pools
      BY <1>2, FailoverAssumption DEF Pools
    <2>2. moved \in Strategy /\ Consistent(moved) /\ moved.mining \in {s.mining, -1}
      BY <1>1, <1>2, <2>1 DEF Strategy, Consistent
    <2>3. ConnectTo(moved, p + 1) = [moved EXCEPT !.c = ConnectTo(moved, p + 1).c]
      BY <2>1, <2>2, ConnectToType
    <2> HIDE DEF moved
    <2> QED
      BY <2>2, <2>3 DEF Strategy, Consistent
  <1> QED
    BY <1>1, <1>2 DEF OnClose

LEMMA LoginSuccessKeeps ==
  ASSUME NEW s \in Strategy, NEW p \in Pools, Consistent(s)
  PROVE  /\ Consistent(OnLoginSuccess(s, p))
         /\ \/ OnLoginSuccess(s, p).mining = s.mining
            \/ s.mining = -1
            \/ OnLoginSuccess(s, p).mining = 0
  BY FailoverAssumption DEF OnLoginSuccess, Consistent, Strategy, Pools

-----------------------------------------------------------------------------
(* The invariant.                                                           *)

Inv == /\ TypeOK
       /\ mining = active
       /\ IndexIsActive

(* What a step may do to the pool worked for.                               *)
MiningStep == mining' = mining \/ mining = -1 \/ mining' = -1 \/ mining' = 0

LEMMA SType ==
  ASSUME Inv, NEW cs \in [Pools -> Client]
  PROVE  S(cs) \in Strategy /\ Consistent(S(cs)) /\ S(cs).mining = mining
  BY DEF Inv, TypeOK, S, Strategy, Consistent, IndexIsActive

LEMMA BecomesInv ==
  ASSUME NEW s \in Strategy, Becomes(s), Consistent(s),
         phase' \in {"new", "running", "stopped", "deleted"},
         servers' \in [Pools -> {"up", "down", "odd"}]
  PROVE  Inv' /\ mining' = s.mining
  BY DEF Becomes, Strategy, Consistent, Inv, TypeOK, IndexIsActive

LEMMA UpdateInv ==
  ASSUME Inv, NEW p \in Pools, NEW c \in Client, Update(p, c), UNCHANGED <<phase, servers>>
  PROVE  Inv' /\ MiningStep
  BY DEF Update, Inv, TypeOK, IndexIsActive, MiningStep

LEMMA LoseInv ==
  ASSUME Inv, NEW p \in Pools, NEW c \in Client, Lose(p, c), UNCHANGED <<phase, servers>>
  PROVE  Inv' /\ MiningStep
  <1> DEFINE d == Reconnect(c)
             cs == [clients EXCEPT ![p] = d]
             s == S(cs)
             r == IF d.removed THEN s ELSE OnClose(s, p, d.failures)
  <1>1. d \in Client
    BY ReconnectType
  <1>2. cs \in [Pools -> Client]
    BY <1>1 DEF Inv, TypeOK
  <1>3. d.failures \in -1..Retries
    BY <1>1 DEF Client
  <1>4. Becomes(r)
    BY DEF Lose
  <1> HIDE DEF d, cs
  <1>5. s \in Strategy /\ Consistent(s) /\ s.mining = mining
    BY <1>2, SType
  <1> HIDE DEF s
  <1>6. r \in Strategy /\ Consistent(r) /\ r.mining \in {mining, -1}
    BY <1>3, <1>5, OnCloseType, OnCloseKeeps
  <1> HIDE DEF r
  <1>7. phase' \in {"new", "running", "stopped", "deleted"}
        /\ servers' \in [Pools -> {"up", "down", "odd"}]
    BY DEF Inv, TypeOK
  <1> QED
    BY <1>4, <1>6, <1>7, BecomesInv DEF MiningStep

LEMMA ConnectInv ==
  ASSUME Inv, NEW p \in Pools, Becomes(ConnectTo(S(clients), p)),
         phase' \in {"new", "running", "stopped", "deleted"}, UNCHANGED servers
  PROVE  Inv' /\ MiningStep
  <1> DEFINE s == S(clients)
             r == ConnectTo(s, p)
  <1>1. s \in Strategy /\ Consistent(s) /\ s.mining = mining
    BY SType DEF Inv, TypeOK
  <1> HIDE DEF s
  <1>2. r \in Strategy /\ r = [s EXCEPT !.c = r.c]
    BY <1>1, ConnectToType
  <1>3. Becomes(r)
    BY DEF s
  <1> HIDE DEF r
  <1>4. Consistent(r) /\ r.mining = mining
    BY <1>1, <1>2 DEF Consistent, Strategy
  <1>5. servers' \in [Pools -> {"up", "down", "odd"}]
    BY DEF Inv, TypeOK
  <1> QED
    BY <1>2, <1>3, <1>4, <1>5, BecomesInv DEF MiningStep

LEMMA LoginSuccessInv ==
  ASSUME Inv, NEW p \in Pools, NEW c \in Client,
         Becomes(OnLoginSuccess(S([clients EXCEPT ![p] = c]), p)),
         UNCHANGED <<phase, servers>>
  PROVE  Inv' /\ MiningStep
  <1> DEFINE cs == [clients EXCEPT ![p] = c]
             s == S(cs)
             r == OnLoginSuccess(s, p)
  <1>1. cs \in [Pools -> Client]
    BY DEF Inv, TypeOK
  <1>2. Becomes(r)
    OBVIOUS
  <1> HIDE DEF cs
  <1>3. s \in Strategy /\ Consistent(s) /\ s.mining = mining
    BY <1>1, SType
  <1> HIDE DEF s
  <1>4. /\ r \in Strategy /\ Consistent(r)
        /\ r.mining = s.mining \/ s.mining = -1 \/ r.mining = 0
    BY <1>3, OnLoginSuccessType, LoginSuccessKeeps
  <1> HIDE DEF r
  <1>5. phase' \in {"new", "running", "stopped", "deleted"}
        /\ servers' \in [Pools -> {"up", "down", "odd"}]
    BY DEF Inv, TypeOK
  <1> QED
    BY <1>2, <1>3, <1>4, <1>5, BecomesInv DEF MiningStep

LEMMA StopInv ==
  ASSUME Inv, Stop \/ Reload
  PROVE  Inv' /\ MiningStep
  <1> DEFINE cs == [p \in Pools |-> Disconnect(clients[p])]
             ds == [p \in Pools |-> DeleteLater(cs[p])]
  <1>1. cs \in [Pools -> Client]
    BY DisconnectType DEF Inv, TypeOK
  <1>2. ds \in [Pools -> Client]
    BY <1>1, DeleteLaterType
  <1>3. 0 \in Pools
    BY FailoverAssumption DEF Pools
  <1>4. clients' \in [Pools -> Client] /\ active' = -1 /\ index' = 0 /\ mining' = -1
    <2>1. CASE Stop
      BY <1>1, <2>1 DEF Stop, Stopped, Becomes
    <2>2. CASE Reload
      <3>1. Becomes([Stopped EXCEPT !.c = ds])
        BY <2>2 DEF Reload, Stopped
      <3> QED
        BY <1>2, <3>1 DEF Stopped, Becomes
    <2> QED
      BY <2>1, <2>2
  <1>5. phase' \in {"new", "running", "stopped", "deleted"} /\ servers' = servers
    BY DEF Stop, Reload
  <1> QED
    BY <1>3, <1>4, <1>5 DEF Inv, TypeOK, IndexIsActive, MiningStep

LEMMA InitInv ==
  Init => Inv
  BY NewClientType, FailoverAssumption DEF Init, Inv, TypeOK, IndexIsActive, Pools

LEMMA ResolvedInv ==
  ASSUME Inv, NEW p \in Pools, Resolved(p)
  PROVE  Inv' /\ MiningStep
  <1> DEFINE c == [clients[p] EXCEPT !.lookup = 0]
  <1>1. c \in Client
    BY DEF Inv, TypeOK, Client
  <1>2. /\ UNCHANGED <<phase, servers>>
        /\ (\E r \in BOOLEAN : Update(p, ConnectSocket(c, r))) \/ Lose(p, c)
    BY DEF Resolved
  <1> HIDE DEF c
  <1> QED
    BY <1>1, <1>2, ConnectSocketType, UpdateInv, LoseInv

LEMMA RefusedInv ==
  ASSUME Inv, NEW p \in Pools, Refused(p)
  PROVE  Inv' /\ MiningStep
  <1> DEFINE h == Heard(clients[p])
             d == [h EXCEPT !.socket = IF @ = "open" THEN "refused" ELSE @]
  <1>1. h \in Client
    BY CallbackType DEF Inv, TypeOK
  <1>2. UNCHANGED <<phase, servers>> /\ (Update(p, Close(h)) \/ Update(p, d))
    BY DEF Refused
  <1> HIDE DEF h
  <1>3. d \in Client
    BY <1>1 DEF Client, Sockets
  <1> HIDE DEF d
  <1> QED
    BY <1>1, <1>2, <1>3, CloseType, UpdateInv

LEMMA AcceptedInv ==
  ASSUME Inv, NEW p \in Pools, Accepted(p)
  PROVE  Inv' /\ MiningStep
  <1> DEFINE c == LoggedIn(clients[p])
  <1>1. c \in Client
    BY LoggedInType DEF Inv, TypeOK
  <1>2. UNCHANGED <<phase, servers>>
        /\ (Becomes(OnLoginSuccess(S([clients EXCEPT ![p] = c]), p)) \/ Update(p, c))
    BY DEF Accepted
  <1> HIDE DEF c
  <1> QED
    BY <1>1, <1>2, UpdateInv, LoginSuccessInv

(* The other steps of one client, which change that client only.            *)
LEMMA ClientStepInv ==
  ASSUME Inv, NEW p \in Pools,
         \/ Connected(p) \/ Answered(p) \/ Notified(p) \/ Dropped(p)
         \/ Timeout(p) \/ Ping(p)
  PROVE  Inv' /\ MiningStep
  <1>1. clients[p] \in Client
    BY DEF Inv, TypeOK
  <1>2. UNCHANGED <<phase, servers>>
    BY DEF Connected, Answered, Notified, Dropped, Timeout, Ping
  <1>3. PICK c \in Client : Update(p, c)
    <2>1. CASE Connected(p)
      BY <1>1, <2>1, CloseType, LoginType DEF Connected
    <2>2. CASE Answered(p)
      BY <1>1, <2>2, CallbackType DEF Answered
    <2>3. CASE Notified(p)
      BY <1>1, <2>3, CallbackType, JobAgainType DEF Notified
    <2>4. CASE Dropped(p)
      BY <1>1, <2>4, CloseType DEF Dropped
    <2>5. CASE Timeout(p)
      BY <1>1, <2>5, CloseType DEF Timeout
    <2>6. CASE Ping(p)
      BY <1>1, <2>6, PingedType DEF Ping
    <2> QED
      BY <2>1, <2>2, <2>3, <2>4, <2>5, <2>6
  <1> QED
    BY <1>2, <1>3, UpdateInv

LEMMA StepInv ==
  ASSUME Inv, [Next]_vars
  PROVE  Inv' /\ MiningStep
  <1>1. CASE Connect
    BY <1>1, ConnectInv DEF Connect, Inv, TypeOK
  <1>2. CASE Stop \/ Reload
    BY <1>2, StopInv
  <1>3. ASSUME NEW p \in Pools, Callback(p)
        PROVE  Inv' /\ MiningStep
    <2>1. CASE Closed(p)
      <3>1. Unconnected(clients[p]) \in Client
        BY CallbackType DEF Inv, TypeOK
      <3> QED
        BY <2>1, <3>1, LoseInv DEF Closed
    <2> QED
      BY <1>3, <2>1, ResolvedInv, AcceptedInv, ClientStepInv DEF Callback
  <1>4. ASSUME NEW p \in Pools, Refused(p) \/ Notified(p) \/ Ping(p) \/ Timeout(p)
        PROVE  Inv' /\ MiningStep
    BY <1>4, RefusedInv, ClientStepInv
  <1>5. ASSUME NEW p \in Pools, Retry(p)
        PROVE  Inv' /\ MiningStep
    BY <1>5, ConnectInv DEF Retry, Inv, TypeOK
  <1>6. ASSUME NEW p \in Pools, NewBlock(p)
        PROVE  Inv' /\ MiningStep
    <2>1. clients' \in [Pools -> Client]
      BY <1>6, ZenonT(30) DEF NewBlock, Inv, TypeOK, Client
    <2> QED
      BY <1>6, <2>1 DEF NewBlock, Inv, TypeOK, IndexIsActive, MiningStep
  <1>7. ASSUME NEW p \in Pools, Turn(p)
        PROVE  Inv' /\ MiningStep
    <2>1. servers' \in [Pools -> {"up", "down", "odd"}]
      BY <1>7 DEF Turn, Inv, TypeOK
    <2> QED
      BY <1>7, <2>1 DEF Turn, Inv, TypeOK, IndexIsActive, MiningStep
  <1>8. CASE UNCHANGED vars
    BY <1>8 DEF vars, Inv, TypeOK, IndexIsActive, MiningStep
  <1> QED
    BY <1>1, <1>2, <1>3, <1>4, <1>5, <1>6, <1>7, <1>8 DEF Next, Tick

-----------------------------------------------------------------------------
(* What the strategy's methods make of the clients.                         *)

LEMMA OnCloseResult ==
  ASSUME NEW s \in Strategy, NEW p \in Pools, NEW f \in -1..Retries
  PROVE  LET r == OnClose(s, p, f)
         IN  /\ r.active = IF f # -1 /\ s.active = p THEN -1 ELSE s.active
             /\ \/ r.c = s.c /\ r.index = s.index
                \/ /\ s.index = p /\ p + 1 \in Pools /\ r.index = p + 1
                   /\ r.c = [s.c EXCEPT ![p + 1] = Resolve(@, p + 1 \notin BadHosts)]
  <1> DEFINE lost == IF s.active = p THEN [s EXCEPT !.active = -1, !.mining = -1] ELSE s
             moved == [lost EXCEPT !.index = p + 1]
  <1>1. /\ lost \in Strategy /\ lost.c = s.c /\ lost.index = s.index
        /\ lost.active = IF s.active = p THEN -1 ELSE s.active
    BY DEF Strategy
  <1>2. ASSUME p < N - 1
        PROVE  LET r == ConnectTo(moved, p + 1)
               IN  /\ r.active = lost.active /\ r.index = p + 1 /\ p + 1 \in Pools
                   /\ r.c = [s.c EXCEPT ![p + 1] = Resolve(@, p + 1 \notin BadHosts)]
    <2>1. p + 1 \in Pools
      BY <1>2, FailoverAssumption DEF Pools
    <2>2. moved \in Strategy /\ moved.c = s.c /\ moved.index = p + 1
          /\ moved.active = lost.active
      BY <1>1, <2>1 DEF Strategy
    <2> HIDE DEF moved
    <2> QED
      BY <2>1, <2>2 DEF ConnectTo, Strategy
  <1>3. OnClose(s, p, f) = IF f = -1 THEN s
                           ELSE IF s.index = 0 /\ f < Retries THEN lost
                           ELSE IF s.index = p /\ p < N - 1 THEN ConnectTo(moved, p + 1)
                           ELSE lost
    BY DEF OnClose
  <1> HIDE DEF lost, moved
  <1> QED
    BY <1>1, <1>2, <1>3

(* The pool worked for after a login: who logs in first, or the primary.    *)
LEMMA LoginSuccessResult ==
  ASSUME NEW s \in Strategy, NEW p \in Pools, Consistent(s)
  PROVE  LET a == IF p = 0 \/ s.active = -1 THEN p ELSE s.active
             r == OnLoginSuccess(s, p)
         IN  /\ a \in Pools /\ r.active = a /\ r.index = a
             /\ r.c = [q \in Pools |-> IF q # 0 /\ q # a THEN Disconnect(s.c[q])
                                                         ELSE s.c[q]]
  BY FailoverAssumption DEF OnLoginSuccess, Consistent, Strategy, Pools

-----------------------------------------------------------------------------
(* Who has something to wait for.  Until the strategy is deleted no client  *)
(* loses its listener; while it runs the primary and the pool of m_index    *)
(* are not disconnected.                                                    *)

Started == phase = "new" =>
    clients = [p \in Pools |-> NewClient] /\ active = -1 /\ index = 0

Listens(c) == c.listener /\ ~c.removed

Awaited(p, c) ==
    /\ c.failures # -1
    /\ p \notin BadHosts => c.expire \/ c.lookup > 0 \/ c.socket # "none"

Attended(cs, i) ==
    /\ phase # "deleted" => \A p \in Pools : Listens(cs[p])
    /\ phase = "running" => \A p \in Pools : p = 0 \/ p = i => Awaited(p, cs[p])

AwaitInv == Inv /\ Started /\ Attended(clients, index)

LEMMA InitAwait ==
  Init => AwaitInv
  BY InitInv DEF Init, AwaitInv, Started, Attended, Listens, NewClient

(* A new client has no callbacks.                                           *)
LEMMA NewIsQuiet ==
  ASSUME AwaitInv, NEW p \in Pools,
         \/ clients[p].lookup = 1 \/ clients[p].socket # "none"
         \/ clients[p].known
  PROVE  phase # "new"
  BY DEF AwaitInv, Started, NewClient

LEMMA UpdateAwait ==
  ASSUME AwaitInv, NEW p \in Pools, NEW c \in Client, Update(p, c), phase # "new",
         UNCHANGED <<phase, servers>>, Kept(clients[p], c),
         Awaited(p, clients[p]) => Awaited(p, c)
  PROVE  AwaitInv'
  <1>1. Inv'
    BY UpdateInv DEF AwaitInv
  <1>2. Started'
    BY DEF Started
  <1>3. clients' = [clients EXCEPT ![p] = c] /\ index' = index /\ phase' = phase
        /\ clients \in [Pools -> Client]
    BY DEF Update, AwaitInv, Inv, TypeOK
  <1>4. Attended(clients, index)'
    <2>1. ASSUME NEW q \in Pools, Listens(clients[q])
          PROVE  Listens(clients'[q])
      BY <1>3, <2>1 DEF Listens, Kept
    <2>2. ASSUME NEW q \in Pools, Awaited(q, clients[q]), phase = "running"
          PROVE  Awaited(q, clients'[q])
      BY <1>3, <2>2
    <2> QED
      BY <1>3, <2>1, <2>2 DEF Attended, AwaitInv
  <1> QED
    BY <1>1, <1>2, <1>4 DEF AwaitInv

(* connect() of a pool, of which the strategy may have made m_index.        *)
LEMMA ResolveAttended ==
  ASSUME NEW cs \in [Pools -> Client], NEW i \in Pools, NEW j \in Pools,
         Attended(cs, i)
  PROVE  LET ds == [cs EXCEPT ![j] = Resolve(@, j \notin BadHosts)]
         IN  Attended(ds, i) /\ Attended(ds, j)
  <1> DEFINE ds == [cs EXCEPT ![j] = Resolve(@, j \notin BadHosts)]
  <1>1. /\ Kept(cs[j], ds[j]) /\ ds[j].failures # -1
        /\ j \notin BadHosts => ds[j].lookup > 0
    BY ResolveKeeps
  <1>2. \A q \in Pools : q # j => ds[q] = cs[q]
    OBVIOUS
  <1> HIDE DEF ds
  <1>3. \A q \in Pools : Listens(cs[q]) => Listens(ds[q])
    BY <1>1, <1>2 DEF Listens, Kept
  <1>4. \A q \in Pools : Awaited(q, cs[q]) \/ q = j => Awaited(q, ds[q])
    BY <1>1, <1>2 DEF Awaited
  <1>5. Attended(ds, i) /\ Attended(ds, j)
    BY <1>3, <1>4 DEF Attended
  <1> QED
    BY <1>5 DEF ds

LEMMA LoseAwait ==
  ASSUME AwaitInv, NEW p \in Pools, NEW c \in Client, Lose(p, c), phase # "new",
         UNCHANGED <<phase, servers>>, Kept(clients[p], c)
  PROVE  AwaitInv'
  <1> DEFINE d == Reconnect(c)
             cs == [clients EXCEPT ![p] = d]
             r == OnClose(S(cs), p, d.failures)
  <1>1. Inv' /\ Started'
    BY LoseInv DEF AwaitInv, Started
  <1>2. d \in Client /\ clients \in [Pools -> Client] /\ cs \in [Pools -> Client]
        /\ index \in Pools
    BY ReconnectType DEF AwaitInv, Inv, TypeOK
  <1>3. CASE phase = "deleted"
    BY <1>1, <1>3 DEF AwaitInv, Attended
  <1>4. CASE phase # "deleted"
    <2>1. Listens(clients[p]) /\ Listens(c)
      BY <1>4 DEF AwaitInv, Attended, Listens, Kept
    <2>2. Kept(c, d) /\ (c.failures # -1 => d.expire) /\ Listens(d)
      BY <2>1, ReconnectKeeps DEF Listens, Kept
    <2>3. Becomes(r)
      BY <2>2 DEF Lose, Listens
    <2>4. cs[p] = d /\ \A q \in Pools : q # p => cs[q] = clients[q]
      BY <1>2
    <2>5. S(cs) \in Strategy /\ S(cs).c = cs /\ S(cs).index = index
      BY <1>2, SType DEF AwaitInv, S
    <2>6. d.failures \in -1..Retries
      BY <1>2 DEF Client
    <2> HIDE DEF d, cs
    <2>7. \/ r.c = cs /\ r.index = index
          \/ /\ p + 1 \in Pools /\ r.index = p + 1 /\ index = p
             /\ r.c = [cs EXCEPT ![p + 1] = Resolve(@, p + 1 \notin BadHosts)]
      BY <2>5, <2>6, OnCloseResult
    <2>8. Attended(cs, index)
      <3>1. \A q \in Pools : Listens(clients[q]) => Listens(cs[q])
        BY <2>2, <2>4
      <3>2. \A q \in Pools : Awaited(q, clients[q]) => Awaited(q, cs[q])
        BY <2>2, <2>4 DEF Awaited, Kept
      <3> QED
        BY <3>1, <3>2 DEF AwaitInv, Attended
    <2>10. clients' = r.c /\ index' = r.index /\ phase' = phase
      BY <2>3 DEF Becomes
    <2> HIDE DEF r
    <2>9. Attended(r.c, r.index)
      <3>1. CASE r.c = cs /\ r.index = index
        BY <2>8, <3>1
      <3>2. CASE p + 1 \in Pools /\ r.index = p + 1
                 /\ r.c = [cs EXCEPT ![p + 1] = Resolve(@, p + 1 \notin BadHosts)]
        <4> DEFINE ds == [cs EXCEPT ![p + 1] = Resolve(@, p + 1 \notin BadHosts)]
        <4>1. Attended(ds, p + 1)
          BY <1>2, <2>8, <3>2, ResolveAttended
        <4> HIDE DEF ds
        <4>2. r.c = ds /\ r.index = p + 1
          BY <3>2 DEF ds
        <4> QED
          BY <4>1, <4>2
      <3> QED
        BY <2>7, <3>1, <3>2
    <2>11. Attended(clients, index)'
      BY <2>9, <2>10 DEF Attended
    <2> QED
      BY <1>1, <2>11 DEF AwaitInv
  <1> QED
    BY <1>3, <1>4

LEMMA LoginSuccessAwait ==
  ASSUME AwaitInv, NEW p \in Pools, phase # "new", clients[p].socket = "open",
         LoginAccepted(clients[p]),
         Becomes(OnLoginSuccess(S([clients EXCEPT ![p] = LoggedIn(clients[p])]), p)),
         UNCHANGED <<phase, servers>>
  PROVE  AwaitInv'
  <1> DEFINE c == LoggedIn(clients[p])
             cs == [clients EXCEPT ![p] = c]
             s == S(cs)
             r == OnLoginSuccess(s, p)
             a == IF p = 0 \/ active = -1 THEN p ELSE active
  <1>1. clients \in [Pools -> Client] /\ c \in Client /\ cs \in [Pools -> Client]
    BY LoggedInType DEF AwaitInv, Inv, TypeOK
  <1>2. Kept(clients[p], c) /\ c.socket = "served" /\ c.failures = 0
    BY <1>1, LoggedInKeeps
  <1>3. Inv' /\ Started'
    BY <1>1, LoginSuccessInv DEF AwaitInv, Started
  <1>4. s \in Strategy /\ Consistent(s) /\ s.c = cs /\ s.active = active
    BY <1>1, SType DEF AwaitInv, S
  <1>5. cs[p] = c /\ \A q \in Pools : q # p => cs[q] = clients[q]
    BY <1>1
  <1>6. Becomes(r)
    OBVIOUS
  <1> HIDE DEF c, cs, s
  <1>7. /\ r.index = a
        /\ r.c = [q \in Pools |-> IF q # 0 /\ q # a THEN Disconnect(cs[q]) ELSE cs[q]]
    BY <1>4, LoginSuccessResult
  <1>8. clients' = r.c /\ index' = a /\ phase' = phase
    BY <1>6, <1>7 DEF Becomes
  <1> HIDE DEF r
  <1>9. ASSUME NEW q \in Pools, Listens(clients[q])
        PROVE  Listens(clients'[q])
    <2>1. Listens(cs[q])
      BY <1>2, <1>5, <1>9 DEF Listens, Kept
    <2>2. Listens(Disconnect(cs[q]))
      BY <1>1, <2>1, DisconnectKeeps DEF Listens
    <2> QED
      BY <1>7, <1>8, <2>1, <2>2
  <1>10. ASSUME phase = "running", NEW q \in Pools, q = 0 \/ q = a
         PROVE  Awaited(q, clients'[q])
    <2>1. clients'[q] = cs[q]
      BY <1>7, <1>8, <1>10
    <2>2. CASE q = p
      BY <1>2, <1>5, <2>1, <2>2 DEF Awaited
    <2>3. CASE q # p
      <3>1. q = 0 \/ q = index
        BY <1>10, <2>3 DEF AwaitInv, Inv, IndexIsActive
      <3> QED
        BY <1>5, <1>10, <2>1, <2>3, <3>1 DEF AwaitInv, Attended
    <2> QED
      BY <2>2, <2>3
  <1>11. Attended(clients, index)'
    BY <1>8, <1>9, <1>10 DEF AwaitInv, Attended
  <1> QED
    BY <1>3, <1>11 DEF AwaitInv

LEMMA ConnectAwait ==
  ASSUME AwaitInv, NEW p \in Pools, Becomes(ConnectTo(S(clients), p)),
         \/ phase = "new" /\ phase' = "running" /\ p = index
         \/ phase = "running" /\ phase' = "running",
         UNCHANGED servers
  PROVE  AwaitInv'
  <1>1. Inv' /\ Started'
    BY ConnectInv DEF AwaitInv, Started
  <1>2. clients \in [Pools -> Client] /\ index \in Pools
    BY DEF AwaitInv, Inv, TypeOK
  <1>3. clients' = [clients EXCEPT ![p] = Resolve(@, p \notin BadHosts)] /\ index' = index
    BY <1>2 DEF Becomes, ConnectTo, S
  <1>4. CASE phase = "running"
    <2>1. Attended([clients EXCEPT ![p] = Resolve(@, p \notin BadHosts)], index)
      BY <1>2, ResolveAttended DEF AwaitInv
    <2> QED
      BY <1>1, <1>3, <1>4, <2>1 DEF AwaitInv, Attended
  <1>5. CASE phase = "new"
    <2>1. p = 0 /\ index = 0 /\ index' = 0
      BY <1>3, <1>5 DEF AwaitInv, Started
    <2>2. clients[0] \in Client
      BY <1>2, <2>1
    <2>3. Kept(clients[0], clients'[0]) /\ clients'[0].failures # -1
          /\ (0 \notin BadHosts => clients'[0].lookup > 0)
      BY <1>2, <1>3, <2>1, <2>2, ResolveKeeps
    <2>4. \A q \in Pools : q # 0 => clients'[q] = clients[q]
      BY <1>2, <1>3, <2>1
    <2>5. \A q \in Pools : Listens(clients[q]) => Listens(clients'[q])
      BY <2>3, <2>4 DEF Listens, Kept
    <2>6. Awaited(0, clients'[0])
      BY <2>3 DEF Awaited
    <2> QED
      BY <1>1, <1>5, <2>1, <2>5, <2>6 DEF AwaitInv, Attended
  <1> QED
    BY <1>4, <1>5

LEMMA StopAwait ==
  ASSUME AwaitInv, Stop \/ Reload
  PROVE  AwaitInv'
  <1>1. Inv'
    BY StopInv DEF AwaitInv
  <1>2. phase' \in {"stopped", "deleted"}
    BY DEF Stop, Reload
  <1>3. ASSUME phase' = "stopped", NEW q \in Pools
        PROVE  Listens(clients'[q])
    <2>1. Stop
      BY <1>3 DEF Reload
    <2>2. clients'[q] = Disconnect(clients[q])
      BY <2>1 DEF Stop, Becomes, Stopped
    <2>3. Listens(clients[q]) /\ clients[q] \in Client
      BY <2>1 DEF Stop, AwaitInv, Attended, Inv, TypeOK
    <2> QED
      BY <2>2, <2>3, DisconnectKeeps DEF Listens
  <1> QED
    BY <1>1, <1>2, <1>3 DEF AwaitInv, Attended, Started

(* Callbacks of a connection, and the timers of one.                        *)
LEMMA ConnectionAwait ==
  ASSUME AwaitInv, NEW p \in Pools,
         \/ Connected(p) \/ Refused(p) \/ Answered(p) \/ Notified(p) \/ Dropped(p)
         \/ Ping(p)
         \/ Timeout(p) /\ clients[p].socket # "none"
         \/ Accepted(p) /\ ~LoginAccepted(clients[p])
  PROVE  AwaitInv'
  <1>1. clients[p] \in Client
    BY DEF AwaitInv, Inv, TypeOK
  <1>2. clients[p].socket # "none" /\ UNCHANGED <<phase, servers>>
    BY DEF Connected, Refused, Answered, Notified, Dropped, Timeout, Ping, Accepted
  <1>3. PICK c \in Client : Update(p, c) /\ Kept(clients[p], c) /\ c.socket # "none"
    <2>1. CASE Connected(p)
      BY <1>1, <1>2, <2>1, CloseType, LoginType, CloseKeeps, WritesKeep DEF Connected
    <2>2. CASE Refused(p)
      <3> DEFINE h == Heard(clients[p])
                 d == [h EXCEPT !.socket = IF @ = "open" THEN "refused" ELSE @]
      <3>1. h \in Client /\ Close(h) \in Client
        BY <1>1, CallbackType, CloseType
      <3>2. d \in Client
        BY <3>1 DEF Client, Sockets
      <3>3. Update(p, Close(h)) \/ Update(p, d)
        BY <2>2 DEF Refused
      <3>4. /\ Kept(clients[p], Close(h)) /\ Close(h).socket # "none"
            /\ Kept(clients[p], d) /\ d.socket # "none"
        BY <1>1, <1>2, HeardKeeps
      <3> HIDE DEF h, d
      <3> QED
        BY <3>1, <3>2, <3>3, <3>4
    <2>3. CASE Answered(p)
      BY <1>1, <1>2, <2>3, CallbackType, HeardKeeps DEF Answered
    <2>4. CASE Notified(p)
      BY <1>1, <1>2, <2>4, CallbackType, JobAgainType, HeardKeeps DEF Notified
    <2>5. CASE Dropped(p)
      BY <1>1, <1>2, <2>5, CloseType, CloseKeeps DEF Dropped
    <2>6. CASE Timeout(p)
      BY <1>1, <1>2, <2>6, CloseType, CloseKeeps DEF Timeout
    <2>7. CASE Ping(p)
      BY <1>1, <1>2, <2>7, PingedType, WritesKeep DEF Ping
    <2>8. CASE Accepted(p) /\ ~LoginAccepted(clients[p])
      BY <1>1, <1>2, <2>8, LoggedInType, LoggedInKeeps DEF Accepted
    <2> QED
      BY <2>1, <2>2, <2>3, <2>4, <2>5, <2>6, <2>7, <2>8
  <1>4. phase # "new"
    BY <1>2, NewIsQuiet
  <1>5. Awaited(p, clients[p]) => Awaited(p, c)
    BY <1>3 DEF Awaited, Kept
  <1> QED
    BY <1>2, <1>3, <1>4, <1>5, UpdateAwait

LEMMA ResolvedAwait ==
  ASSUME AwaitInv, NEW p \in Pools, Resolved(p)
  PROVE  AwaitInv'
  <1> DEFINE c == [clients[p] EXCEPT !.lookup = 0]
  <1>1. c \in Client /\ Kept(clients[p], c)
    BY DEF AwaitInv, Inv, TypeOK, Client, Kept
  <1>2. /\ UNCHANGED <<phase, servers>> /\ phase # "new"
        /\ (\E r \in BOOLEAN : Update(p, ConnectSocket(c, r))) \/ Lose(p, c)
    BY NewIsQuiet DEF Resolved
  <1> HIDE DEF c
  <1>3. ASSUME NEW r \in BOOLEAN
        PROVE  LET d == ConnectSocket(c, r)
               IN  /\ d \in Client /\ Kept(clients[p], d)
                   /\ Awaited(p, clients[p]) => Awaited(p, d)
    BY <1>1, ConnectSocketType, ConnectSocketKeeps DEF Kept, Awaited
  <1> QED
    BY <1>1, <1>2, <1>3, UpdateAwait, LoseAwait

LEMMA ClosedAwait ==
  ASSUME AwaitInv, NEW p \in Pools, Closed(p)
  PROVE  AwaitInv'
  <1>1. Unconnected(clients[p]) \in Client /\ Kept(clients[p], Unconnected(clients[p]))
    BY CallbackType DEF AwaitInv, Inv, TypeOK, Unconnected, Kept, Client
  <1> QED
    BY <1>1, NewIsQuiet, LoseAwait DEF Closed

(* The timeout of a client without a socket: there is nothing to close.     *)
LEMMA TimeoutAwait ==
  ASSUME AwaitInv, NEW p \in Pools, Timeout(p), clients[p].socket = "none"
  PROVE  AwaitInv'
  <1>1. clients[p] \in Client /\ Close(clients[p]) = clients[p]
    BY DEF AwaitInv, Inv, TypeOK, Close
  <1> QED
    BY <1>1, UpdateAwait DEF Timeout, TimersRun, Kept

LEMMA StepAwait ==
  ASSUME AwaitInv, [Next]_vars
  PROVE  AwaitInv'
  <1>1. CASE Connect
    BY <1>1, ConnectAwait DEF Connect, AwaitInv, Inv, TypeOK
  <1>2. CASE Stop \/ Reload
    BY <1>2, StopAwait
  <1>3. ASSUME NEW p \in Pools, Callback(p) \/ Refused(p) \/ Notified(p) \/ Ping(p)
        PROVE  AwaitInv'
    <2>1. CASE Accepted(p) /\ LoginAccepted(clients[p])
      BY <2>1, NewIsQuiet, LoginSuccessAwait DEF Accepted
    <2> QED
      BY <1>3, <2>1, ResolvedAwait, ClosedAwait, ConnectionAwait DEF Callback
  <1>4. ASSUME NEW p \in Pools, Timeout(p)
        PROVE  AwaitInv'
    BY <1>4, TimeoutAwait, ConnectionAwait
  <1>5. ASSUME NEW p \in Pools, Retry(p)
        PROVE  AwaitInv'
    BY <1>5, ConnectAwait DEF Retry, TimersRun
  <1>6. ASSUME NEW p \in Pools, NewBlock(p)
        PROVE  AwaitInv'
    <2> DEFINE c == [clients[p] EXCEPT !.known = FALSE]
    <2>1. phase # "new" /\ UNCHANGED <<phase, servers>>
      BY <1>6, NewIsQuiet DEF NewBlock
    <2>2. /\ c \in Client /\ Kept(clients[p], c)
          /\ Awaited(p, clients[p]) => Awaited(p, c)
      BY ZenonT(30) DEF AwaitInv, Inv, TypeOK, Client, Kept, Awaited
    <2>3. Update(p, c)
      BY <1>6 DEF NewBlock, Update
    <2> HIDE DEF c
    <2> QED
      BY <2>1, <2>2, <2>3, UpdateAwait
  <1>7. ASSUME NEW p \in Pools, Turn(p)
        PROVE  AwaitInv'
    <2>1. Inv' /\ UNCHANGED <<clients, active, index, phase>>
      BY <1>7, StepInv DEF Turn, AwaitInv, Next
    <2> QED
      BY <2>1 DEF AwaitInv, Started, Attended
  <1>8. CASE UNCHANGED vars
    BY <1>8, StepInv DEF vars, AwaitInv, Started, Attended
  <1> QED
    BY <1>1, <1>2, <1>3, <1>4, <1>5, <1>6, <1>7, <1>8 DEF Next, Tick

-----------------------------------------------------------------------------
(* Handles and logins.  Backups after m_index have not been tried or were   *)
(* disconnected, so that only what disconnect() left behind can be in the   *)
(* way of the connect() that onClose() makes.                               *)

Sound(p, c, a, i) ==
    /\ Coherent(c)
    /\ p \in BadHosts => c.lookup = 0 /\ c.socket = "none"
    /\ p > i => c.failures = -1 \/ (c.state = "unconnected" /\ c.lookup = 0)
    /\ c.socket = "served" => a = p
    /\ a = p => c.state \in {"connected", "closing"} /\ c.failures = 0
    /\ c.removed => c.socket = "none"

Released ==
    phase = "deleted" => /\ active = -1
                         /\ \A p \in Pools : /\ ~clients[p].listener
                                             /\ clients[p].socket \in {"none", "closing"}

HandleInv ==
    /\ AwaitInv
    /\ Released
    /\ \A p \in Pools : Sound(p, clients[p], active, index)

LEMMA InitHandle ==
  Init => HandleInv
  BY InitAwait, NewClientCoherent, FailoverAssumption
     DEF Init, HandleInv, Sound, Released, NewClient, Pools

LEMMA HandleType ==
  ASSUME HandleInv
  PROVE  /\ clients \in [Pools -> Client] /\ active \in Pools \cup {-1} /\ index \in Pools
         /\ active # -1 => index = active
         /\ \A p \in Pools : Coherent(clients[p])
  BY DEF HandleInv, AwaitInv, Inv, TypeOK, IndexIsActive, Sound

LEMMA UpdateHandle ==
  ASSUME HandleInv, AwaitInv', NEW p \in Pools, NEW c \in Client, Update(p, c),
         UNCHANGED <<phase, servers>>, Sound(p, c, active, index),
         phase = "deleted" => ~c.listener /\ c.socket \in {"none", "closing"}
  PROVE  HandleInv'
  <1>1. /\ clients' = [clients EXCEPT ![p] = c] /\ active' = active /\ index' = index
        /\ phase' = phase /\ clients \in [Pools -> Client]
    BY HandleType DEF Update
  <1>2. \A q \in Pools : q # p => clients'[q] = clients[q]
    BY <1>1
  <1>3. clients'[p] = c
    BY <1>1
  <1>4. Released'
    BY <1>1, <1>2, <1>3 DEF HandleInv, Released
  <1> QED
    BY <1>1, <1>2, <1>3, <1>4 DEF HandleInv

LEMMA ConnectionHandle ==
  ASSUME HandleInv, AwaitInv', NEW p \in Pools,
         \/ Connected(p) \/ Refused(p) \/ Answered(p) \/ Notified(p) \/ Dropped(p)
         \/ Timeout(p) \/ Ping(p)
         \/ Accepted(p) /\ ~LoginAccepted(clients[p])
  PROVE  HandleInv'
  <1> DEFINE b == clients[p]
  <1>1. b \in Client /\ Coherent(b) /\ Sound(p, b, active, index)
    BY HandleType DEF HandleInv
  <1>2. /\ b.socket \notin {"none", "closing"} /\ UNCHANGED <<phase, servers>>
        /\ b.state \in {"connecting", "connected"}
    BY <1>1 DEF Coherent, Client, Sockets, Connected, Refused, Answered, Notified, Dropped,
                Timeout, Ping, Accepted
  <1>3. /\ b.state = "connected" \/ Connected(p)
        /\ phase # "deleted"
    BY <1>1, <1>2 DEF Coherent, Refused, Answered, Notified, Dropped,
                Timeout, Ping, Accepted, HandleInv, Released
  <1>4. PICK c \in Client : Update(p, c) /\ Kept(b, c) /\ Follows(b, c) /\ Coherent(c)
    <2>1. CASE Connected(p)
      BY <1>1, <1>2, <2>1, CloseType, LoginType, CloseKeeps, WritesKeep, CloseCoherent,
         LoginCoherent, CallbackFollows DEF Connected
    <2>2. CASE Refused(p)
      <3> DEFINE h == Heard(b)
                 d == [h EXCEPT !.socket = IF @ = "open" THEN "refused" ELSE @]
      <3>1. h \in Client /\ Close(h) \in Client
        BY <1>1, CallbackType, CloseType
      <3>2. d \in Client
        BY <3>1 DEF Client, Sockets
      <3>3. Update(p, Close(h)) \/ Update(p, d)
        BY <2>2 DEF Refused
      <3>4. Kept(b, Close(h)) /\ Kept(b, d) /\ Follows(b, Close(h)) /\ Follows(b, d)
        BY <1>1, <1>2, HeardKeeps, CallbackFollows
      <3>5. b.state = "connected"
        BY <1>1, <2>2 DEF Refused, Coherent
      <3>6. Coherent(h) /\ Coherent(d)
        BY <1>1, <3>5, HeardCoherent
      <3> HIDE DEF b, d
      <3>7. Coherent(Close(h))
        <4> HIDE DEF h
        <4> QED
          BY <3>1, <3>6, CloseCoherent
      <3> HIDE DEF h
      <3> QED
        BY <3>1, <3>2, <3>3, <3>4, <3>6, <3>7
    <2>3. CASE Answered(p)
      BY <1>1, <1>2, <2>3, CallbackType, HeardKeeps, CallbackFollows, HeardCoherent
         DEF Answered, Coherent
    <2>4. CASE Notified(p)
      BY <1>1, <1>2, <2>4, CallbackType, JobAgainType, HeardKeeps, CallbackFollows,
         HeardCoherent DEF Notified, Coherent
    <2>5. CASE Dropped(p)
      BY <1>1, <1>2, <2>5, CloseType, CloseKeeps, CallbackFollows, CloseCoherent DEF Dropped
    <2>6. CASE Timeout(p)
      BY <1>1, <1>2, <2>6, CloseType, CloseKeeps, CallbackFollows, CloseCoherent DEF Timeout
    <2>7. CASE Ping(p)
      BY <1>1, <1>2, <2>7, PingedType, WritesKeep, CallbackFollows, HeardCoherent
         DEF Ping
    <2>8. CASE Accepted(p) /\ ~LoginAccepted(clients[p])
      BY <1>1, <1>2, <2>8, LoggedInType, LoggedInKeeps, CallbackFollows, LoggedInCoherent
         DEF Accepted
    <2> HIDE DEF b
    <2> QED
      BY <2>1, <2>2, <2>3, <2>4, <2>5, <2>6, <2>7, <2>8
  <1>5. b.lookup = 0 /\ b.state # "unconnected" /\ b.removed = FALSE
    BY <1>1, <1>2, CoherentHandles DEF Sound, Client
  <1> HIDE DEF b
  <1>6. Sound(p, c, active, index)
    BY <1>1, <1>2, <1>3, <1>4, <1>5 DEF Sound, Follows, Kept
  <1> QED
    BY <1>2, <1>3, <1>4, <1>6, UpdateHandle

(* A client that lost its connection.                                       *)
LEMMA LoseHandle ==
  ASSUME HandleInv, AwaitInv', LeavesAlone, NEW p \in Pools, NEW c \in Client, Lose(p, c),
         UNCHANGED <<phase, servers>>, Coherent(c), c.lookup = 0, c.socket = "none",
         Kept(clients[p], c), c.failures = clients[p].failures,
         clients[p].lookup = 1 \/ clients[p].socket = "closing"
  PROVE  HandleInv'
  <1> DEFINE d == Reconnect(c)
             cs == [clients EXCEPT ![p] = d]
             r == IF d.removed THEN S(cs) ELSE OnClose(S(cs), p, d.failures)
  <1>1. /\ clients \in [Pools -> Client] /\ active \in Pools \cup {-1} /\ index \in Pools
        /\ active # -1 => index = active
        /\ \A q \in Pools : Sound(q, clients[q], active, index)
    BY HandleType DEF HandleInv
  <1>2. /\ d \in Client /\ Coherent(d) /\ d.lookup = 0 /\ d.socket = "none"
        /\ d.failures = -1 <=> c.failures = -1
        /\ d.listener = c.listener
        /\ d.removed <=> c.removed \/ ~c.listener
    BY ReconnectType, ReconnectCoherent
  <1>3. cs \in [Pools -> Client] /\ cs[p] = d /\ \A q \in Pools : q # p => cs[q] = clients[q]
    BY <1>1, <1>2
  <1>4. Becomes(r)
    BY DEF Lose
  <1>5. d.failures \in -1..Retries
    BY <1>2 DEF Client
  <1> HIDE DEF d, cs
  <1>6. S(cs) \in Strategy /\ S(cs).c = cs /\ S(cs).index = index /\ S(cs).active = active
    BY <1>3, SType DEF HandleInv, AwaitInv, S
  <1> HIDE DEF r
  <1>7. (p > index => d.failures = -1) /\ (active = p => d.failures # -1)
    <2>1. Sound(p, clients[p], active, index) /\ clients[p] \in Client
      BY <1>1
    <2>2. clients[p].state # "unconnected" \/ clients[p].lookup # 0
      BY <2>1, CoherentHandles DEF Sound, Coherent
    <2> QED
      BY <1>2, <2>1, <2>2 DEF Sound
  <1>8. \A a : a # p => Sound(p, d, a, index)
    BY <1>1, <1>2, <1>7, CoherentHandles DEF Sound
  <1>9. CASE phase = "deleted"
    <2>1. active = -1 /\ ~clients[p].listener
      BY <1>9 DEF HandleInv, Released
    <2>2. d.removed
      BY <1>2, <2>1 DEF Kept
    <2>3. clients' = cs /\ active' = active /\ index' = index /\ phase' = phase
      BY <1>4, <1>6, <2>2 DEF Becomes, r
    <2>4. \A q \in Pools : Sound(q, cs[q], active, index)
      BY <1>1, <1>3, <1>8, <2>1, FailoverAssumption DEF Pools
    <2>5. Released'
      BY <1>2, <1>3, <2>1, <2>3 DEF HandleInv, Released, Kept
    <2> QED
      BY <2>3, <2>4, <2>5 DEF HandleInv
  <1>10. CASE phase # "deleted"
    <2>1. ~d.removed
      BY <1>2, <1>10 DEF HandleInv, AwaitInv, Attended, Listens, Kept
    <2>2. r = OnClose(S(cs), p, d.failures)
      BY <2>1 DEF r
    <2>3. /\ r.active = IF d.failures # -1 /\ active = p THEN -1 ELSE active
          /\ \/ r.c = cs /\ r.index = index
             \/ /\ index = p /\ p + 1 \in Pools /\ r.index = p + 1
                /\ r.c = [cs EXCEPT ![p + 1] = Resolve(@, p + 1 \notin BadHosts)]
      BY <1>5, <1>6, <2>2, OnCloseResult
    <2>4. /\ clients' = r.c /\ active' = r.active /\ index' = r.index
          /\ phase' = phase
      BY <1>4 DEF Becomes
    <2>5. r.active # p
      BY <1>7, <2>3, FailoverAssumption DEF Pools
    <2>6. Sound(p, d, r.active, index)
      BY <1>8, <2>5
    <2>7. ASSUME NEW q \in Pools, q # p
          PROVE  Sound(q, clients[q], r.active, index)
      BY <1>1, <2>3, <2>7, FailoverAssumption DEF Sound, Pools
    <2>8. \A q \in Pools : Sound(q, cs[q], r.active, index)
      BY <1>3, <2>6, <2>7
    <2>9. CASE r.c = cs /\ r.index = index
      BY <1>10, <2>4, <2>8, <2>9 DEF HandleInv, Released
    <2>10. CASE /\ index = p /\ p + 1 \in Pools /\ r.index = p + 1
                /\ r.c = [cs EXCEPT ![p + 1] = Resolve(@, p + 1 \notin BadHosts)]
      <3> DEFINE n == p + 1
                 b == clients[n]
                 e == Resolve(b, n \notin BadHosts)
      <3>1. n \in Pools /\ n # p /\ n > index
        BY <2>10, <1>1 DEF Pools
      <3>2. b \in Client /\ Coherent(b) /\ Sound(n, b, active, index) /\ cs[n] = b
        BY <1>1, <1>3, <3>1 DEF Sound
      <3>3. clients'[n] = e
        BY <1>3, <2>4, <2>10, <3>1, <3>2
      <3>4. ASSUME NEW q \in Pools, q # n
            PROVE  clients'[q] = cs[q]
        BY <1>3, <2>4, <2>10, <3>1, <3>4
      <3>5. LeftBehind(b) => e.lookup <= b.lookup
        BY <3>1, <3>3 DEF LeavesAlone
      <3> HIDE DEF n, b
      <3>6. b.lookup = 0 /\ b.socket = "none"
        <4>1. CASE n \in BadHosts
          BY <3>2, <4>1 DEF Sound
        <4>2. CASE n \notin BadHosts
          <5>1. e.lookup = b.lookup + 1
            BY <3>2, <4>2 DEF Resolve, Client, Coherent
          <5>2. ~LeftBehind(b)
            BY <3>2, <3>5, <5>1 DEF Client
          <5> QED
            BY <3>1, <3>2, <5>2, CoherentHandles DEF Sound, LeftBehind, Client
        <4> QED
          BY <4>1, <4>2
      <3>7. /\ Coherent(e) /\ e.socket = "none" /\ e.removed = b.removed
            /\ n \in BadHosts => e.lookup = 0
        BY <3>2, <3>6, ResolveCoherent DEF Resolve, Client
      <3>8. r.active # n
        BY <1>1, <2>3, <2>10, <3>1, FailoverAssumption DEF Pools
      <3> HIDE DEF e
      <3>9. Sound(n, e, r.active, n)
        BY <3>1, <3>2, <3>6, <3>7, <3>8 DEF Sound, Pools
      <3>10. ASSUME NEW q \in Pools, q # n
             PROVE  Sound(q, cs[q], r.active, n)
        BY <1>1, <2>8, <2>10, <3>1, <3>10 DEF Sound, Pools
      <3>11. r.index = n
        BY <2>10 DEF n
      <3>12. \A q \in Pools : Sound(q, clients'[q], active', index')
        BY <2>4, <3>3, <3>4, <3>9, <3>10, <3>11
      <3> QED
        BY <1>10, <2>4, <3>12 DEF HandleInv, Released
    <2> QED
      BY <2>3, <2>9, <2>10
  <1> QED
    BY <1>9, <1>10

LEMMA LoginSuccessHandle ==
  ASSUME HandleInv, AwaitInv', NEW p \in Pools, clients[p].socket = "open",
         ~clients[p].removed, LoginAccepted(clients[p]),
         Becomes(OnLoginSuccess(S([clients EXCEPT ![p] = LoggedIn(clients[p])]), p)),
         UNCHANGED <<phase, servers>>
  PROVE  HandleInv'
  <1> DEFINE c == LoggedIn(clients[p])
             cs == [clients EXCEPT ![p] = c]
             s == S(cs)
             r == OnLoginSuccess(s, p)
             a == IF p = 0 \/ active = -1 THEN p ELSE active
  <1>1. /\ clients \in [Pools -> Client] /\ active \in Pools \cup {-1} /\ index \in Pools
        /\ active # -1 => index = active
        /\ \A q \in Pools : Sound(q, clients[q], active, index)
    BY HandleType DEF HandleInv
  <1>2. clients[p] \in Client /\ Sound(p, clients[p], active, index)
    BY <1>1
  <1>3. /\ c \in Client /\ Coherent(c) /\ c.socket = "served" /\ c.failures = 0
        /\ c.state = "connected" /\ c.removed = FALSE /\ p \notin BadHosts
    BY <1>2, LoggedInType, LoggedInKeeps, LoggedInCoherent DEF Sound, Coherent, Kept
  <1>4. cs \in [Pools -> Client] /\ cs[p] = c /\ \A q \in Pools : q # p => cs[q] = clients[q]
    BY <1>1, <1>3
  <1>5. s \in Strategy /\ Consistent(s) /\ s.c = cs /\ s.active = active
    BY <1>4, SType DEF HandleInv, AwaitInv, S
  <1>6. Becomes(r)
    OBVIOUS
  <1> HIDE DEF c, cs, s
  <1>7. /\ a \in Pools /\ r.active = a /\ r.index = a
        /\ r.c = [q \in Pools |-> IF q # 0 /\ q # a THEN Disconnect(cs[q]) ELSE cs[q]]
    BY <1>5, LoginSuccessResult
  <1>8. clients' = r.c /\ active' = a /\ index' = a /\ phase' = phase
    BY <1>6, <1>7 DEF Becomes
  <1> HIDE DEF r
  <1>9. ASSUME NEW q \in Pools
        PROVE  Coherent(cs[q]) /\ (q \in BadHosts => cs[q].lookup = 0 /\ cs[q].socket = "none")
               /\ (cs[q].removed => cs[q].socket = "none")
    BY <1>1, <1>3, <1>4 DEF Sound
  <1>10. ASSUME NEW q \in Pools, q # 0, q # a
         PROVE  Sound(q, clients'[q], a, a)
    <2> DEFINE d == Disconnect(cs[q])
    <2>1. clients'[q] = d
      BY <1>7, <1>8, <1>10
    <2>2. /\ Coherent(d) /\ d.socket \in {"none", "closing"}
          /\ d.failures = -1 /\ d.lookup = cs[q].lookup /\ d.removed = cs[q].removed
          /\ cs[q].socket = "none" => d.socket = "none"
      BY <1>4, <1>9, DisconnectCoherent
    <2> HIDE DEF d
    <2> QED
      BY <1>9, <1>10, <2>1, <2>2 DEF Sound
  <1>11. ASSUME NEW q \in Pools, q = 0 \/ q = a
         PROVE  Sound(q, clients'[q], a, a)
    <2>1. clients'[q] = cs[q]
      BY <1>7, <1>8, <1>11
    <2>2. ~(q > a)
      BY <1>7, <1>11 DEF Pools
    <2>3. CASE q = p
      <3>1. a = p
        BY <1>11, <2>3
      <3> QED
        BY <1>3, <1>4, <2>1, <2>2, <2>3, <3>1 DEF Sound
    <2>4. CASE q # p
      <3>1. Sound(q, clients[q], active, index) /\ cs[q] = clients[q]
        BY <1>1, <1>4, <2>4
      <3>2. a = q <=> active = q
        BY <1>11, <2>4, FailoverAssumption DEF Pools
      <3> QED
        BY <2>1, <2>2, <3>1, <3>2 DEF Sound
    <2> QED
      BY <2>3, <2>4
  <1>12. phase # "deleted"
    BY DEF HandleInv, Released
  <1>13. \A q \in Pools : Sound(q, clients'[q], active', index')
    BY <1>8, <1>10, <1>11
  <1> QED
    BY <1>8, <1>12, <1>13 DEF HandleInv, Released

(* connect() and the timer for a retry find neither a lookup nor a socket.  *)
LEMMA ConnectHandle ==
  ASSUME HandleInv, AwaitInv', NEW p \in Pools, Becomes(ConnectTo(S(clients), p)),
         phase' = "running", phase # "deleted", UNCHANGED servers,
         \/ phase = "new" /\ p = index
         \/ clients[p].expire /\ clients[p].state = "connecting"
  PROVE  HandleInv'
  <1> DEFINE b == clients[p]
             e == Resolve(b, p \notin BadHosts)
  <1>1. /\ clients \in [Pools -> Client] /\ active \in Pools \cup {-1} /\ index \in Pools
        /\ \A q \in Pools : Sound(q, clients[q], active, index)
    BY HandleType DEF HandleInv
  <1>2. clients' = [clients EXCEPT ![p] = e] /\ index' = index /\ active' = active
    BY <1>1 DEF Becomes, ConnectTo, S
  <1>3. b \in Client /\ Coherent(b) /\ Sound(p, b, active, index)
    BY <1>1 DEF Sound
  <1>4. clients'[p] = e /\ \A q \in Pools : q # p => clients'[q] = clients[q]
    BY <1>1, <1>2
  <1>5. b.lookup = 0 /\ b.socket = "none" /\ active # p /\ ~(p > index)
    <2>1. CASE phase = "new" /\ p = index
      <3>1. b = NewClient /\ active = -1
        BY <2>1 DEF HandleInv, AwaitInv, Started
      <3> QED
        BY <1>1, <2>1, <3>1, FailoverAssumption DEF NewClient, Pools
    <2>2. CASE b.expire /\ b.state = "connecting"
      BY <1>3, <2>2, CoherentHandles DEF Sound, Coherent
    <2> QED
      BY <2>1, <2>2
  <1> HIDE DEF b
  <1>6. /\ Coherent(e) /\ e.socket = "none" /\ e.removed = b.removed
        /\ p \in BadHosts => e.lookup = 0
    BY <1>3, <1>5, ResolveCoherent DEF Resolve, Client
  <1> HIDE DEF e
  <1>7. Sound(p, e, active, index)
    BY <1>3, <1>5, <1>6 DEF Sound
  <1>8. \A q \in Pools : Sound(q, clients'[q], active', index')
    BY <1>1, <1>2, <1>4, <1>7
  <1> QED
    BY <1>8 DEF HandleInv, Released

LEMMA StopHandle ==
  ASSUME HandleInv, AwaitInv', Stop \/ Reload
  PROVE  HandleInv'
  <1> DEFINE ds == [q \in Pools |-> Disconnect(clients[q])]
  <1>1. /\ clients \in [Pools -> Client]
        /\ \A q \in Pools : Sound(q, clients[q], active, index)
    BY HandleType DEF HandleInv
  <1>2. ASSUME NEW q \in Pools
        PROVE  /\ ds[q] \in Client /\ Coherent(ds[q]) /\ ds[q].listener
               /\ Sound(q, ds[q], -1, 0) /\ ds[q].socket \in {"none", "closing"}
    <2> DEFINE c == clients[q]
               d == Disconnect(c)
    <2>1. c \in Client /\ Coherent(c) /\ Sound(q, c, active, index)
      BY <1>1 DEF Sound
    <2>2. c.listener
      BY DEF Stop, Reload, HandleInv, AwaitInv, Attended, Listens
    <2> HIDE DEF c
    <2>3. /\ Coherent(d) /\ d.socket \in {"none", "closing"}
          /\ d.failures = -1 /\ d.lookup = c.lookup /\ d.removed = c.removed
          /\ d.listener /\ d \in Client
          /\ c.socket = "none" => d.socket = "none"
      BY <2>1, <2>2, DisconnectCoherent, DisconnectType
    <2>4. q # -1
      BY DEF Pools
    <2> HIDE DEF d
    <2>5. Sound(q, d, -1, 0)
      BY <2>1, <2>3, <2>4 DEF Sound
    <2> QED
      BY <2>3, <2>5 DEF c, d
  <1>3. CASE Stop
    <2>1. clients' = ds /\ active' = -1 /\ index' = 0 /\ phase' = "stopped"
      BY <1>3 DEF Stop, Becomes, Stopped
    <2> QED
      BY <1>2, <2>1 DEF HandleInv, Released
  <1>4. CASE Reload
    <2> DEFINE es == [q \in Pools |-> DeleteLater(ds[q])]
    <2>1. clients' = es /\ active' = -1 /\ index' = 0 /\ phase' = "deleted"
      BY <1>4 DEF Reload, Becomes, Stopped
    <2>2. ASSUME NEW q \in Pools
          PROVE  Sound(q, es[q], -1, 0) /\ ~es[q].listener
                 /\ es[q].socket \in {"none", "closing"}
      <3> DEFINE c == ds[q]
                 d == DeleteLater(c)
      <3>1. c \in Client /\ Coherent(c) /\ c.listener /\ Sound(q, c, -1, 0)
        BY <1>2
      <3> HIDE DEF c
      <3>2. /\ Coherent(d) /\ d.socket \in {"none", "closing"} /\ d.failures = -1
            /\ c.lookup = 0 => d.lookup = 0
            /\ c.socket = "none" => d.socket = "none"
            /\ ~d.listener /\ (d.removed => d.socket = "none")
        BY <3>1, DeleteLaterCoherent
      <3>3. q # -1
        BY DEF Pools
      <3> HIDE DEF d
      <3>4. Sound(q, d, -1, 0)
        BY <3>1, <3>2, <3>3 DEF Sound
      <3> QED
        BY <3>2, <3>4 DEF c, d
    <2> HIDE DEF es
    <2> QED
      BY <2>1, <2>2 DEF HandleInv, Released
  <1> QED
    BY <1>3, <1>4

LEMMA ResolvedHandle ==
  ASSUME HandleInv, AwaitInv', LeavesAlone, NEW p \in Pools, Resolved(p)
  PROVE  HandleInv'
  <1> DEFINE c == [clients[p] EXCEPT !.lookup = 0]
  <1>1. /\ clients[p] \in Client /\ clients[p].lookup = 1
        /\ Sound(p, clients[p], active, index) /\ Coherent(clients[p])
    BY HandleType DEF Resolved, HandleInv
  <1>2. /\ c \in Client /\ Kept(clients[p], c) /\ Coherent(c) /\ c.socket = "none"
        /\ c.lookup = 0 /\ c.failures = clients[p].failures
        /\ c.listener = clients[p].listener /\ c.removed = clients[p].removed
        /\ \A r \in BOOLEAN :
              /\ Coherent(ConnectSocket(c, r)) /\ ConnectSocket(c, r) \in Client
              /\ ConnectSocket(c, r).socket \in {"connecting", "dead"}
    BY <1>1, LookupCoherent, ConnectSocketType, ZenonT(30) DEF Client, Kept
  <1>3. /\ UNCHANGED <<phase, servers>> /\ ~c.removed
        /\ \/ c.listener /\ \E r \in BOOLEAN : Update(p, ConnectSocket(c, r))
           \/ Lose(p, c)
    BY <1>2 DEF Resolved, Alive
  <1> HIDE DEF c
  <1>4. ASSUME c.listener, NEW r \in BOOLEAN, Update(p, ConnectSocket(c, r))
        PROVE  HandleInv'
    <2> DEFINE d == ConnectSocket(c, r)
    <2>1. d.failures = c.failures /\ d.lookup = 0 /\ d.removed = c.removed
      BY <1>2 DEF ConnectSocket, Client
    <2>2. /\ clients[p].state = "lookup" /\ p \notin BadHosts /\ active # p
          /\ p > index => c.failures = -1
      BY <1>1, <1>2 DEF Sound, Coherent
    <2>3. d \in Client /\ Coherent(d) /\ d.socket \in {"connecting", "dead"} /\ Update(p, d)
      BY <1>2, <1>4
    <2> HIDE DEF d
    <2>4. Sound(p, d, active, index)
      BY <1>3, <2>1, <2>2, <2>3 DEF Sound
    <2>5. phase # "deleted"
      BY <1>2, <1>4 DEF HandleInv, Released
    <2> QED
      BY <1>3, <2>3, <2>4, <2>5, UpdateHandle
  <1> QED
    BY <1>1, <1>2, <1>3, <1>4, LoseHandle

LEMMA ClosedHandle ==
  ASSUME HandleInv, AwaitInv', LeavesAlone, NEW p \in Pools, Closed(p)
  PROVE  HandleInv'
  <1> DEFINE c == Unconnected(clients[p])
  <1>1. clients[p] \in Client /\ Coherent(clients[p]) /\ clients[p].socket = "closing"
    BY HandleType DEF Closed
  <1>2. /\ c \in Client /\ Coherent(c) /\ c.lookup = 0 /\ c.socket = "none"
        /\ Kept(clients[p], c) /\ c.failures = clients[p].failures
    BY <1>1, CallbackType, UnconnectedCoherent DEF Unconnected, Kept, Client
  <1>3. Lose(p, c) /\ UNCHANGED <<phase, servers>>
    BY DEF Closed
  <1> HIDE DEF c
  <1> QED
    BY <1>1, <1>2, <1>3, LoseHandle

LEMMA StepHandle ==
  ASSUME HandleInv, [Next]_vars, [LeavesAlone]_vars
  PROVE  HandleInv'
  <1>1. AwaitInv'
    BY StepAwait DEF HandleInv
  <1>2. CASE UNCHANGED vars
    BY <1>1, <1>2 DEF vars, HandleInv, Released
  <1>3. CASE Next /\ LeavesAlone
    <2>1. CASE Connect
      BY <1>1, <2>1, ConnectHandle, HandleType DEF Connect
    <2>2. CASE Stop \/ Reload
      BY <1>1, <2>2, StopHandle
    <2>3. ASSUME NEW p \in Pools, Callback(p) \/ Refused(p) \/ Notified(p) \/ Ping(p)
                                  \/ Timeout(p)
          PROVE  HandleInv'
      <3>1. CASE Accepted(p) /\ LoginAccepted(clients[p])
        BY <1>1, <3>1, LoginSuccessHandle DEF Accepted, Alive
      <3>2. CASE Resolved(p) \/ Closed(p)
        BY <1>1, <1>3, <3>2, ResolvedHandle, ClosedHandle
      <3>3. CASE \/ Connected(p) \/ Refused(p) \/ Answered(p) \/ Notified(p) \/ Dropped(p)
                 \/ Timeout(p) \/ Ping(p)
                 \/ Accepted(p) /\ ~LoginAccepted(clients[p])
        BY <1>1, <3>3, ConnectionHandle
      <3> QED
        BY <2>3, <3>1, <3>2, <3>3 DEF Callback
    <2>4. ASSUME NEW p \in Pools, Retry(p)
          PROVE  HandleInv'
      BY <1>1, <2>4, ConnectHandle DEF Retry, TimersRun
    <2>5. ASSUME NEW p \in Pools, NewBlock(p)
          PROVE  HandleInv'
      <3> DEFINE c == [clients[p] EXCEPT !.known = FALSE]
      <3>1. clients[p] \in Client /\ Sound(p, clients[p], active, index)
        BY HandleType DEF HandleInv
      <3>2. c \in Client /\ Sound(p, c, active, index) /\ c.listener = clients[p].listener
            /\ c.socket = clients[p].socket
        BY <3>1 DEF Client, Sound, Coherent
      <3>3. Update(p, c) /\ UNCHANGED <<phase, servers>>
        BY <2>5 DEF NewBlock, Update
      <3>4. phase = "deleted" => ~c.listener /\ c.socket \in {"none", "closing"}
        BY <3>2 DEF HandleInv, Released
      <3> HIDE DEF c
      <3> QED
        BY <1>1, <3>2, <3>3, <3>4, UpdateHandle
    <2>6. ASSUME NEW p \in Pools, Turn(p)
          PROVE  HandleInv'
      BY <1>1, <2>6 DEF Turn, HandleInv, Released
    <2> QED
      BY <1>3, <2>1, <2>2, <2>3, <2>4, <2>5, <2>6 DEF Next, Tick
  <1> QED
    BY <1>2, <1>3

-----------------------------------------------------------------------------
(* The theorems.                                                            *)

(* Every variable keeps its type: m_index stays a pool however often pools  *)
(* fail, and the counts of a client stay in their range.                    *)
THEOREM TypeCorrect == Spec => []TypeOK
  <1>1. Inv /\ [Next]_vars => Inv'
    BY StepInv
  <1>2. Inv => TypeOK
    BY DEF Inv
  <1> QED
    BY InitInv, <1>1, <1>2, PTL DEF Spec

(* FailoverStrategy: while there is an active pool m_index is that pool,    *)
(* with any number of pools.                                                *)
THEOREM IndexFollowsActive == Spec => []IndexIsActive
  <1>1. Inv /\ [Next]_vars => Inv'
    BY StepInv
  <1>2. Inv => IndexIsActive
    BY DEF Inv
  <1> QED
    BY InitInv, <1>1, <1>2, PTL DEF Spec

(* FailoverStrategy implements pool preference: it takes up any pool when   *)
(* it has none, and leaves a pool that it has for the primary only.         *)
THEOREM ImplementsPreference == Spec => Prefers
  <1>1. Inv /\ [Next]_vars => Inv'
    BY StepInv
  <1>2. Init => P!Init
    BY DEF Init, P!Init
  <1>3. Inv /\ Inv' /\ [Next]_vars => [P!Next]_mining
    <2> SUFFICES ASSUME Inv, Inv', [Next]_vars
                 PROVE  [P!Next]_mining
      OBVIOUS
    <2>1. MiningStep
      BY StepInv
    <2>2. mining \in Pools \cup {-1} /\ mining' \in Pools \cup {-1}
      BY DEF Inv, TypeOK
    <2>3. -1 \notin Pools /\ 0 \in Pools
      BY FailoverAssumption DEF Pools
    <2> QED
      BY <2>1, <2>2, <2>3 DEF MiningStep, P!Next, P!Start, P!Pause, P!Prefer
  <1> QED
    BY InitInv, <1>1, <1>2, <1>3, PTL DEF Spec, Prefers, P!Spec

(* FailoverStrategy and Client: whatever the pools do and however often     *)
(* they fail, while the strategy runs the primary and the pool of m_index   *)
(* have an event to come, with any number of pools.                         *)
THEOREM NobodyForgotten == Spec => []NeverForgotten
  <1>1. AwaitInv /\ [Next]_vars => AwaitInv'
    BY StepAwait
  <1>2. AwaitInv => NeverForgotten
    BY DEF AwaitInv, Attended, Awaited, NeverForgotten
  <1> QED
    BY InitAwait, <1>1, <1>2, PTL DEF Spec

(* FailoverStrategy and Client: a connect() that overtakes what disconnect() *)
(* left behind is the only way to use a resolver or a socket twice, or to   *)
(* delete a client that has a socket: with any number of pools, whatever    *)
(* they do, wherever the network has no route and whenever timers fire.     *)
THEOREM HandlesAreSafe == Spec /\ NoOvertaking => []HandlesSafe
  <1>1. HandleInv /\ [Next]_vars /\ [LeavesAlone]_vars => HandleInv'
    BY StepHandle
  <1>2. HandleInv => HandlesSafe
    BY DEF HandleInv, Sound, Coherent, HandlesSafe, HandlesOwned, CallbackFindsClient
  <1> QED
    BY InitHandle, <1>1, <1>2, PTL DEF Spec, NoOvertaking

(* FailoverStrategy: on the same condition the miner works for the active   *)
(* pool, that pool has accepted the login, and no other serves.             *)
THEOREM OneServes == Spec /\ NoOvertaking => []OnePoolServes
  <1>1. HandleInv /\ [Next]_vars /\ [LeavesAlone]_vars => HandleInv'
    BY StepHandle
  <1>2. HandleInv => OnePoolServes
    BY DEF HandleInv, AwaitInv, Inv, TypeOK, Sound, OnePoolServes, MinesForActive,
           ServedIsActive
  <1> QED
    BY InitHandle, <1>1, <1>2, PTL DEF Spec, NoOvertaking

-----------------------------------------------------------------------------
(* Two pools of which the backup answers logins, to which there is a route: *)
(* what disconnect() left behind is over before the backup is needed again, *)
(* since the primary has to fail Retries times before, and a retry waits    *)
(* until no attempt is left.                                                *)

Backed == /\ N = 2 /\ Retries > 1
          /\ 1 \notin Odd /\ 1 \notin NoRoute /\ ~Overtake

(* The primary has failed once at most since the backup was disconnected,   *)
(* and waits for its first retry.                                           *)
AtFirst(c) == \/ c.failures \in {-1, 0}
              \/ c.failures = 1 /\ c.state = "connecting" /\ c.expire

(* A backup that was disconnected has no connection that lasts.             *)
Parting(c) == c.failures = -1 => c.socket \notin {"served", "refused", "dead"}

PairInv ==
    /\ LeftBehind(clients[1]) => AtFirst(clients[0])
    /\ Parting(clients[1])
    /\ servers[1] # "odd"

LEMMA InitPair == ASSUME Backed, Init PROVE PairInv
  BY DEF Init, Backed, PairInv, LeftBehind, Parting, NewClient, Pools

LEMMA ThePools == ASSUME Backed PROVE Pools = {0, 1}
  BY DEF Backed, Pools

(* The callbacks and ticks of a client that concern no other.               *)
Alone(p) == \/ Connected(p) \/ Refused(p) \/ Answered(p) \/ Notified(p) \/ Dropped(p)
            \/ Timeout(p) \/ Ping(p) \/ NewBlock(p)
            \/ Accepted(p) /\ ~LoginAccepted(clients[p])
            \/ Resolved(p) /\ ~Lose(p, [clients[p] EXCEPT !.lookup = 0])

(* What they do to the client: it has something under way, and its failures *)
(* are not counted.                                                         *)
Minded(p, b, c) ==
    /\ c.failures = b.failures
    /\ c.lookup <= b.lookup
    /\ \/ b.lookup > 0 \/ b.socket # "none"
       \/ c.lookup = b.lookup /\ c.socket = b.socket
    /\ b.state = "connecting" /\ b.expire => c.state = "connecting" /\ c.expire
    /\ b.failures = -1 /\ p = 1 => Parting(c)

LEMMA AloneMinds ==
  ASSUME Backed, HandleInv, PairInv, NEW p \in Pools, Alone(p)
  PROVE  \E c \in Client : /\ clients' = [clients EXCEPT ![p] = c]
                           /\ Minded(p, clients[p], c)
  <1> DEFINE b == clients[p]
  <1>1. b \in Client /\ Coherent(b) /\ b.lookup \in Nat
    BY HandleType DEF Client
  <1>2. b.lookup = 1 => b.socket = "none" /\ b.state = "lookup"
    BY <1>1, CoherentHandles DEF Coherent
  <1>3. p = 1 => servers[p] # "odd" /\ Parting(b) /\ p \notin NoRoute
    BY DEF PairInv, Backed
  <1>4. CASE Resolved(p) /\ ~Lose(p, [clients[p] EXCEPT !.lookup = 0])
    <2> DEFINE c == [b EXCEPT !.lookup = 0]
    <2>1. b.lookup = 1
      BY <1>4 DEF Resolved
    <2>2. c \in Client /\ c.socket = "none"
      BY <1>1, <2>1, LookupCoherent
    <2>3. PICK r \in BOOLEAN : Update(p, ConnectSocket(c, r)) /\ (p \notin NoRoute => r)
      BY <1>4 DEF Resolved
    <2>4. c.failures = b.failures /\ c.lookup = 0
      BY <1>1 DEF Client
    <2> HIDE DEF c
    <2> DEFINE d == ConnectSocket(c, r)
    <2>5. /\ d \in Client /\ d.failures = c.failures /\ d.lookup = c.lookup
          /\ r => d.socket = "connecting"
      BY <2>2, ConnectSocketType DEF ConnectSocket, Client
    <2>6. clients' = [clients EXCEPT ![p] = d]
      BY <2>3 DEF Update
    <2> HIDE DEF d
    <2>7. Minded(p, b, d)
      BY <1>2, <1>3, <2>1, <2>3, <2>4, <2>5 DEF Minded, Parting
    <2> QED BY <2>5, <2>6, <2>7
  <1>5. CASE NewBlock(p)
    <2> DEFINE c == [b EXCEPT !.known = FALSE]
    <2>1. /\ c \in Client /\ c.failures = b.failures /\ c.lookup = b.lookup
          /\ c.socket = b.socket /\ c.state = b.state /\ c.expire = b.expire
      BY <1>1 DEF Client
    <2>2. clients' = [clients EXCEPT ![p] = c]
      BY <1>5 DEF NewBlock
    <2> HIDE DEF c
    <2>3. Minded(p, b, c)
      BY <1>1, <1>3, <2>1 DEF Minded, Parting
    <2> QED BY <2>1, <2>2, <2>3
  <1>6. ASSUME \/ Connected(p) \/ Refused(p) \/ Answered(p) \/ Notified(p) \/ Dropped(p)
               \/ Timeout(p) \/ Ping(p)
               \/ Accepted(p) /\ ~LoginAccepted(clients[p])
        PROVE  \E c \in Client : /\ clients' = [clients EXCEPT ![p] = c]
                                 /\ Minded(p, b, c)
    <2>1. b.socket # "none" /\ ~(b.state = "connecting" /\ b.expire)
      <3>1. \/ b.socket \in {"connecting", "open", "served", "refused"}
            \/ b.state = "connected"
        BY <1>6 DEF Connected, Refused, Answered, Notified, Dropped, Timeout, Ping, Accepted
      <3> QED BY <1>1, <3>1 DEF Coherent
    <2>2. PICK c \in Client :
              /\ Update(p, c) /\ Follows(b, c)
              /\ b.failures = -1 /\ p = 1 => Parting(c)
      <3>1. CASE Connected(p)
        <4>1. \A w \in BOOLEAN : /\ Login(b, w) \in Client /\ Follows(b, Login(b, w))
                                 /\ Parting(Login(b, w))
          BY <1>1, <2>1, <3>1, LoginType, LoginCoherent, CallbackFollows DEF Connected, Parting
        <4>2. Close(b) \in Client /\ Follows(b, Close(b)) /\ Parting(Close(b))
          BY <1>1, <2>1, CloseType, CloseCoherent, CallbackFollows DEF Parting
        <4> QED BY <3>1, <4>1, <4>2 DEF Connected
      <3>2. CASE Refused(p)
        <4> DEFINE h == Heard(b)
                   d == [h EXCEPT !.socket = IF @ = "open" THEN "refused" ELSE @]
        <4>1. h \in Client /\ Close(h) \in Client
          BY <1>1, CallbackType, CloseType
        <4>2. d \in Client
          BY <4>1 DEF Client, Sockets
        <4>3. Update(p, Close(h)) \/ Update(p, d)
          BY <3>2 DEF Refused
        <4>4. Follows(b, Close(h)) /\ Follows(b, d)
          BY <1>1, <2>1, CallbackFollows
        <4>5. p # 1
          BY <1>3, <3>2 DEF Refused
        <4> HIDE DEF b, d, h
        <4> QED BY <4>1, <4>2, <4>3, <4>4, <4>5
      <3>3. CASE Answered(p) \/ Notified(p)
        <4>1. /\ Heard(b) \in Client /\ JobTaken(b) \in Client /\ JobAgain(b) \in Client
              /\ Follows(b, Heard(b)) /\ Follows(b, JobTaken(b)) /\ Follows(b, JobAgain(b))
          BY <1>1, <2>1, CallbackType, JobAgainType, CallbackFollows
        <4>2. Update(p, Heard(b)) \/ Update(p, JobTaken(b)) \/ Update(p, JobAgain(b))
          BY <3>3 DEF Answered, Notified
        <4>3. p = 1 => b.failures # -1
          BY <1>3, <3>3 DEF Answered, Notified, Parting
        <4> QED BY <4>1, <4>2, <4>3
      <3>4. CASE Dropped(p) \/ Timeout(p)
        <4>1. Update(p, Close(b))
          BY <3>4 DEF Dropped, Timeout
        <4> QED BY <1>1, <2>1, <4>1, CloseType, CloseCoherent, CallbackFollows DEF Parting
      <3>5. CASE Ping(p)
        <4>1. \A w \in BOOLEAN : Pinged(b, w) \in Client /\ Follows(b, Pinged(b, w))
          BY <1>1, <2>1, PingedType, CallbackFollows
        <4>2. PICK w \in BOOLEAN : Update(p, Pinged(b, w))
          BY <3>5 DEF Ping
        <4>3. p = 1 => b.failures # -1
          BY <1>3, <3>5 DEF Ping, Parting
        <4> QED BY <4>1, <4>2, <4>3
      <3>6. CASE Accepted(p) /\ ~LoginAccepted(clients[p])
        <4> DEFINE w == [Heard(b) EXCEPT !.jobs = FALSE]
        <4>1. Update(p, LoggedIn(b)) /\ LoggedIn(b) = Close(w) /\ b.socket = "open"
          BY <3>6 DEF Accepted, LoggedIn
        <4>2. w \in Client /\ Coherent(w)
          BY <1>1, <4>1 DEF Client, Coherent, Heard
        <4>3. LoggedIn(b) \in Client /\ Follows(b, LoggedIn(b))
          BY <1>1, <2>1, <3>6, LoggedInType, CallbackFollows
        <4> HIDE DEF w
        <4>4. Parting(LoggedIn(b))
          BY <4>1, <4>2, CloseCoherent DEF Parting
        <4> QED BY <4>1, <4>3, <4>4
      <3> HIDE DEF b
      <3> QED BY <1>6, <3>1, <3>2, <3>3, <3>4, <3>5, <3>6
    <2>3. Minded(p, b, c)
      BY <1>1, <2>1, <2>2 DEF Minded, Follows
    <2> QED BY <2>2, <2>3 DEF Update
  <1> QED
    BY <1>4, <1>5, <1>6 DEF Alone

LEMMA AlonePair ==
  ASSUME Backed, HandleInv, PairInv, NEW p \in Pools, Alone(p)
  PROVE  LeavesAlone /\ PairInv'
  <1>1. PICK c \in Client : /\ clients' = [clients EXCEPT ![p] = c]
                            /\ Minded(p, clients[p], c)
    BY AloneMinds
  <1>2. clients \in [Pools -> Client] /\ p \in {0, 1} /\ Pools = {0, 1}
    BY HandleType, ThePools
  <1>3. clients'[p] = c /\ \A q \in Pools \ {p} : clients'[q] = clients[q]
    BY <1>1, <1>2
  <1>4. LeavesAlone
    <2>1. clients[0].lookup \in Nat /\ clients[1].lookup \in Nat
      BY <1>2 DEF Client
    <2> QED BY <1>1, <1>2, <1>3, <2>1 DEF LeavesAlone, Minded
  <1>5. UNCHANGED servers
    BY DEF Alone, Connected, Refused, Answered, Notified, Dropped, Timeout, Ping, NewBlock,
           Accepted, Resolved
  <1>6. CASE p = 0
    <2>1. AtFirst(clients[0]) => AtFirst(c)
      BY <1>1, <1>6 DEF AtFirst, Minded
    <2>2. clients'[0] = c /\ clients'[1] = clients[1] /\ servers'[1] = servers[1]
      BY <1>2, <1>3, <1>5, <1>6
    <2> QED BY <1>4, <1>6, <2>1, <2>2 DEF PairInv
  <1>7. CASE p = 1
    <2>1. clients[1].lookup \in Nat /\ c.lookup \in Nat
      BY <1>2 DEF Client
    <2>2. LeftBehind(c) => LeftBehind(clients[1])
      BY <1>1, <1>7, <2>1 DEF LeftBehind, Minded
    <2>3. Parting(c)
      BY <1>1, <1>7 DEF Minded, Parting
    <2>4. clients'[1] = c /\ clients'[0] = clients[0] /\ servers'[1] = servers[1]
      BY <1>2, <1>3, <1>5, <1>7
    <2> QED BY <1>4, <1>7, <2>2, <2>3, <2>4 DEF PairInv
  <1> QED BY <1>2, <1>6, <1>7

(* onClose() connects no pool before the primary has failed Retries times,  *)
(* and none after the last.                                                 *)
LEMMA NoNext ==
  ASSUME NEW s \in Strategy, NEW p \in Pools, NEW f \in -1..Retries,
         p = N - 1 \/ (p = 0 /\ f < Retries)
  PROVE  OnClose(s, p, f).c = s.c
  <1> DEFINE lost == IF s.active = p THEN [s EXCEPT !.active = -1, !.mining = -1] ELSE s
  <1>1. lost.c = s.c
    BY DEF Strategy
  <1>2. OnClose(s, p, f) \in {s, lost}
    BY FailoverAssumption DEF OnClose, Pools
  <1> QED BY <1>1, <1>2

LEMMA LosePair ==
  ASSUME Backed, HandleInv, PairInv, NEW p \in Pools, NEW c \in Client, Lose(p, c),
         UNCHANGED servers, Coherent(c), c.lookup = 0, c.socket = "none",
         c.failures = clients[p].failures,
         clients[p].lookup = 1 \/ clients[p].socket = "closing"
  PROVE  LeavesAlone /\ PairInv'
  <1> DEFINE d == Reconnect(c)
             cs == [clients EXCEPT ![p] = d]
             r == IF d.removed THEN S(cs) ELSE OnClose(S(cs), p, d.failures)
  <1>1. /\ clients \in [Pools -> Client] /\ p \in {0, 1} /\ Pools = {0, 1}
        /\ \A q \in Pools : clients[q] \in Client /\ Coherent(clients[q]) /\ clients[q].lookup \in Nat
    BY HandleType, ThePools DEF Client
  <1>2. /\ d \in Client /\ d.lookup = 0 /\ d.socket = "none"
        /\ d.failures = -1 <=> c.failures = -1
    BY ReconnectType, ReconnectCoherent
  <1>3. c.failures \in {-1, 0} => AtFirst(d) /\ d.failures < Retries
    <2>1. CASE ~c.listener
      BY <2>1, RetriesAssumption DEF AtFirst, Reconnect, Client
    <2>2. CASE c.listener /\ c.failures = -1
      BY <2>2, RetriesAssumption DEF AtFirst, Reconnect, Client
    <2>3. ASSUME c.listener, c.failures = 0
          PROVE  d.failures = 1 /\ d.state = "connecting" /\ d.expire
      BY <2>3, RetriesAssumption DEF Reconnect, Client
    <2> QED BY <2>1, <2>2, <2>3 DEF AtFirst, Backed
  <1>4. d.failures \in -1..Retries
    BY <1>2 DEF Client
  <1>5. clients' = r.c
    BY DEF Lose, Becomes
  <1> HIDE DEF d, cs, r
  <1>6. /\ cs \in [Pools -> Client] /\ cs[p] = d /\ \A q \in Pools : q # p => cs[q] = clients[q]
        /\ S(cs) \in Strategy /\ S(cs).c = cs
    <2>1. /\ cs \in [Pools -> Client] /\ cs[p] = d
          /\ \A q \in Pools : q # p => cs[q] = clients[q]
      BY <1>1, <1>2 DEF cs
    <2> QED BY <2>1, SType DEF HandleInv, AwaitInv, S
  <1>7. ~LeftBehind(d) /\ Parting(d)
    BY <1>2 DEF LeftBehind, Parting
  <1>8. ASSUME r.c = cs, p = 0 /\ LeftBehind(clients[1]) => AtFirst(d)
        PROVE  LeavesAlone /\ PairInv'
    <2>1. clients'[p] = d /\ \A q \in Pools : q # p => clients'[q] = clients[q]
      BY <1>5, <1>6, <1>8
    <2>2. LeavesAlone
      BY <1>1, <1>2, <2>1 DEF LeavesAlone
    <2>3. CASE p = 0
      <3>1. clients'[0] = d /\ clients'[1] = clients[1]
        BY <1>1, <2>1, <2>3
      <3> QED BY <1>8, <2>2, <2>3, <3>1 DEF PairInv
    <2>4. CASE p = 1
      <3>1. clients'[1] = d
        BY <2>1, <2>4
      <3> QED BY <1>7, <2>2, <3>1 DEF PairInv
    <2> QED BY <1>1, <2>3, <2>4
  <1>9. CASE p = 1
    <2>1. r.c = cs
      BY <1>1, <1>4, <1>6, <1>9, NoNext DEF r, Backed
    <2> QED BY <1>8, <1>9, <2>1
  <1>10. CASE p = 0 /\ LeftBehind(clients[1])
    <2>1. c.failures \in {-1, 0}
      <3>1. ~(clients[0].state = "connecting" /\ clients[0].expire)
        BY <1>1, <1>10, CoherentHandles DEF Coherent
      <3> QED BY <1>10, <3>1 DEF PairInv, AtFirst
    <2>2. r.c = cs
      BY <1>1, <1>3, <1>4, <1>6, <1>10, <2>1, NoNext DEF r
    <2> QED BY <1>3, <1>8, <2>1, <2>2
  <1>11. CASE p = 0 /\ ~LeftBehind(clients[1])
    <2>1. CASE r.c = cs
      BY <1>8, <1>11, <2>1
    <2>2. CASE r.c # cs
      <3> DEFINE e == Resolve(clients[1], 1 \notin BadHosts)
      <3>1. r.c = [cs EXCEPT ![1] = e]
        <4>1. r = OnClose(S(cs), p, d.failures)
          BY <1>6, <2>2 DEF r
        <4>2. \/ r.c = cs /\ r.index = index
              \/ /\ index = p /\ p + 1 \in Pools /\ r.index = p + 1
                 /\ r.c = [cs EXCEPT ![p + 1] = Resolve(@, p + 1 \notin BadHosts)]
          <5> DEFINE s == S(cs)
                     f == d.failures
          <5>1. s \in Strategy /\ s.c = cs /\ s.index = index /\ f \in -1..Retries
                /\ r = OnClose(s, p, f)
            BY <1>4, <1>6, <4>1 DEF S
          <5> HIDE DEF s, f, e
          <5>2. LET t == OnClose(s, p, f)
                IN  /\ t.active = IF f # -1 /\ s.active = p THEN -1 ELSE s.active
                    /\ \/ t.c = s.c /\ t.index = s.index
                       \/ /\ s.index = p /\ p + 1 \in Pools /\ t.index = p + 1
                          /\ t.c = [s.c EXCEPT ![p + 1] = Resolve(@, p + 1 \notin BadHosts)]
            BY ONLY <5>1, OnCloseResult, p \in Pools
          <5> QED BY ONLY <5>1, <5>2
        <4>3. cs[1] = clients[1] /\ p + 1 = 1
          BY <1>1, <1>6, <1>11
        <4>4. r.c = [cs EXCEPT ![p + 1] = Resolve(@, p + 1 \notin BadHosts)]
          BY ONLY <2>2, <4>2
        <4> QED BY ONLY <4>3, <4>4
      <3>2. e.failures # -1
        BY <1>1 DEF Resolve, Client
      <3> HIDE DEF e
      <3>3. clients'[0] = d /\ clients'[1] = e
        BY <1>1, <1>5, <1>6, <1>11, <3>1
      <3>4. LeavesAlone
        BY <1>1, <1>2, <1>11, <3>3 DEF LeavesAlone
      <3> QED BY <3>2, <3>3, <3>4 DEF PairInv, LeftBehind, Parting
    <2> QED BY <2>1, <2>2
  <1> QED BY <1>1, <1>9, <1>10, <1>11

LEMMA LoginPair ==
  ASSUME Backed, HandleInv, PairInv, NEW p \in Pools, clients[p].socket = "open",
         LoginAccepted(clients[p]),
         Becomes(OnLoginSuccess(S([clients EXCEPT ![p] = LoggedIn(clients[p])]), p)),
         UNCHANGED servers
  PROVE  LeavesAlone /\ PairInv'
  <1> DEFINE c == LoggedIn(clients[p])
             cs == [clients EXCEPT ![p] = c]
             s == S(cs)
             r == OnLoginSuccess(s, p)
             a == IF p = 0 \/ active = -1 THEN p ELSE active
  <1>1. /\ clients \in [Pools -> Client] /\ p \in {0, 1} /\ Pools = {0, 1} /\ a \in {0, 1}
        /\ \A q \in Pools : clients[q].lookup \in Nat /\ Coherent(clients[q])
    BY HandleType, ThePools DEF Client
  <1>2. c \in Client /\ Coherent(c) /\ c.failures = 0 /\ c.lookup = clients[p].lookup
    <2>1. clients[p] \in Client /\ Coherent(clients[p])
      BY <1>1
    <2>2. c.failures = 0 /\ c.lookup = clients[p].lookup
      BY <2>1 DEF LoggedIn, Heard, Client
    <2> QED BY <2>1, <2>2, LoggedInType, LoggedInCoherent
  <1> HIDE DEF c
  <1>3. /\ cs \in [Pools -> Client] /\ cs[p] = c /\ \A q \in Pools : q # p => cs[q] = clients[q]
        /\ \A q \in Pools : Coherent(cs[q]) /\ cs[q].lookup = clients[q].lookup
    BY <1>1, <1>2
  <1> HIDE DEF cs
  <1>4. s \in Strategy /\ Consistent(s) /\ s.c = cs /\ s.active = active
    BY <1>3, SType DEF HandleInv, AwaitInv, S
  <1>5. Becomes(r)
    BY DEF c, cs
  <1> HIDE DEF s
  <1>6. r.c = [q \in Pools |-> IF q # 0 /\ q # a THEN Disconnect(cs[q]) ELSE cs[q]]
    BY <1>4, LoginSuccessResult
  <1> HIDE DEF r
  <1>7. clients'[0] = cs[0] /\ clients'[1] = IF a = 1 THEN cs[1] ELSE Disconnect(cs[1])
    BY <1>1, <1>5, <1>6 DEF Becomes
  <1> DEFINE d == Disconnect(cs[1])
  <1>8. d.socket \in {"none", "closing"} /\ d.lookup = cs[1].lookup
    BY <1>1, <1>3, DisconnectCoherent
  <1> HIDE DEF d, a
  <1>9. LeavesAlone
    BY <1>1, <1>3, <1>7, <1>8 DEF LeavesAlone, d
  <1>10. CASE p = 0
    <2>1. a = 0
      BY <1>10 DEF a
    <2> QED BY <1>2, <1>3, <1>7, <1>8, <1>9, <1>10, <2>1 DEF PairInv, AtFirst, Parting, d
  <1>11. CASE p = 1 /\ a = 1
    BY <1>2, <1>3, <1>7, <1>9, <1>11 DEF PairInv, LeftBehind, Parting
  <1>12. CASE p = 1 /\ a = 0
    <2>1. active = 0 /\ 0 \in Pools
      BY <1>1, <1>12 DEF a
    <2>2. clients[0].failures = 0
      BY <2>1 DEF HandleInv, Sound
    <2>3. clients'[0].failures = 0
      BY <1>1, <1>3, <1>7, <1>12, <2>2
    <2> QED BY <1>7, <1>8, <1>9, <1>12, <2>3 DEF PairInv, AtFirst, Parting, d
  <1> QED BY <1>1, <1>10, <1>11, <1>12 DEF a

LEMMA ConnectPair ==
  ASSUME Backed, HandleInv, PairInv, NEW p \in Pools, Becomes(ConnectTo(S(clients), p)),
         UNCHANGED servers, Connect \/ Retry(p)
  PROVE  LeavesAlone /\ PairInv'
  <1> DEFINE e == Resolve(clients[p], p \notin BadHosts)
  <1>1. /\ clients \in [Pools -> Client] /\ p \in {0, 1} /\ Pools = {0, 1}
        /\ \A q \in Pools : clients[q] \in Client /\ Coherent(clients[q]) /\ clients[q].lookup \in Nat
    BY HandleType, ThePools DEF Client
  <1>2. clients'[p] = e /\ \A q \in Pools : q # p => clients'[q] = clients[q]
    BY <1>1 DEF Becomes, ConnectTo, S
  <1>3. clients[p].failures # -1
    <2>1. CASE Connect
      BY <2>1 DEF Connect, HandleInv, AwaitInv, Started, NewClient
    <2>2. CASE Retry(p)
      BY <1>1, <2>2 DEF Retry, Coherent
    <2> QED BY <2>1, <2>2
  <1>4. LeavesAlone
    BY <1>1, <1>2, <1>3 DEF LeavesAlone, LeftBehind
  <1>5. CASE p = 0
    <2>1. ~LeftBehind(clients[1])
      <3>1. CASE Connect
        BY <1>1, <3>1 DEF Connect, HandleInv, AwaitInv, Started, NewClient, LeftBehind
      <3>2. CASE Retry(p)
        <4>1. clients[1].socket # "closing" /\ ~Unstopped(clients[1])
          BY <1>1, <3>2 DEF Retry, TimersRun, Backed
        <4>2. clients[1].socket \in Sockets /\ clients[1].socket # "leaked"
          BY <1>1 DEF Client, Coherent
        <4> QED BY <4>1, <4>2 DEF LeftBehind, Unstopped, PairInv, Parting, Sockets
      <3> QED BY <3>1, <3>2
    <2>2. clients'[1] = clients[1]
      BY <1>1, <1>2, <1>5
    <2> QED BY <1>4, <2>1, <2>2 DEF PairInv
  <1>6. CASE p = 1
    <2>1. e.failures # -1
      BY <1>1 DEF Resolve, Client
    <2>2. clients'[1] = e
      BY <1>2, <1>6
    <2> HIDE DEF e
    <2> QED BY <1>4, <2>1, <2>2 DEF PairInv, LeftBehind, Parting
  <1> QED BY <1>1, <1>5, <1>6

LEMMA DeleteLaterLooksUp ==
  ASSUME NEW c \in Client, c.listener, Coherent(c)
  PROVE  DeleteLater(c).lookup = c.lookup
  <1> DEFINE u == [c EXCEPT !.listener = FALSE]
             d == Disconnect(u)
             b == d.state # "closing" \/ d.socket = "none"
  <1>1. u \in Client /\ Coherent(u) /\ u.lookup = c.lookup
    BY DEF Client, Coherent
  <1>2. DeleteLater(c) = [d EXCEPT !.removed = b]
    BY DEF DeleteLater
  <1> HIDE DEF u
  <1>3. d \in Client /\ d.lookup = u.lookup
    BY <1>1, DisconnectType, DisconnectCoherent
  <1> HIDE DEF d, b
  <1> QED BY <1>1, <1>2, <1>3 DEF Client

LEMMA StopPair ==
  ASSUME Backed, HandleInv, PairInv, Stop \/ Reload
  PROVE  LeavesAlone /\ PairInv'
  <1> DEFINE ds == [q \in Pools |-> Disconnect(clients[q])]
  <1>1. /\ clients \in [Pools -> Client] /\ Pools = {0, 1}
        /\ \A q \in Pools : clients[q] \in Client /\ Coherent(clients[q]) /\ clients[q].lookup \in Nat
    BY HandleType, ThePools DEF Client
  <1>2. ASSUME NEW q \in Pools
        PROVE  /\ ds[q] \in Client /\ Coherent(ds[q]) /\ ds[q].listener
               /\ ds[q].failures = -1 /\ ds[q].lookup = clients[q].lookup
               /\ ds[q].socket \in {"none", "closing"}
    <2>1. clients[q].listener
      BY DEF Stop, Reload, HandleInv, AwaitInv, Attended, Listens
    <2> QED BY <1>1, <2>1, DisconnectType, DisconnectCoherent
  <1>3. ASSUME NEW q \in Pools
        PROVE  /\ clients'[q].failures = -1 /\ clients'[q].lookup = clients[q].lookup
               /\ clients'[q].socket \in {"none", "closing"}
    <2>1. CASE Stop
      BY <1>2, <2>1 DEF Stop, Becomes, Stopped
    <2>2. CASE Reload
      <3> DEFINE d == DeleteLater(ds[q])
      <3>1. clients'[q] = d
        BY <2>2 DEF Reload, Becomes, Stopped
      <3> HIDE DEF ds
      <3>2. d.failures = -1 /\ d.socket \in {"none", "closing"}
        BY <1>2, DeleteLaterCoherent
      <3>3. d.lookup = ds[q].lookup
        BY <1>2, DeleteLaterLooksUp
      <3> QED BY <1>2, <3>1, <3>2, <3>3
    <2> QED BY <2>1, <2>2
  <1>4. LeavesAlone
    BY <1>1, <1>3 DEF LeavesAlone
  <1>5. UNCHANGED servers
    BY DEF Stop, Reload
  <1> QED BY <1>1, <1>3, <1>4, <1>5 DEF PairInv, AtFirst, Parting

LEMMA StepPair ==
  ASSUME Backed, HandleInv, PairInv, Next
  PROVE  LeavesAlone /\ PairInv'
  <1>1. CASE Connect
    <2>1. index \in Pools
      BY HandleType
    <2> QED BY <1>1, <2>1, ConnectPair DEF Connect
  <1>2. CASE Stop \/ Reload
    BY <1>2, StopPair
  <1>3. ASSUME NEW p \in Pools, Alone(p)
        PROVE  LeavesAlone /\ PairInv'
    BY <1>3, AlonePair
  <1>4. ASSUME NEW p \in Pools, Retry(p)
        PROVE  LeavesAlone /\ PairInv'
    BY <1>4, ConnectPair DEF Retry
  <1>5. ASSUME NEW p \in Pools, Accepted(p), LoginAccepted(clients[p])
        PROVE  LeavesAlone /\ PairInv'
    BY <1>5, LoginPair DEF Accepted
  <1>6. ASSUME NEW p \in Pools, Resolved(p), Lose(p, [clients[p] EXCEPT !.lookup = 0])
        PROVE  LeavesAlone /\ PairInv'
    <2> DEFINE c == [clients[p] EXCEPT !.lookup = 0]
    <2>1. clients[p] \in Client /\ Coherent(clients[p]) /\ clients[p].lookup = 1
      BY <1>6, HandleType DEF Resolved
    <2>2. c \in Client /\ Coherent(c) /\ c.socket = "none"
      BY <2>1, LookupCoherent
    <2>3. c.lookup = 0 /\ c.failures = clients[p].failures
      BY <2>1 DEF Client
    <2>4. Lose(p, c) /\ UNCHANGED servers
      BY <1>6 DEF Resolved
    <2> HIDE DEF c
    <2> QED BY <2>1, <2>2, <2>3, <2>4, LosePair
  <1>7. ASSUME NEW p \in Pools, Closed(p)
        PROVE  LeavesAlone /\ PairInv'
    <2> DEFINE c == Unconnected(clients[p])
    <2>1. clients[p] \in Client /\ Coherent(clients[p]) /\ clients[p].socket = "closing"
      BY <1>7, HandleType DEF Closed
    <2>2. /\ c \in Client /\ Coherent(c) /\ c.lookup = 0 /\ c.socket = "none"
          /\ c.failures = clients[p].failures
      BY <2>1, CallbackType, UnconnectedCoherent DEF Unconnected, Client
    <2>3. Lose(p, c) /\ UNCHANGED servers
      BY <1>7 DEF Closed
    <2> HIDE DEF c
    <2> QED BY <2>1, <2>2, <2>3, LosePair
  <1>8. ASSUME NEW p \in Pools, Turn(p)
        PROVE  LeavesAlone /\ PairInv'
    <2>1. UNCHANGED clients /\ servers'[1] # "odd"
      BY <1>8, ThePools DEF Turn, PairInv, Backed, HandleInv, AwaitInv, Inv, TypeOK
    <2>2. \A q \in Pools : clients[q].lookup \in Nat
      BY HandleType DEF Client
    <2> QED BY <2>1, <2>2 DEF LeavesAlone, PairInv
  <1> QED
    BY <1>1, <1>2, <1>3, <1>4, <1>5, <1>6, <1>7, <1>8 DEF Next, Callback, Tick, Alone

(* FailoverStrategy and Client: with two pools, as long as a retry waits for *)
(* the attempts that are left, connect() overtakes nothing: a backup that is *)
(* needed again is no longer busy with what disconnect() left behind.  This  *)
(* needs a second failure of the primary, a backup that answers its login    *)
(* and a route to it.                                                        *)
THEOREM NothingOvertakes == ASSUME Backed PROVE Spec => NoOvertaking
  <1>1. HandleInv /\ PairInv /\ [Next]_vars => [LeavesAlone]_vars
    BY StepPair
  <1>2. HandleInv /\ PairInv /\ [Next]_vars => HandleInv' /\ PairInv'
    <2> SUFFICES ASSUME HandleInv, PairInv, [Next]_vars PROVE HandleInv' /\ PairInv'
      OBVIOUS
    <2>1. CASE Next
      BY <1>1, <2>1, StepPair, StepHandle
    <2>2. CASE UNCHANGED vars
      BY <1>1, <2>2, StepHandle DEF vars, PairInv
    <2> QED BY <2>1, <2>2
  <1>3. Init => HandleInv /\ PairInv
    BY InitHandle, InitPair
  <1> QED
    BY <1>1, <1>2, <1>3, PTL DEF Spec, NoOvertaking

(* FailoverStrategy: then, with no hypothesis on the behaviour, one pool at *)
(* a time serves and no handle is used twice, whatever the primary does and *)
(* however many retries it has.                                             *)
THEOREM TwoPoolsTakeTurns == ASSUME Backed PROVE Spec => [](OnePoolServes /\ HandlesSafe)
  BY NothingOvertakes, OneServes, HandlesAreSafe, PTL
=============================================================================
