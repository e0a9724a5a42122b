--------------------------- MODULE DonationProofs ---------------------------
(* Theorems about Donation, for any number of retries and any behaviour of  *)
(* the donation's pool, with their proofs.                                  *)
EXTENDS Donation, TLAPS

-----------------------------------------------------------------------------
(* What this strategy needs of the operations of its one client: they yield *)
(* a client, whose state goes with what its handles do.                     *)

LEMMA Counts ==
  /\ 0 \in -1..Retries /\ -1 \in -1..Retries
  /\ \A n \in -1..Retries : n < Retries => n + 1 \in -1..Retries
  BY RetriesAssumption

LEMMA NewClientType == NewClient \in Client
  BY Counts DEF NewClient, Client, States, Sockets

LEMMA ResolveType ==
  ASSUME NEW c \in Client, NEW a \in BOOLEAN
  PROVE  Resolve(c, a) \in Client
  <1>1. (IF c.failures = -1 THEN 0 ELSE c.failures) \in -1..Retries
    BY Counts DEF Client
  <1>2. (IF a /\ c.lookup < 2 THEN c.lookup + 1 ELSE c.lookup) \in 0..2
    BY DEF Client
  <1> QED
    BY <1>1, <1>2 DEF Resolve, Client, States

LEMMA CloseType ==
  ASSUME NEW c \in Client
  PROVE  /\ Close(c) \in Client
         /\ Close(c).listener = c.listener
  BY ZenonT(30) DEF Close, Client, States, Sockets

LEMMA ReconnectType ==
  ASSUME NEW c \in Client
  PROVE  Reconnect(c) \in Client
  <1>1. (IF c.failures < Retries THEN c.failures + 1 ELSE c.failures) \in -1..Retries
    BY Counts DEF Client
  <1> QED
    BY <1>1 DEF Reconnect, Client, States

LEMMA ConnectSocketType ==
  ASSUME NEW c \in Client, NEW r \in BOOLEAN
  PROVE  ConnectSocket(c, r) \in Client
  BY DEF ConnectSocket, Client, States, Sockets

LEMMA CallbackType ==
  ASSUME NEW c \in Client
  PROVE  /\ Unconnected(c) \in Client
         /\ Heard(c) \in Client
         /\ JobTaken(c) \in Client
  BY DEF Unconnected, Heard, JobTaken, Client, States, Sockets

LEMMA LoginType ==
  ASSUME NEW c \in Client, NEW w \in BOOLEAN
  PROVE  Login(c, w) \in Client
  <1> DEFINE d == [c EXCEPT !.state = "connected", !.socket = "open"]
  <1>1. d \in Client
    BY DEF Client, States, Sockets
  <1>2. [d EXCEPT !.expire = TRUE] \in Client
    BY <1>1 DEF Client
  <1> QED
    BY <1>1, <1>2, CloseType DEF Login

LEMMA LoggedInType ==
  ASSUME NEW c \in Client
  PROVE  LoggedIn(c) \in Client
  <1>1. [Heard(c) EXCEPT !.socket = "served", !.known = TRUE, !.jobs = FALSE,
                         !.failures = 0] \in Client
    BY CallbackType, Counts, ZenonT(30) DEF Client, Sockets
  <1>2. [Heard(c) EXCEPT !.jobs = FALSE] \in Client
    BY CallbackType DEF Client
  <1> QED
    BY <1>1, <1>2, CloseType DEF LoggedIn

(* How the state of a client goes with what its handles do: a lookup only   *)
(* in the state of that name, a timer for a retry only without a lookup and *)
(* a socket.                                                                *)
Coherent(c) ==
    /\ c.lookup < 2 /\ c.socket # "leaked"
    /\ c.state = "connected" <=> c.socket \in {"open", "served", "refused"}
    /\ c.state = "closing" <=> c.socket = "closing"
    /\ c.socket \in {"connecting", "dead"} => c.state = "connecting" /\ ~c.expire
    /\ c.lookup = 1 => c.state = "lookup"
    /\ c.state = "lookup" => ~c.expire
    /\ c.state = "connecting" /\ c.expire => c.failures # -1

LEMMA NewClientCoherent == Coherent(NewClient)
  BY DEF NewClient, Coherent

(* What the states say of the handles.                                      *)
LEMMA CoherentHandles ==
  ASSUME NEW c \in Client, Coherent(c)
  PROVE  /\ c.lookup \in {0, 1}
         /\ c.lookup = 1 => c.socket = "none"
         /\ c.state \in {"unconnected", "lookup"} => c.socket = "none"
         /\ c.state = "connecting" /\ c.expire => c.socket = "none"
         /\ c.state # "lookup" => c.lookup = 0
  BY DEF Coherent, Client, States, Sockets

(* connect() of a client that has neither a lookup nor a socket.            *)
LEMMA ResolveCoherent ==
  ASSUME NEW c \in Client, NEW a \in BOOLEAN, c.lookup = 0, c.socket = "none"
  PROVE  Coherent(Resolve(c, a))
  BY DEF Coherent, Client, Resolve

LEMMA CloseCoherent ==
  ASSUME NEW c \in Client, Coherent(c)
  PROVE  /\ Coherent(Close(c))
         /\ Close(c).socket \in {"none", "closing"}
         /\ Close(c).socket = "none" => c.socket = "none"
  BY DEF Coherent, Client, Close, States, Sockets

LEMMA DisconnectCoherent ==
  ASSUME NEW c \in Client, Coherent(c)
  PROVE  /\ Coherent(Disconnect(c))
         /\ Disconnect(c).socket \in {"none", "closing"}
         /\ Disconnect(c).failures = -1 /\ Disconnect(c).lookup = c.lookup
         /\ c.socket = "none" => Disconnect(c).socket = "none"
         /\ Disconnect(c).listener = c.listener
         /\ Disconnect(c).removed = c.removed
  <1> DEFINE d == [c EXCEPT !.expire = FALSE, !.pinging = FALSE, !.failures = -1]
  <1>1. d \in Client
    BY Counts DEF Client
  <1>2. Coherent(d) /\ d.failures = -1 /\ d.lookup = c.lookup /\ d.socket = c.socket
        /\ d.listener = c.listener /\ d.removed = c.removed
    BY DEF Coherent, Client
  <1>3. Disconnect(c) = Close(d)
    BY DEF Disconnect
  <1> HIDE DEF d
  <1>4. /\ Close(d).failures = d.failures /\ Close(d).lookup = d.lookup
        /\ Close(d).listener = d.listener /\ Close(d).removed = d.removed
        /\ d.socket = "none" => Close(d).socket = "none"
    BY <1>1 DEF Client, Close
  <1> QED
    BY <1>1, <1>2, <1>3, <1>4, CloseCoherent

(* reconnect() of a client whose lookup failed or whose socket is closed.   *)
LEMMA ReconnectCoherent ==
  ASSUME NEW c \in Client, Coherent(c), c.lookup = 0, c.socket = "none"
  PROVE  /\ Coherent(Reconnect(c))
         /\ Reconnect(c).lookup = 0 /\ Reconnect(c).socket = "none"
         /\ Reconnect(c).failures = -1 <=> c.failures = -1
         /\ Reconnect(c).listener = c.listener
         /\ Reconnect(c).removed <=> c.removed \/ ~c.listener
         /\ c.listener /\ c.failures # -1 => Reconnect(c).expire
         /\ Reconnect(c).failures = -1 => Reconnect(c).state = c.state
  <1>1. c.failures # -1 /\ c.failures < Retries => c.failures + 1 # -1
    BY RetriesAssumption DEF Client
  <1> QED
    BY <1>1, RetriesAssumption DEF Client, Coherent, Reconnect

(* The callback of a lookup.                                                *)
LEMMA LookupCoherent ==
  ASSUME NEW c \in Client, Coherent(c), c.lookup = 1
  PROVE  LET d == [c EXCEPT !.lookup = 0]
         IN  /\ d \in Client /\ Coherent(d) /\ d.socket = "none"
             /\ \A r \in BOOLEAN : /\ Coherent(ConnectSocket(d, r))
                                   /\ ConnectSocket(d, r).socket \in {"connecting", "dead"}
  BY DEF Client, Coherent, ConnectSocket, States, Sockets

LEMMA LoginCoherent ==
  ASSUME NEW c \in Client, Coherent(c), c.socket = "connecting", NEW w \in BOOLEAN
  PROVE  Coherent(Login(c, w)) /\ Login(c, w).socket \in {"open", "closing"}
  BY DEF Client, Coherent, Login, Close

LEMMA LoggedInCoherent ==
  ASSUME NEW c \in Client, Coherent(c), c.socket = "open"
  PROVE  Coherent(LoggedIn(c))
  BY DEF Client, Coherent, LoggedIn, LoginAccepted, Heard, Close

(* The callbacks of a connection on which the login is sent.                *)
LEMMA HeardCoherent ==
  ASSUME NEW c \in Client, Coherent(c), c.state = "connected"
  PROVE  /\ Coherent(Heard(c)) /\ Coherent(JobTaken(c)) /\ Coherent(JobAgain(c))
         /\ Coherent([Heard(c) EXCEPT !.socket = IF @ = "open" THEN "refused" ELSE @])
         /\ \A w \in BOOLEAN : Coherent(Pinged(c, w))
  BY DEF Client, Coherent, Heard, JobTaken, JobAgain, Pinged, Close

LEMMA UnconnectedCoherent ==
  ASSUME NEW c \in Client, Coherent(c), c.socket = "closing"
  PROVE  /\ Coherent(Unconnected(c))
         /\ Unconnected(c).lookup = 0 /\ Unconnected(c).socket = "none"
  BY DEF Client, Coherent, Unconnected

-----------------------------------------------------------------------------
(* A client of a living strategy, and one that has not been told to stop    *)
(* and will be heard of again.                                              *)

Held(c) == c \in Client /\ c.listener

Due(c) == c.expire \/ c.lookup > 0 \/ c.socket # "none"

Trying(c) == c.failures # -1 /\ Due(c)

(* The operation that made d of c has not given up.                         *)
Carried(c, d) == Held(d) /\ (Trying(c) => Trying(d))

LEMMA ResolveTries ==
  ASSUME NEW c \in Client, c.listener
  PROVE  Held(Resolve(c, TRUE)) /\ Trying(Resolve(c, TRUE))
  <1>1. Resolve(c, TRUE) \in Client
    BY ResolveType
  <1>2. Resolve(c, TRUE).listener
    BY DEF Resolve, Client
  <1>3. Resolve(c, TRUE).lookup > 0
    BY DEF Resolve, Client
  <1>4. Resolve(c, TRUE).failures # -1
    BY DEF Resolve, Client
  <1> QED
    BY <1>1, <1>2, <1>3, <1>4 DEF Held, Trying, Due

LEMMA CloseCarries ==
  ASSUME NEW c \in Client, c.listener
  PROVE  Carried(c, Close(c))
  <1>1. Close(c) \in Client /\ Close(c).listener
    BY CloseType
  <1>2. Due(c) => Due(Close(c))
    BY DEF Close, Client, Due
  <1>3. Close(c).failures = c.failures
    BY DEF Close, Client
  <1> QED
    BY <1>1, <1>2, <1>3 DEF Carried, Held, Trying

LEMMA DisconnectHeld ==
  ASSUME NEW c \in Client, c.listener
  PROVE  Held(Disconnect(c))
  <1> DEFINE d == [c EXCEPT !.expire = FALSE, !.pinging = FALSE, !.failures = -1]
  <1>1. d \in Client /\ d.listener
    BY Counts DEF Client
  <1> QED
    BY <1>1, CloseType DEF Disconnect, Held

LEMMA ReconnectTries ==
  ASSUME NEW c \in Client, c.listener
  PROVE  /\ Held(Reconnect(c))
         /\ c.failures # -1 => Trying(Reconnect(c))
  <1>1. Reconnect(c) \in Client
    BY ReconnectType
  <1>2. Reconnect(c).listener
    BY DEF Reconnect, Client
  <1>3. ASSUME c.failures # -1
        PROVE  Reconnect(c).expire /\ Reconnect(c).failures # -1
    BY <1>3, RetriesAssumption DEF Reconnect, Client
  <1> QED
    BY <1>1, <1>2, <1>3 DEF Held, Trying, Due

LEMMA ConnectSocketTries ==
  ASSUME NEW c \in Client, c.listener
  PROVE  /\ Held(ConnectSocket(c, TRUE))
         /\ c.failures # -1 => Trying(ConnectSocket(c, TRUE))
  <1>1. ConnectSocket(c, TRUE) \in Client
    BY ConnectSocketType
  <1>2. /\ ConnectSocket(c, TRUE).listener
        /\ ConnectSocket(c, TRUE).socket # "none"
        /\ ConnectSocket(c, TRUE).failures = c.failures
    BY DEF ConnectSocket, Client
  <1> QED
    BY <1>1, <1>2 DEF Held, Trying, Due

LEMMA LoginTries ==
  ASSUME NEW c \in Client, c.listener
  PROVE  /\ Held(Login(c, TRUE))
         /\ c.failures # -1 => Trying(Login(c, TRUE))
  <1>1. Login(c, TRUE) \in Client
    BY LoginType
  <1>2. /\ Login(c, TRUE).listener
        /\ Login(c, TRUE).expire
        /\ Login(c, TRUE).failures = c.failures
    BY DEF Login, Client
  <1> QED
    BY <1>1, <1>2 DEF Held, Trying, Due

(* What a client hears leaves it with the socket it has.                    *)
LEMMA HeardTries ==
  ASSUME NEW c \in Client, c.listener, c.socket # "none"
  PROVE  /\ Carried(c, Heard(c))
         /\ Carried(c, JobTaken(c))
         /\ Carried(c, LoggedIn(c))
  <1>1. Heard(c) \in Client /\ JobTaken(c) \in Client /\ LoggedIn(c) \in Client
    BY CallbackType, LoggedInType
  <1>2. /\ Heard(c).listener /\ JobTaken(c).listener
        /\ Heard(c).socket # "none" /\ JobTaken(c).socket # "none"
        /\ Heard(c).failures = c.failures /\ JobTaken(c).failures = c.failures
    BY DEF Heard, JobTaken, Client
  <1> DEFINE w == [Heard(c) EXCEPT !.jobs = FALSE]
  <1>3. w \in Client /\ w.listener /\ w.socket # "none" /\ w.failures = c.failures
    BY <1>1, <1>2 DEF Client
  <1>4. Carried(w, Close(w))
    BY <1>3, CloseCarries
  <1>5. CASE LoginAccepted(c)
    <2>1. /\ LoggedIn(c).listener /\ LoggedIn(c).socket # "none"
          /\ LoggedIn(c).failures # -1
      BY <1>1, <1>2, <1>5 DEF LoggedIn, Client
    <2> QED
      BY <1>1, <1>2, <2>1 DEF Carried, Held, Trying, Due
  <1>6. CASE ~LoginAccepted(c)
    <2>1. LoggedIn(c) = Close(w)
      BY <1>6 DEF LoggedIn
    <2>2. Trying(c) => Trying(w)
      BY <1>3 DEF Trying, Due
    <2> QED
      BY <1>1, <1>2, <1>4, <2>1, <2>2 DEF Carried, Held, Trying, Due
  <1> QED
    BY <1>5, <1>6

-----------------------------------------------------------------------------
(* The invariant: as long as no end and no start of a donation is           *)
(* scheduled the client is trying; the delayed stop, which ends that, is    *)
(* only due while the timer runs.                                           *)

Inv == /\ TypeOK
       /\ client.listener
       /\ stopping => timer
       /\ ~timer => ~donating /\ Trying(client)

LEMMA InitInv == Init => Inv
  <1>1. NewClient.listener
    BY DEF NewClient
  <1>2. Init => TypeOK
    BY NewClientType DEF Init, TypeOK
  <1> QED
    BY <1>1, <1>2 DEF Init, Inv

(* A step of the client that does not make it give up.                      *)
LEMMA UpdateInv ==
  ASSUME Inv, NEW d, Update(d), Carried(client, d)
  PROVE  Inv'
  BY DEF Inv, TypeOK, Update, Carried, Held, Trying, Due

LEMMA LoseInv ==
  ASSUME Inv, NEW c \in Client, c.listener,
         c.failures = client.failures, Lose(c)
  PROVE  Inv'
  <1>1. Held(client')
    BY ReconnectTries DEF Lose
  <1>2. Trying(client) => Trying(client')
    BY ReconnectTries DEF Lose, Trying
  <1> QED
    BY <1>1, <1>2 DEF Inv, TypeOK, Lose, Held

LEMMA AcceptedInv ==
  ASSUME Inv, Accepted
  PROVE  Inv'
  <1>1. Carried(client, client')
    BY HeardTries DEF Inv, TypeOK, Accepted
  <1>2. TypeOK'
    BY <1>1 DEF Inv, TypeOK, Accepted, OnActive, Carried, Held
  <1>3. /\ stopping' => timer'
        /\ ~timer' => ~donating' /\ ~timer
    BY DEF Inv, TypeOK, Accepted, OnActive
  <1> QED
    BY <1>1, <1>2, <1>3 DEF Inv, Carried, Held

LEMMA CallbackInv ==
  ASSUME Inv, Callback
  PROVE  Inv'
  <1> USE DEF Inv
  <1>c. client \in Client /\ client.listener
    BY DEF TypeOK
  <1>1. CASE Resolved
    <2> DEFINE c == [client EXCEPT !.lookup = 0]
    <2>1. c \in Client /\ c.listener /\ c.failures = client.failures
      BY <1>c DEF Client
    <2>2. CASE Update(ConnectSocket(c, TRUE))
      <3>1. Carried(client, ConnectSocket(c, TRUE))
        BY <2>1, ConnectSocketTries DEF Carried, Trying
      <3> QED
        BY <2>2, <3>1, UpdateInv
    <2>3. CASE Lose(c)
      BY <2>1, <2>3, LoseInv
    <2> QED
      BY <1>1, <2>2, <2>3 DEF Resolved
  <1>2. CASE Connected
    <2>1. Carried(client, Login(client, TRUE))
      BY <1>c, LoginTries DEF Carried, Trying
    <2>2. Carried(client, Close(client))
      BY <1>c, CloseCarries
    <2> QED
      BY <1>2, <2>1, <2>2, UpdateInv DEF Connected
  <1>3. CASE Accepted
    BY <1>3, AcceptedInv
  <1>4. CASE Notified
    <2>1. Carried(client, JobTaken(client))
      BY <1>4, <1>c, HeardTries DEF Notified
    <2> QED
      BY <1>4, <2>1 DEF Notified, TypeOK, Carried, Held
  <1>5. CASE Answered
    <2>1. Carried(client, Heard(client))
      BY <1>5, <1>c, HeardTries DEF Answered
    <2> QED
      BY <1>5, <2>1, UpdateInv DEF Answered
  <1>6. CASE Dropped
    BY <1>6, <1>c, CloseCarries, UpdateInv DEF Dropped
  <1>7. CASE Closed
    <2>1. /\ Unconnected(client) \in Client
          /\ Unconnected(client).listener
          /\ Unconnected(client).failures = client.failures
      BY <1>c, CallbackType DEF Unconnected, Client
    <2> QED
      BY <1>7, <2>1, LoseInv DEF Closed
  <1> QED
    BY <1>1, <1>2, <1>3, <1>4, <1>5, <1>6, <1>7 DEF Callback

LEMMA StepInv == Inv /\ [Next]_vars => Inv'
  <1> SUFFICES ASSUME Inv, [Next]_vars
               PROVE  Inv'
    OBVIOUS
  <1>c. client \in Client /\ client.listener
    BY DEF Inv, TypeOK
  <1>1. CASE MainJob \/ MainPause \/ Reload
    <2>1. UNCHANGED <<client, donating, timer, stopping>>
      BY <1>1 DEF MainJob, MainPause, Reload
    <2>2. TypeOK'
      BY <1>1, <2>1 DEF MainJob, MainMined, MainPause, Reload, Inv, TypeOK
    <2> QED
      BY <2>1, <2>2 DEF Inv, Trying, Due
  <1>2. CASE TimerConnect
    <2>1. Held(client') /\ Trying(client')
      BY <1>2, <1>c, ResolveTries DEF TimerConnect
    <2> QED
      BY <1>2, <2>1 DEF TimerConnect, Inv, TypeOK, Held
  <1>3. CASE Suspend
    BY <1>3 DEF Suspend, Inv, TypeOK
  <1>4. CASE StopClient
    <2>1. Held(client')
      BY <1>4, <1>c, DisconnectHeld DEF StopClient
    <2> QED
      BY <1>4, <2>1 DEF StopClient, Inv, TypeOK, Held
  <1>5. CASE Retry
    <2>1. Carried(client, Resolve(client, TRUE))
      BY <1>c, ResolveTries DEF Carried
    <2> QED
      BY <1>5, <2>1, UpdateInv DEF Retry
  <1>6. CASE Timeout
    BY <1>6, <1>c, CloseCarries, UpdateInv DEF Timeout
  <1>7. CASE Callback
    BY <1>7, CallbackInv
  <1>8. CASE NewBlock
    <2> DEFINE d == [client EXCEPT !.known = FALSE]
    <2>1. /\ d \in Client /\ d.listener /\ d.failures = client.failures
          /\ d.expire = client.expire /\ d.lookup = client.lookup
          /\ d.socket = client.socket
      BY <1>c DEF Client
    <2>2. Carried(client, d)
      BY <2>1 DEF Carried, Held, Trying, Due
    <2> QED
      BY <1>8, <2>2, UpdateInv DEF NewBlock
  <1>9. CASE Turn \/ UNCHANGED vars
    <2>1. server' \in BOOLEAN /\ dropped' \in BOOLEAN
      BY <1>9 DEF Turn, vars, Inv, TypeOK
    <2> QED
      BY <1>9, <2>1 DEF Turn, vars, Inv, TypeOK, Trying, Due
  <1> QED
    BY <1>1, <1>2, <1>3, <1>4, <1>5, <1>6, <1>7, <1>8, <1>9 DEF Next

-----------------------------------------------------------------------------
(* DonateStrategy never falls asleep: whatever its connection does, its     *)
(* timer runs or its client is still trying to connect.                     *)
THEOREM NeverForgets == Spec => []AlwaysScheduled
  <1>1. Inv => AlwaysScheduled
    BY DEF Inv, AlwaysScheduled, Trying, Due
  <1> QED
    BY <1>1, InitInv, StepInv, PTL DEF Spec

(* Outside a donation the Workers have the user's job, or rest when the     *)
(* user's strategy has no pool, if that strategy reports its stop() at once *)
(* as FailoverStrategy does.                                                *)
THEOREM UserHasTheWorkers ==
  ASSUME ~SinglePool
  PROVE  Spec => []MinesForMain
  <1>1. Init => MinesForMain
    BY DEF Init, MinesForMain
  <1>2. MinesForMain /\ [Next]_vars => MinesForMain'
    <2> SUFFICES ASSUME MinesForMain, [Next]_vars
                 PROVE  MinesForMain'
      OBVIOUS
    <2> USE DEF MinesForMain
    <2>k. ASSUME UNCHANGED <<donating, main, mined>>
          PROVE  MinesForMain'
      BY <2>k
    <2>1. CASE MainJob \/ MainPause \/ Reload
      BY <2>1 DEF MainJob, MainMined, MainPause, Reload
    <2>2. CASE TimerConnect \/ StopClient
      BY <2>2, <2>k DEF TimerConnect, StopClient
    <2>3. CASE Accepted
      BY <2>3 DEF Accepted, OnActive
    <2>4. CASE Notified
      BY <2>4 DEF Notified
    <2>5. CASE Retry \/ Timeout \/ Resolved \/ Connected \/ Answered \/ Dropped
               \/ Closed \/ NewBlock
      <3>1. UNCHANGED <<donating, main, mined>>
        BY <2>5 DEF Retry, Timeout, Resolved, Connected, Answered, Dropped, Closed,
                    NewBlock, Update, Lose
      <3> QED
        BY <3>1, <2>k
    <2>6. CASE Turn \/ UNCHANGED vars
      BY <2>6, <2>k DEF Turn, vars
    <2>7. CASE Suspend
      BY <2>7 DEF Suspend
    <2> QED
      BY <2>1, <2>2, <2>3, <2>4, <2>5, <2>6, <2>7 DEF Next, Callback
  <1> QED
    BY <1>1, <1>2, PTL DEF Spec

-----------------------------------------------------------------------------
(* Donations in order.  Until the connection is lost while it serves, the   *)
(* timer and the delayed stop say what the client does: nothing, or it is   *)
(* about to close for good, until the next donation is due; it tries to     *)
(* connect while no timer runs; it serves while the strategy donates and    *)
(* until the delayed stop.                                                  *)

Quiet(c) == /\ c.lookup = 0 /\ ~c.expire
            /\ c.socket = "none" \/ (c.socket = "closing" /\ c.failures = -1)

Phases ==
    /\ Coherent(client)
    /\ ~timer => ~donating /\ ~stopping /\ rested /\ client.failures # -1
    /\ timer /\ ~donating /\ ~stopping => Quiet(client)
    /\ donating \/ stopping => client.socket = "served" /\ server
    /\ ~(donating /\ stopping)

Orderly == ~dropped => Phases

LEMMA InitOrderly == Init => Orderly
  BY NewClientCoherent DEF Init, Orderly, Phases, Quiet, NewClient

(* A step of the client while no timer runs, which does not give up.        *)
LEMMA AskingOrderly ==
  ASSUME Phases, ~timer, Coherent(client'), client'.failures # -1,
         UNCHANGED <<donating, timer, stopping, rested, server>>
  PROVE  Phases'
  BY DEF Phases

(* A step of the client while it serves.                                    *)
LEMMA ServingOrderly ==
  ASSUME Phases, client.socket = "served", Coherent(client'), client'.socket = "served",
         timer, donating \/ stopping,
         UNCHANGED <<donating, timer, stopping, rested, server>>
  PROVE  Phases'
  BY DEF Phases

(* A connection that is being made or has not been answered is that of a    *)
(* client that asks for a donation.                                         *)
LEMMA Asking ==
  ASSUME client \in Client, Phases,
                 \/ client.socket \in {"connecting", "open", "refused", "dead"}
                 \/ client.lookup # 0
                 \/ client.expire /\ client.socket # "served"
  PROVE  ~timer
  <1>1. client.socket # "served" => ~donating /\ ~stopping
    BY DEF Phases
  <1>2. client.lookup # 0 => client.socket # "served"
    BY CoherentHandles DEF Phases
  <1> QED BY <1>1, <1>2 DEF Phases, Quiet

LEMMA AcceptedOrderly ==
  ASSUME TypeOK, Phases, Accepted
  PROVE  Phases'
  <1>c. client \in Client /\ client.socket = "open"
    BY DEF TypeOK, Accepted
  <1>1. ~timer
    BY <1>c, Asking
  <1>2. Coherent(client')
    BY <1>c, LoggedInCoherent DEF Accepted, Phases
  <1>3. CASE LoginAccepted(client)
    <2>1. client'.socket = "served"
      BY <1>3, <1>c DEF Accepted, LoggedIn, Heard, Client
    <2> QED BY <1>1, <1>2, <1>3, <2>1 DEF Accepted, OnActive, Phases
  <1>4. CASE ~LoginAccepted(client)
    <2> DEFINE w == [Heard(client) EXCEPT !.jobs = FALSE]
    <2>1. client'.failures = client.failures
      <3>1. client' = Close(w)
        BY <1>4 DEF Accepted, LoggedIn
      <3>2. w \in Client /\ w.failures = client.failures
        BY <1>c, CallbackType, ZenonT(30) DEF Heard, Client
      <3> HIDE DEF w
      <3>3. Close(w).failures = w.failures
        BY <3>2 DEF Close, Client
      <3> QED BY <3>1, <3>2, <3>3
    <2> QED BY <1>1, <1>2, <1>4, <2>1, AskingOrderly DEF Accepted, Phases
  <1> QED BY <1>3, <1>4

(* reconnect() after a lookup or a connection has failed.                   *)
LEMMA LoseOrderly ==
  ASSUME TypeOK, client.listener, Phases,
         NEW c \in Client, Coherent(c), c.lookup = 0, c.socket = "none", c.listener,
         c.failures = client.failures, c.expire = client.expire,
         ~timer \/ client.socket = "closing", Lose(c)
  PROVE  Phases'
  <1>1. /\ Coherent(client') /\ client'.lookup = 0 /\ client'.socket = "none"
        /\ client'.failures = -1 <=> c.failures = -1
    BY ReconnectCoherent DEF Lose
  <1>2. CASE ~timer
    BY <1>1, <1>2, AskingOrderly DEF Lose, Phases
  <1>3. CASE timer
    <2>1. ~donating /\ ~stopping /\ c.failures = -1 /\ ~c.expire
      BY <1>3 DEF Phases, Quiet
    <2>2. client'.expire = c.expire
      BY <2>1 DEF Lose, Reconnect, Client
    <2> QED BY <1>1, <1>3, <2>1, <2>2 DEF Lose, Phases, Quiet
  <1> QED BY <1>2, <1>3

LEMMA CallbackOrderly ==
  ASSUME TypeOK, client.listener, Phases, Callback
  PROVE  Phases'
  <1>c. client \in Client /\ Coherent(client)
    BY DEF TypeOK, Phases
  <1>1. CASE Resolved
    <2> DEFINE c == [client EXCEPT !.lookup = 0]
    <2>1. client.lookup = 1 /\ ~timer
      BY <1>1, <1>c, Asking DEF Resolved
    <2>2. /\ c \in Client /\ Coherent(c) /\ c.socket = "none"
          /\ Coherent(ConnectSocket(c, TRUE))
      BY <1>c, <2>1, LookupCoherent
    <2>3. /\ c.lookup = 0 /\ c.failures = client.failures /\ c.listener
          /\ c.expire = client.expire
      BY <1>c DEF Client
    <2>4. Update(ConnectSocket(c, TRUE)) \/ Lose(c)
      BY <1>1 DEF Resolved
    <2> HIDE DEF c
    <2>5. CASE Lose(c)
      BY <2>1, <2>2, <2>3, <2>5, LoseOrderly
    <2>6. CASE Update(ConnectSocket(c, TRUE))
      <3>1. ConnectSocket(c, TRUE).failures = c.failures
        BY <2>2 DEF ConnectSocket, Client
      <3> QED BY <2>1, <2>2, <2>3, <2>6, <3>1, AskingOrderly DEF Update, Phases
    <2> QED BY <2>4, <2>5, <2>6
  <1>2. CASE Connected
    <2>1. client.socket = "connecting" /\ ~timer
      BY <1>2, <1>c, Asking DEF Connected
    <2>2. client' \in {Login(client, TRUE), Close(client)}
          /\ UNCHANGED <<donating, timer, stopping, rested, server>>
      BY <1>2 DEF Connected, Update
    <2>3. Coherent(Login(client, TRUE)) /\ Coherent(Close(client))
      BY <1>c, <2>1, LoginCoherent, CloseCoherent
    <2>4. Login(client, TRUE).failures = client.failures /\ Close(client).failures = client.failures
      BY <1>c DEF Login, Close, Client
    <2> QED BY <2>1, <2>2, <2>3, <2>4, AskingOrderly DEF Phases
  <1>3. CASE Accepted
    BY <1>3, AcceptedOrderly
  <1>4. CASE Notified \/ Answered
    <2>1. /\ client.socket = "served" /\ client' \in {JobTaken(client), Heard(client)}
          /\ UNCHANGED <<donating, timer, stopping, rested, server>>
      BY <1>4 DEF Notified, Answered, Update
    <2>2. client.state = "connected"
      BY <2>1 DEF Phases, Coherent
    <2>3. Coherent(JobTaken(client)) /\ Coherent(Heard(client))
      BY <1>c, <2>2, HeardCoherent
    <2>4. /\ JobTaken(client).socket = "served" /\ Heard(client).socket = "served"
          /\ JobTaken(client).failures = client.failures
          /\ Heard(client).failures = client.failures
      BY <1>c, <2>1 DEF JobTaken, Heard, Client
    <2>5. CASE timer
      <3>1. donating \/ stopping
        BY <2>1, <2>5 DEF Phases, Quiet
      <3> QED BY <2>1, <2>3, <2>4, <2>5, <3>1, ServingOrderly
    <2>6. CASE ~timer
      BY <2>1, <2>3, <2>4, <2>6, AskingOrderly DEF Phases
    <2> QED BY <2>5, <2>6 DEF TypeOK
  <1>5. CASE Dropped
    <2>1. ~timer
      <3>1. client.socket # "closing" /\ client.socket # "none" /\ ~server
        BY <1>5 DEF Dropped
      <3> QED BY <3>1 DEF Phases, Quiet
    <2>2. Close(client).failures = client.failures
      BY <1>c DEF Close, Client
    <2> QED BY <1>5, <1>c, <2>1, <2>2, CloseCoherent, AskingOrderly DEF Dropped, Update, Phases
  <1>6. CASE Closed
    <2> DEFINE c == Unconnected(client)
    <2>1. c \in Client /\ Coherent(c) /\ c.lookup = 0 /\ c.socket = "none"
      BY <1>c, <1>6, CallbackType, UnconnectedCoherent DEF Closed
    <2>2. c.failures = client.failures /\ c.listener /\ c.expire = client.expire
      BY <1>c DEF Unconnected, Client
    <2> HIDE DEF c
    <2>3. client.socket = "closing" /\ Lose(c)
      BY <1>6 DEF Closed, c
    <2> QED BY <2>1, <2>2, <2>3, LoseOrderly
  <1> QED
    BY <1>1, <1>2, <1>3, <1>4, <1>5, <1>6 DEF Callback

LEMMA StepOrderly == Inv /\ Orderly /\ [Next]_vars => Orderly'
  <1> SUFFICES ASSUME Inv, Orderly, [Next]_vars, ~dropped'
               PROVE  Phases'
    BY DEF Orderly
  <1>c. TypeOK /\ client \in Client /\ client.listener
    BY DEF Inv, TypeOK
  <1>d. ~dropped
    BY DEF Next, Callback, MainJob, MainPause, Reload, TimerConnect, Suspend, StopClient, Retry,
           Timeout, Resolved, Connected, Accepted, Notified, Answered, Dropped, Closed,
           NewBlock, Turn, Update, Lose, vars
  <1>p. Phases
    BY <1>d DEF Orderly
  <1>1. CASE MainJob \/ MainPause \/ Reload \/ UNCHANGED vars
    <2>1. UNCHANGED <<client, donating, timer, stopping, rested, server>>
      BY <1>1 DEF MainJob, MainPause, Reload, vars
    <2> QED BY <1>p, <2>1 DEF Phases
  <1>2. CASE TimerConnect
    <2>1. client.lookup = 0 /\ client.socket = "none"
      BY <1>2, <1>p DEF TimerConnect, TimersRun, Phases, Quiet
    <2>2. Coherent(client')
      BY <1>2, <1>c, <2>1, ResolveCoherent DEF TimerConnect
    <2>3. client'.failures # -1
      BY <1>2, <1>c DEF TimerConnect, Resolve, Client
    <2> QED BY <1>2, <2>2, <2>3 DEF TimerConnect, Phases
  <1>3. CASE Suspend
    BY <1>3, <1>p DEF Suspend, Phases
  <1>4. CASE StopClient
    <2>1. client.socket = "served" /\ timer /\ ~donating
      BY <1>4, <1>p DEF StopClient, Phases
    <2>2. /\ Coherent(client') /\ client'.socket \in {"none", "closing"}
          /\ client'.failures = -1 /\ client'.lookup = client.lookup
      BY <1>4, <1>c, <1>p, DisconnectCoherent DEF StopClient, Phases
    <2>3. client.lookup = 0
      BY <1>c, <1>p, <2>1, CoherentHandles DEF Phases
    <2>4. ~client'.expire
      BY <1>4, <1>c DEF StopClient, Disconnect, Close, Client
    <2> QED BY <1>4, <2>1, <2>2, <2>3, <2>4 DEF StopClient, Phases, Quiet
  <1>5. CASE Retry
    <2>1. client.lookup = 0 /\ client.socket = "none"
      BY <1>5, <1>c, <1>p, CoherentHandles DEF Retry, Phases
    <2>2. ~timer
      BY <1>5, <1>c, <1>p, <2>1, Asking DEF Retry
    <2>3. Resolve(client, TRUE).failures # -1
      BY <1>c DEF Resolve, Client
    <2> QED BY <1>5, <1>c, <1>p, <2>1, <2>2, <2>3, ResolveCoherent, AskingOrderly DEF Retry, Update
  <1>6. CASE Timeout
    <2>1. ~server /\ client.expire
      BY <1>6 DEF Timeout
    <2>2. ~timer
      BY <1>p, <2>1 DEF Phases, Quiet
    <2>3. Close(client).failures = client.failures
      BY <1>c DEF Close, Client
    <2> QED BY <1>6, <1>c, <1>p, <2>2, <2>3, CloseCoherent, AskingOrderly DEF Timeout, Update, Phases
  <1>7. CASE Callback
    BY <1>7, <1>c, <1>p, CallbackOrderly
  <1>8. CASE NewBlock
    <2> DEFINE d == [client EXCEPT !.known = FALSE]
    <2>1. /\ d.failures = client.failures /\ d.expire = client.expire /\ d.state = client.state
          /\ d.lookup = client.lookup /\ d.socket = client.socket
      BY <1>c DEF Client
    <2>2. client' = d /\ UNCHANGED <<donating, timer, stopping, rested, server>>
      BY <1>8 DEF NewBlock, Update
    <2> QED BY <1>p, <2>1, <2>2 DEF Phases, Coherent, Quiet
  <1>9. CASE Turn
    <2>1. client.socket # "served"
      BY <1>9 DEF Turn
    <2> QED BY <1>9, <1>p, <2>1 DEF Turn, Phases
  <1> QED
    BY <1>1, <1>2, <1>3, <1>4, <1>5, <1>6, <1>7, <1>8, <1>9 DEF Next

(* As long as no connection is lost while it serves, no donation begins     *)
(* before the idle time is over, none is for nobody, and neither the        *)
(* resolver nor the socket is used while it is in use: the delayed stop     *)
(* never meets the connection of the next donation.                         *)
THEOREM DonatesInOrder == Spec => OrderlyUntilDropped
  <1>1. Inv /\ Orderly => DonatesToSomebody /\ HandlesOwned
    BY DEF Inv, TypeOK, Orderly, Phases, Coherent, Client, DonatesToSomebody, HandlesOwned
  <1>2. Inv /\ Orderly /\ [Next]_vars => [~dropped /\ ~donating /\ donating' => rested]_vars
    <2> SUFFICES ASSUME Inv, Orderly, Next, ~dropped, ~donating, donating'
                 PROVE  rested
      OBVIOUS
    <2>1. Accepted
      BY DEF Next, Callback, MainJob, MainPause, Reload, TimerConnect, Suspend, StopClient, Retry,
             Timeout, Resolved, Connected, Notified, Answered, Dropped, Closed,
             NewBlock, Turn, Update, Lose
    <2>2. ~timer
      BY <2>1, Asking DEF Accepted, Orderly, Inv, TypeOK
    <2> QED BY <2>2 DEF Orderly, Phases
  <1> QED
    BY <1>1, <1>2, InitInv, InitOrderly, StepInv, StepOrderly, PTL
       DEF Spec, OrderlyUntilDropped, OnSchedule
=============================================================================
