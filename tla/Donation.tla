------------------------------ MODULE Donation ------------------------------
(***************************************************************************)
(* The donation timer and the Network: DonateStrategy with its one pool    *)
(* (SinglePoolStrategy over a Client) beside the user's strategy, both     *)
(* reporting to the Network, which passes jobs to the Workers.             *)
(*                                                                         *)
(* The user's strategy is its isActive() and what it may report; module    *)
(* Failover has its inside.  `mined' is what the Workers were last told:   *)
(* a job of the user's pool, a job of the donation's, or a pause.          *)
(***************************************************************************)
EXTENDS Clients

CONSTANT SinglePool     \* the user has one pool: SinglePoolStrategy

ASSUME DonationAssumption == SinglePool \in BOOLEAN

VARIABLES
    client,     \* the donation's Client
    single,     \* SinglePoolStrategy::m_active of the donation
    donating,   \* DonateStrategy::m_active
    timer,      \* m_timer runs
    stopping,   \* m_stop is set
    main,       \* isActive() of the user's strategy
    mined,      \* "main", "donate" or "paused"
    server,     \* the donation's pool is up
    rested,     \* history: the idle time has passed since the last donation
    dropped     \* history: the donation's pool has gone while it served

vars == <<client, single, donating, timer, stopping, main, mined, server, rested,
          dropped>>

(* The constructor: idle.                                                   *)
Init ==
    /\ client = NewClient
    /\ single = FALSE /\ donating = FALSE
    /\ timer = TRUE /\ stopping = FALSE
    /\ main = FALSE /\ mined = "paused"
    /\ server \in BOOLEAN
    /\ rested = FALSE /\ dropped = FALSE

-----------------------------------------------------------------------------
(* The user's strategy reports to the Network.                              *)

(* onJob(): ignored while donating.                                         *)
MainMined == IF donating THEN mined ELSE "main"

(* onActive() and onJob(), or a further onJob()                             *)
MainJob ==
    /\ main' = TRUE
    /\ mined' = MainMined
    /\ UNCHANGED <<client, single, donating, timer, stopping, server, rested, dropped>>

(* onPause(): the Workers are paused, even if they work for the donation.   *)
MainPause ==
    /\ main
    /\ main' = FALSE
    /\ mined' = "paused"
    /\ UNCHANGED <<client, single, donating, timer, stopping, server, rested, dropped>>

(* onConfigChanged(): the old strategy is stopped and deleted.  stop() of a *)
(* FailoverStrategy reports a pause; a SinglePoolStrategy would report it   *)
(* when its connection is closed, but is no longer there.                   *)
Reload ==
    /\ main' = FALSE
    /\ mined' = IF SinglePool THEN mined ELSE "paused"
    /\ UNCHANGED <<client, single, donating, timer, stopping, server, rested, dropped>>

-----------------------------------------------------------------------------
(* The donation's timers.                                                   *)

(* The close callbacks of an iteration of the loop run before the timers    *)
(* and ticks of the next.                                                   *)
TimersRun == client.socket # "closing"

(* onTimer() after the idle time: connect.                                  *)
TimerConnect ==
    /\ TimersRun
    /\ timer /\ ~stopping /\ ~donating
    /\ timer' = FALSE
    /\ client' = Resolve(client, TRUE)
    /\ rested' = TRUE
    /\ UNCHANGED <<single, donating, stopping, main, mined, server, dropped>>

(* Mutant of Suspend: the user's job is not resumed.                        *)
SuspendOnly ==
    /\ timer /\ ~stopping /\ donating
    /\ donating' = FALSE /\ timer' = TRUE /\ stopping' = TRUE
    /\ rested' = FALSE
    /\ UNCHANGED <<client, single, main, mined, server, dropped>>

(* Mutant of Suspend: the donation does not end.                            *)
SuspendStaysActive ==
    /\ TimersRun
    /\ timer /\ ~stopping /\ donating
    /\ timer' = TRUE /\ stopping' = TRUE
    /\ mined' = IF main THEN "main" ELSE "paused"
    /\ rested' = FALSE
    /\ UNCHANGED <<client, single, donating, main, server, dropped>>

(* onTimer() after the donation time: suspend(), and with it onPause() of   *)
(* the Network, which resumes the user's job or pauses.  The connection is  *)
(* stopped five seconds later, long before the idle time is over.           *)
Suspend ==
    /\ TimersRun
    /\ timer /\ ~stopping /\ donating
    /\ donating' = FALSE /\ timer' = TRUE /\ stopping' = TRUE
    /\ mined' = IF main THEN "main" ELSE "paused"
    /\ rested' = FALSE
    /\ UNCHANGED <<client, single, main, server, dropped>>

(* tick(): the delayed stop.                                                *)
StopClient ==
    /\ TimersRun
    /\ stopping
    /\ stopping' = FALSE
    /\ client' = Disconnect(client)
    /\ UNCHANGED <<single, donating, timer, main, mined, server, rested, dropped>>

-----------------------------------------------------------------------------
(* Ticks and callbacks of the donation's client.                            *)

Update(c) == /\ client' = c
             /\ UNCHANGED <<single, donating, timer, stopping, main, mined, server, rested,
                            dropped>>

(* reconnect(), and onClose() of the SinglePoolStrategy; its onPause() is   *)
(* nothing to the DonateStrategy.                                           *)
Lose(c) == /\ client' = Reconnect(c)
           /\ single' = FALSE
           /\ UNCHANGED <<donating, timer, stopping, main, mined, server, rested,
                          dropped>>

Retry ==
    /\ TimersRun
    /\ client.expire /\ client.state = "connecting"
    /\ Update(Resolve(client, TRUE))

Timeout ==
    /\ TimersRun
    /\ client.expire /\ client.state = "connected" /\ ~server
    /\ Update(Close(client))

Resolved ==
    /\ client.lookup = 1
    /\ LET c == [client EXCEPT !.lookup = 0]
       IN  Update(ConnectSocket(c, TRUE)) \/ (~server /\ Lose(c))

Connected ==
    /\ client.socket = "connecting"
    /\ IF server THEN Update(Login(client, TRUE)) ELSE Update(Close(client))

(* Mutant of OnActive: the end of the donation is not scheduled.            *)
OnActiveUntimed ==
    /\ donating' = TRUE
    /\ UNCHANGED timer

(* onActive(): a donation begins, and its end is scheduled.                 *)
OnActive ==
    /\ donating' = TRUE
    /\ timer' = (timer \/ ~donating)

(* onLoginSuccess() and onJobReceived(), up to the Workers.                 *)
Accepted ==
    /\ client.socket = "open" /\ server
    /\ client' = LoggedIn(client)
    /\ IF LoginAccepted(client)
       THEN single' = TRUE /\ OnActive /\ mined' = "donate"
       ELSE UNCHANGED <<single, donating, timer, mined>>
    /\ UNCHANGED <<stopping, main, server, rested, dropped>>

(* onJob(): a job of the donation's pool counts while donating.             *)
Notified ==
    /\ client.socket = "served" /\ server
    /\ ~client.known
    /\ client' = JobTaken(client)
    /\ mined' = IF donating THEN "donate" ELSE mined
    /\ UNCHANGED <<single, donating, timer, stopping, main, server, rested, dropped>>

Answered ==
    /\ client.socket = "served" /\ server /\ client.expire
    /\ Update(Heard(client))

Dropped ==
    /\ client.socket \in {"open", "served"} /\ ~server
    /\ Update(Close(client))

Closed == client.socket = "closing" /\ Lose(Unconnected(client))

-----------------------------------------------------------------------------
(* The world.                                                               *)

NewBlock == client.known /\ Update([client EXCEPT !.known = FALSE])

Turn ==
    /\ server' = ~server
    /\ dropped' = (dropped \/ client.socket = "served")
    /\ UNCHANGED <<client, single, donating, timer, stopping, main, mined, rested>>

Callback == Resolved \/ Connected \/ Accepted \/ Notified \/ Answered
            \/ Dropped \/ Closed

Next == MainJob \/ MainPause \/ Reload \/ TimerConnect \/ Suspend \/ StopClient
        \/ Retry \/ Timeout \/ Callback \/ NewBlock \/ Turn

Spec == Init /\ [][Next]_vars

(* libuv runs the callbacks that are due, and in every iteration of its     *)
(* loop the timers and ticks that are: a connection that comes and goes     *)
(* between two iterations does not hold them up.                            *)
FairSpec == /\ Spec
            /\ SF_vars(TimerConnect) /\ SF_vars(Suspend) /\ SF_vars(StopClient)
            /\ SF_vars(Retry) /\ SF_vars(Timeout)
            /\ WF_vars(Resolved) /\ WF_vars(Connected) /\ WF_vars(Accepted)
            /\ WF_vars(Dropped) /\ WF_vars(Closed) /\ WF_vars(NewBlock)

-----------------------------------------------------------------------------
(* Properties.                                                              *)

TypeOK ==
    /\ client \in Client
    /\ single \in BOOLEAN /\ donating \in BOOLEAN
    /\ timer \in BOOLEAN /\ stopping \in BOOLEAN
    /\ main \in BOOLEAN /\ server \in BOOLEAN /\ rested \in BOOLEAN /\ dropped \in BOOLEAN
    /\ mined \in {"main", "donate", "paused"}

(* When the donation does not have them, the Workers mine for the user's    *)
(* strategy, or rest if that has no pool: a donation takes nothing but its  *)
(* time.                                                                    *)
MinesForMain == ~donating => mined = IF main THEN "main" ELSE "paused"

(* A donation always has its end scheduled, and a strategy that does not    *)
(* donate either waits for its next donation or tries to connect.           *)
AlwaysScheduled ==
    timer \/ (~donating /\ (client.expire \/ client.lookup > 0 \/ client.socket # "none"))

(* While it donates the donation has a connection, or makes one, unless the *)
(* pool has gone once while it served: the delayed stop may then have ended *)
(* the connection of the next donation.                                     *)
DonatesToSomebody ==
    ~dropped /\ donating => client.socket # "none" \/ client.lookup > 0 \/ client.expire

(* With the same exception, the resolver and the socket of the client are   *)
(* never used while they are in use.                                        *)
HandlesOwned == ~dropped => client.lookup < 2 /\ client.socket # "leaked"

(* And no donation begins before the idle time has passed.                  *)
OnSchedule == [][~dropped /\ ~donating /\ donating' => rested]_vars

(* A donation ends.                                                         *)
DonationEnds == donating ~> ~donating

(* A user's pool that stays is mined for again and again.                   *)
MainReturns == (<>[]main) => []<>(mined = "main")

(* Until a connection is lost while it serves, donations keep their time,    *)
(* have somebody to donate to, and use no handle twice.                      *)
OrderlyUntilDropped == OnSchedule /\ [](DonatesToSomebody /\ HandlesOwned)

(* Every donation gives the user back what it took.                          *)
UserReturns == DonationEnds /\ MainReturns
=============================================================================
