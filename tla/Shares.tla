------------------------------- MODULE Shares -------------------------------
(***************************************************************************)
(* The way of a share: found by a GPU thread, queued for the main loop,    *)
(* verified on the thread pool, submitted by the Client it belongs to,     *)
(* answered by the pool and counted by NetworkState.                       *)
(*                                                                         *)
(* Each pool of the user, 0 and up, and the donation's, -1, has a Client.  *)
(* What connects it is in Failover and Donation: here a connection is      *)
(* "down", waits for the answer to its "login", or is "up".  A share       *)
(* carries what JobResult does: the pool (poolId) and login (clientId) of  *)
(* its job, and the difficulty it reached.                                 *)
(***************************************************************************)
EXTENDS Integers, FiniteSets, SequencesExt

CONSTANTS
    Threads,        \* GPU threads
    Pools,          \* the pools, of which -1 is the donation's
    Logins,         \* for each pool the ids it may give to a login
    Diffs,          \* for each pool the difficulties its shares may reach
    Best,           \* the size of NetworkState::topDiff
    MaxShares,      \* bound: shares found
    MaxSequence     \* bound: for each pool the m_sequence up to which its
                    \* client sends logins and pings

ASSUME SharesAssumption ==
    /\ Pools \subseteq Nat \cup {-1}
    /\ \A p \in Pools : Logins[p] # {} /\ 0 \notin Logins[p]
    /\ Diffs \in [Pools -> SUBSET (Nat \ {0})] /\ Best \in Nat \ {0}
    /\ MaxShares \in Nat /\ MaxSequence \in [Pools -> Nat]

Users == Pools \ {-1}

(* Different pools of the user never give the same id.                      *)
ASSUME LoginsDiffer == \A p, q \in Users : p # q => Logins[p] \cap Logins[q] = {}

VARIABLES
    found,      \* shares found so far
    queue,      \* Workers::m_queue
    unsent,     \* threads between the push and uv_async_send
    pending,    \* m_async has been sent
    batons,     \* batches on the thread pool, or waiting for their callback
    clients,    \* the pools' Clients
    active,     \* FailoverStrategy::m_active, or -1
    topDiff,    \* NetworkState::topDiff
    counted,    \* history: how often each share was counted
    best        \* history: the accepted shares

vars == <<found, queue, unsent, pending, batons, clients, active, topDiff, counted, best>>

LoginMessage == -1
PingMessage  == 0

(* A Client: m_state, m_rpcId (0 before the first login), m_sequence,       *)
(* m_results, and the messages on the connection still to be answered: the  *)
(* id of each with the share that was sent, or one of the two above.        *)
(* given: history, the ids whose jobs a thread may still be mining.         *)
NewClient == [state |-> "down", rpcId |-> 0, sequence |-> 1,
              results |-> [i \in {} |-> 0], wire |-> {}, given |-> {}]

Init ==
    /\ found = 0 /\ queue = <<>> /\ unsent = {} /\ pending = FALSE
    /\ batons = {}
    /\ clients = [p \in Pools |-> NewClient] /\ active = -1
    /\ topDiff = [i \in 1..Best |-> 0]
    /\ counted = [n \in 1..MaxShares |-> 0] /\ best = {}

-----------------------------------------------------------------------------
(* The GPU threads.                                                         *)

(* submit(): the share is of the thread's job, which may be one of an older *)
(* login, or of a pool that is no longer active.                            *)
Submit(t) ==
    /\ t \notin unsent
    /\ found < MaxShares
    /\ found' = found + 1
    /\ \E p \in Pools : \E d \in Diffs[p], c \in clients[p].given :
          queue' = Append(queue, [n |-> found', poolId |-> p, clientId |-> c, diff |-> d])
    /\ unsent' = unsent \cup {t}
    /\ UNCHANGED <<pending, batons, clients, active, topDiff, counted, best>>

(* Mutant of AsyncSend: only the first of the queue wakes the loop.         *)
AsyncSendFirst(t) ==
    /\ t \in unsent
    /\ unsent' = unsent \ {t}
    /\ pending' = (pending \/ Len(queue) = 1)
    /\ UNCHANGED <<found, queue, batons, clients, active, topDiff, counted, best>>

AsyncSend(t) ==
    /\ t \in unsent
    /\ unsent' = unsent \ {t}
    /\ pending' = TRUE
    /\ UNCHANGED <<found, queue, batons, clients, active, topDiff, counted, best>>

-----------------------------------------------------------------------------
(* The main loop and the thread pool.                                       *)

(* onResult(): one batch of all that is queued.                             *)
OnResult ==
    /\ pending
    /\ pending' = FALSE
    /\ batons' = batons \cup {[jobs |-> queue, results |-> {}, verified |-> FALSE]}
    /\ queue' = <<>>
    /\ UNCHANGED <<found, unsent, clients, active, topDiff, counted, best>>

(* The work of a batch: the results are the shares the CPU's hash confirms. *)
Verify(b) ==
    /\ ~b.verified
    /\ \E right \in SUBSET Range(b.jobs) :
          batons' = (batons \ {b}) \cup {[b EXCEPT !.results = right, !.verified = TRUE]}
    /\ UNCHANGED <<found, queue, unsent, pending, clients, active, topDiff, counted, best>>

Down(c) == [c EXCEPT !.state = "down", !.wire = {}]

(* send(): a write that fails closes the connection.                        *)
Send(c, id, what, written) ==
    IF c.state = "down" THEN c
    ELSE IF written THEN [c EXCEPT !.wire = @ \cup {<<id, what>>}, !.sequence = @ + 1]
    ELSE Down(c)

(* A share is noted under the number it is going to be sent with.           *)
WithNote(c, s) ==
    [c EXCEPT !.results = [i \in DOMAIN @ \cup {c.sequence} |->
                              IF i = c.sequence THEN s ELSE @[i]]]

(* Mutant of SubmitResult: a share of an older login is sent as well.       *)
SubmitResultAny(c, s, written) == Send(WithNote(c, s), c.sequence, s.n, written)

(* Client::submit(): only a share of the login that the pool knows is sent. *)
SubmitResult(c, s, written) ==
    IF s.clientId # c.rpcId THEN c
    ELSE Send(WithNote(c, s), c.sequence, s.n, written)

(* Network::onJobResult() and submit() of a strategy: the active pool gets  *)
(* the share, whichever pool of the user it was found for.                  *)
OnJobResult(cs, s, written) ==
    IF s.poolId = -1 THEN [cs EXCEPT ![-1] = SubmitResult(@, s, written)]
    ELSE IF active = -1 THEN cs
    ELSE [cs EXCEPT ![active] = SubmitResult(@, s, written)]

(* The Clients after the results of a batch, in the order of its jobs, have *)
(* been submitted one by one, of which those in written could be written.   *)
AllSubmitted(b, written) ==
    LET after[i \in 0..Len(b.jobs)] ==
            IF i = 0 THEN clients
            ELSE IF b.jobs[i] \in b.results
            THEN OnJobResult(after[i - 1], b.jobs[i], b.jobs[i] \in written)
            ELSE after[i - 1]
    IN  after[Len(b.jobs)]

(* The callback after the work: the confirmed shares are submitted.         *)
Finish(b) ==
    /\ b.verified
    /\ batons' = batons \ {b}
    /\ \E written \in SUBSET b.results : clients' = AllSubmitted(b, written)
    /\ UNCHANGED <<found, queue, unsent, pending, active, topDiff, counted, best>>

-----------------------------------------------------------------------------
(* Messages of a Client and their answers.                                  *)

Becomes(p, c) ==
    /\ clients' = [clients EXCEPT ![p] = c]
    /\ UNCHANGED <<found, queue, unsent, pending, batons, active>>

Uncounted == UNCHANGED <<topDiff, counted, best>>

(* Connected, and login(): whatever m_sequence is, the login has id 1.      *)
Login(p) ==
    /\ clients[p].state = "down" /\ (p = -1 \/ p # active)
    /\ clients[p].sequence < MaxSequence[p]
    /\ \E written \in BOOLEAN :
          Becomes(p, Send([clients[p] EXCEPT !.state = "login",
                                             !.results = [i \in {} |-> 0]],
                          1, LoginMessage, written))
    /\ Uncounted

(* parseLogin() of an answer that accepts the login under an id.            *)
WithLogin(c, id) ==
    [c EXCEPT !.state = "up", !.rpcId = id, !.given = @ \cup {id},
              !.wire = @ \ {<<1, LoginMessage>>}]

(* The pool accepts the login, and onLoginSuccess() of the strategy: the    *)
(* primary, or the first to log in, is active; the backups are closed.      *)
LoggedIn(p) ==
    /\ <<1, LoginMessage>> \in clients[p].wire
    /\ active' = IF p = 0 \/ (p \in Users /\ active = -1) THEN p ELSE active
    /\ \E c \in Logins[p] :
          LET new == [clients EXCEPT ![p] = WithLogin(@, c)]
          IN  clients' = IF p = -1 THEN new
                         ELSE [q \in Pools |-> IF q > 0 /\ q # active' THEN Down(new[q])
                                                ELSE new[q]]
    /\ UNCHANGED <<found, queue, unsent, pending, batons>> /\ Uncounted

Ping(p) ==
    /\ clients[p].state = "up" /\ clients[p].sequence < MaxSequence[p]
    /\ \E written \in BOOLEAN :
          Becomes(p, Send(clients[p], clients[p].sequence, PingMessage, written))
    /\ Uncounted

(* A list sorted, the greatest number first.                                *)
Descending(s) ==
    CHOOSE t \in {[i \in DOMAIN s |-> s[f[i]]] : f \in Bijection(DOMAIN s, DOMAIN s)} :
        \A i, j \in DOMAIN s : i < j => t[i] >= t[j]

(* NetworkState::add() of an accepted share: it replaces the last of the    *)
(* best ones if it is better, and they are sorted.                          *)
Record(d) ==
    IF d > topDiff[Best]
    THEN Descending([topDiff EXCEPT ![Best] = d])
    ELSE topDiff

(* Mutant of Erased: the share stays noted after it was counted.            *)
ErasedNot(c, id) == c

Erased(c, id) ==
    [c EXCEPT !.results = [i \in DOMAIN @ \ {id} |-> @[i]]]

(* The answer to a message has been read; the pool may repeat it.           *)
Heard(c, m, again) == [c EXCEPT !.wire = IF again THEN @ ELSE @ \ {m}]

(* parseResponse() of an answer to a share or ping, which the pool may      *)
(* repeat.  An error counts a noted share as rejected, and a critical one   *)
(* ends the connection.                                                     *)
Answered(p) ==
    \E m \in clients[p].wire, again \in BOOLEAN, answer \in {"OK", "error", "critical"} :
       LET id     == m[1]
           c      == Heard(clients[p], m, again)
           noted  == id \in DOMAIN c.results
           share  == c.results[id]
           erased == IF noted THEN Erased(c, id) ELSE c
       IN  /\ m[2] # LoginMessage
           /\ Becomes(p, IF answer = "critical" THEN Down(erased) ELSE erased)
           /\ counted' = IF noted THEN [counted EXCEPT ![share.n] = @ + 1] ELSE counted
           /\ IF noted /\ answer = "OK"
              THEN topDiff' = Record(share.diff) /\ best' = best \cup {share}
              ELSE UNCHANGED <<topDiff, best>>

(* The connection is lost, or closed by a timeout or the strategy.          *)
Lost(p) ==
    /\ clients[p].state # "down"
    /\ Becomes(p, Down(clients[p]))
    /\ Uncounted

(* onClose() of the strategy, after the closing of the connection.          *)
Closed ==
    /\ active # -1 /\ clients[active].state = "down"
    /\ active' = -1
    /\ UNCHANGED <<found, queue, unsent, pending, batons, clients>> /\ Uncounted

Work == OnResult \/ \E b \in batons : Verify(b) \/ Finish(b)

(* Where the bound keeps every client from logging in again.                *)
Ended ==
    /\ \A p \in Pools : clients[p].state = "down" /\ clients[p].sequence >= MaxSequence[p]
    /\ UNCHANGED vars

Next == (\E t \in Threads : Submit(t) \/ AsyncSend(t)) \/ Work
        \/ (\E p \in Pools : Login(p) \/ LoggedIn(p) \/ Ping(p) \/ Answered(p) \/ Lost(p))
        \/ Closed \/ Ended

Spec == Init /\ [][Next]_vars

(* Threads go on, and libuv runs its callbacks and the work it was given.   *)
FairSpec == Spec /\ WF_vars(Work) /\ \A t \in Threads : WF_vars(AsyncSend(t))

-----------------------------------------------------------------------------
(* Properties.                                                              *)

Ids    == UNION {Logins[p] : p \in Pools}
Levels == UNION {Diffs[p] : p \in Pools}
Share == {s \in [n : 1..MaxShares, poolId : Pools, clientId : Ids, diff : Levels] :
              s.clientId \in Logins[s.poolId] /\ s.diff \in Diffs[s.poolId]}
Numbers == Nat \ {0}

(* What is queued, verified or noted is a share of a job its pool gave, and *)
(* the list of the best ones never grows.                                   *)
TypeOK ==
    /\ found \in 0..MaxShares /\ queue \in Seq(Share)
    /\ unsent \subseteq Threads /\ pending \in BOOLEAN
    /\ \A b \in batons : b.jobs \in Seq(Share) /\ b.results \subseteq Range(b.jobs)
                         /\ b.verified \in BOOLEAN
    /\ \A p \in Pools :
          /\ clients[p].state \in {"down", "login", "up"}
          /\ clients[p].rpcId \in Logins[p] \cup {0}
          /\ clients[p].given \subseteq Logins[p]
          /\ clients[p].sequence \in Numbers
          /\ DOMAIN clients[p].results \subseteq Numbers
          /\ Range(clients[p].results) \subseteq Share
          /\ clients[p].wire \subseteq Numbers \X ((1..MaxShares) \cup {LoginMessage, PingMessage})
    /\ active \in Users \cup {-1}
    /\ topDiff \in [1..Best -> Levels \cup {0}]
    /\ counted \in [1..MaxShares -> Nat] /\ best \subseteq Share

Queued(n)  == {i \in DOMAIN queue : queue[i].n = n}
Batched(n) == {b \in batons : \E i \in DOMAIN b.jobs : b.jobs[i].n = n}
Noted(n)   == {at \in UNION {{p} \X DOMAIN clients[p].results : p \in Pools} :
                  clients[at[1]].results[at[2]].n = n}

(* A share is in one place: queued, in a batch, waiting for its answer, or  *)
(* counted, and then once - whatever the pool repeats.                      *)
OnePlace ==
    \A n \in 1..MaxShares :
        Cardinality(Queued(n)) + Cardinality(Batched(n)) + Cardinality(Noted(n))
            + counted[n] <= 1

(* An answer counts for the share it answers: no other share, and no ping,  *)
(* was sent with the number a share is noted under.                         *)
Credited ==
    \A p \in Pools : \A m \in clients[p].wire :
        m[1] \in DOMAIN clients[p].results => clients[p].results[m[1]].n = m[2]

(* The statistics keep the best shares that were accepted.                  *)
TopIsBest ==
    \A d \in Levels :
        LET better == Cardinality({s \in best : s.diff >= d})
        IN  Cardinality({i \in 1..Best : topDiff[i] >= d})
                = IF better < Best THEN better ELSE Best

(* A share goes to the pool of its job, as long as the pool knows its login.*)
SentToItsLogin ==
    [][\A p \in Pools : \A m \in clients'[p].wire \ clients[p].wire :
           m[2] > 0 => LET s == clients'[p].results[m[1]]
                       IN  s.poolId = p /\ s.clientId = clients[p].rpcId]_vars

(* No share stays in the queue or in a batch.                               *)
Handled ==
    \A n \in 1..MaxShares : Queued(n) \cup Batched(n) # {} ~> Queued(n) \cup Batched(n) = {}

(* Whatever is lost, repeated or verified out of order, a share is counted at*)
(* most once, for what it is, and the best are kept.                         *)
CountedOnce == TypeOK /\ OnePlace /\ Credited /\ TopIsBest
=============================================================================
