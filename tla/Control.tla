------------------------------- MODULE Control -------------------------------
(***************************************************************************)
(* The HTTP API and the reloading of the configuration together: clients   *)
(* put configurations, users edit the file, and both go through one main   *)
(* loop (common/api/Httpd.cpp runs microhttpd from a timer of that loop).  *)
(***************************************************************************)
EXTENDS Http, Reload, FiniteSets

CONSTANTS
    Connections,
    Requests,       \* what clients send
    MaxRequests     \* bound: requests made

Pieces == [config : Configs \cup {Invalid}, size : Nat, part : Nat]

ASSUME ControlAssumption ==
    /\ IsFiniteSet(Connections) /\ MaxRequests \in Nat
    /\ Invalid \notin Configs
    /\ \A r \in Requests : r.parts \in Seq(Seq(Pieces))

Idle == [request |-> "none"]

VARIABLES
    conn,           \* [Connections -> Idle, or the connection]
    requests,
    bodies,         \* the HttpBody objects that are allocated
    aborted         \* history: uploads the client has broken off

apiVars == <<conn, requests, bodies, aborted>>
vars == <<reloadVars, apiVars>>

Init ==
    /\ ReloadInit
    /\ conn = [k \in Connections |-> Idle]
    /\ requests = 0 /\ bodies = 0 /\ aborted = 0

Open(k) ==
    /\ conn[k] = Idle
    /\ requests < MaxRequests /\ requests' = requests + 1
    /\ \E r \in Requests : conn' = [conn EXCEPT ![k] = Fresh(r)]
    /\ UNCHANGED <<reloadVars, bodies, aborted>>

(* A body is allocated with the headers, and deleted with the HttpRequest of
   the call that answers. *)
Bodies(before, after) ==
    bodies + (IF ~before.upload /\ after.upload THEN 1 ELSE 0)
           - (IF before.upload /\ ~after.upload THEN 1 ELSE 0)

(* What is put.  An empty body is an m_data that nobody has written: it may be
   what the allocator left there. *)
Parsed(text) == IF text = <<>> THEN Configs \cup {Invalid} ELSE {Parse(text)}

(* One call for the connection; with the answer microhttpd is done with it. *)
Handler(k) ==
    /\ ~rewatch
    /\ conn[k] # Idle
    /\ conn' = [conn EXCEPT ![k] = IF Replied(Handle(@)) THEN Idle ELSE Handle(@)]
    /\ bodies' = Bodies(conn[k], Handle(conn[k]))
    /\ IF Puts(conn[k]) THEN \E c \in Parsed(conn[k].body) : Put(c) ELSE UNCHANGED reloadVars
    /\ UNCHANGED <<requests, aborted>>

(* A client goes away in the middle: nothing is called any more. *)
Abort(k) ==
    /\ conn[k] # Idle
    /\ conn' = [conn EXCEPT ![k] = Idle]
    /\ aborted' = IF conn[k].upload THEN aborted + 1 ELSE aborted
    /\ UNCHANGED <<reloadVars, requests, bodies>>

Next ==
    \/ ReloadNext /\ UNCHANGED apiVars
    \/ \E k \in Connections : Open(k) \/ Handler(k) \/ Abort(k)

Spec == Init /\ [][Next]_vars

(* The main loop runs its timers and what the kernel reports; microhttpd goes on
   with a connection whenever it has something of it. *)
FairSpec ==
    /\ Spec
    /\ WF_vars(FsEvent /\ UNCHANGED apiVars)
    /\ WF_vars(Load /\ UNCHANGED apiVars)
    /\ WF_vars(Rewatch /\ UNCHANGED apiVars)
    /\ \A k \in Connections : SF_vars(Handler(k))
-----------------------------------------------------------------------------
Uploading == {k \in Connections : conn[k] # Idle /\ conn[k].upload}

(* Every body belongs to an upload that is under way, or to one that the client
   broke off: those are never freed. *)
BodiesOwned == bodies = Cardinality(Uploading) + aborted

TypeOK == ReloadTypeOK /\ bodies \in Nat /\ aborted \in 0..requests /\ requests \in 0..MaxRequests

(* A client changes the configuration, or its file, only by a document it has
   sent in full, with the token, to an API that is not restricted; or by an
   empty one, which HttpBody does not tell from what its memory held. *)
OnlyWhatWasPut ==
    [][\A k \in Connections : conn'[k] # conn[k] /\ conn[k] # Idle =>
           \/ UNCHANGED <<config, file>>
           \/ /\ conn[k].request.token = Token /\ ~Restricted
              /\ \E c \in Configs :
                    /\ conn[k].body \in {<<>>, Document(c, Len(conn[k].body))}
                    /\ <<config', file'>> \in {<<c, c>>, <<c, file>>, <<config, c>>}]_vars
=============================================================================
