---------------------------- MODULE ControlProofs ----------------------------
(***************************************************************************)
(* The configuration in force is the one whose pools are mined for, it     *)
(* changes by whole documents with the right token only, and no upload is  *)
(* freed twice or leaked unless its client breaks it off: for any          *)
(* configurations, requests and connections.                               *)
(***************************************************************************)
EXTENDS Control, FiniteSetTheorems, SequenceTheorems, TLAPS

(* A connection between two calls of its handler, and after one. *)
Called ==
    [request : Requests, unread : Seq(Seq(Pieces)), upload : BOOLEAN, body : Seq(Pieces),
     status : Nat]
Live == {k \in Called : k.status = 0}

(* Only a client with the token is let to upload, and only where that is not
   restricted. *)
Admitted(k) == k.upload => k.request.token = Token /\ ~Restricted
UploadsByPut(k) == k.upload => k.request.method = "PUT"

ConnInv ==
    /\ conn \in [Connections -> {Idle} \cup Live]
    /\ \A k \in Connections : conn[k] # Idle => Admitted(conn[k]) /\ UploadsByPut(conn[k])

Opened == {k \in Connections : conn[k] # Idle}

(* Every request is of a connection that is open, or was broken off. *)
CountInv ==
    /\ bodies \in Nat /\ aborted \in Nat /\ requests \in 0..MaxRequests
    /\ aborted + Cardinality(Opened) <= requests

Inv == ReloadTypeOK /\ MinesConfiguredPools /\ ConnInv /\ BodiesOwned /\ CountInv

-----------------------------------------------------------------------------
(* The handler of one connection. *)

LEMMA IdleIsNotCalled == Idle \notin Called
  <1> SUFFICES ASSUME Idle \in Called PROVE FALSE
    OBVIOUS
  <1>1. DOMAIN Idle = {"request"}
    BY DEF Idle
  <1>2. "status" \in DOMAIN Idle
    BY DEF Called
  <1> QED BY <1>1, <1>2

LEMMA FreshLive ==
    ASSUME NEW r \in Requests
    PROVE  Fresh(r) \in Live /\ ~Fresh(r).upload
  <1>1. r.parts \in Seq(Seq(Pieces)) /\ <<>> \in Seq(Pieces)
    BY ControlAssumption, EmptySeq
  <1> QED BY <1>1 DEF Fresh, Live, Called

(* What is left alone by an update of a connection. *)
LEMMA StatusSet ==
    ASSUME NEW k \in Called, NEW s \in Nat
    PROVE  LET n == [k EXCEPT !.status = s]
           IN  /\ n \in Called /\ n.status = s
               /\ n.request = k.request /\ (n.upload <=> k.upload)
  <1>1. ASSUME NEW R, NEW U, NEW B,
               NEW r \in [request : R, unread : U, upload : BOOLEAN, body : B, status : Nat]
        PROVE  LET n == [r EXCEPT !.status = s]
               IN  /\ n \in [request : R, unread : U, upload : BOOLEAN, body : B, status : Nat]
                   /\ n.status = s /\ n.request = r.request /\ (n.upload <=> r.upload)
    OBVIOUS
  <1> QED BY <1>1 DEF Called

LEMMA UploadSet ==
    ASSUME NEW k \in Called
    PROVE  /\ LET n == [k EXCEPT !.upload = TRUE]
              IN  n \in Called /\ n.status = k.status /\ n.request = k.request /\ n.upload
           /\ LET n == [k EXCEPT !.upload = FALSE]
              IN  n \in Called /\ n.status = k.status /\ n.request = k.request /\ ~n.upload
  <1>1. ASSUME NEW R, NEW U, NEW B,
               NEW r \in [request : R, unread : U, upload : BOOLEAN, body : B, status : Nat]
        PROVE  /\ LET n == [r EXCEPT !.upload = TRUE]
                  IN  /\ n \in [request : R, unread : U, upload : BOOLEAN, body : B, status : Nat]
                      /\ n.status = r.status /\ n.request = r.request /\ n.upload
               /\ LET n == [r EXCEPT !.upload = FALSE]
                  IN  /\ n \in [request : R, unread : U, upload : BOOLEAN, body : B, status : Nat]
                      /\ n.status = r.status /\ n.request = r.request /\ ~n.upload
    OBVIOUS
  <1> QED BY <1>1 DEF Called

LEMMA BodySet ==
    ASSUME NEW k \in Called, NEW b \in Seq(Pieces), NEW u \in Seq(Seq(Pieces))
    PROVE  LET n == [k EXCEPT !.body = b, !.unread = u]
           IN  /\ n \in Called /\ n.status = k.status
               /\ n.request = k.request /\ (n.upload <=> k.upload)
  <1>1. ASSUME NEW R, NEW U, NEW B, NEW v \in U, NEW c \in B,
               NEW r \in [request : R, unread : U, upload : BOOLEAN, body : B, status : Nat]
        PROVE  LET n == [r EXCEPT !.body = c, !.unread = v]
               IN  /\ n \in [request : R, unread : U, upload : BOOLEAN, body : B, status : Nat]
                   /\ n.status = r.status /\ n.request = r.request /\ (n.upload <=> r.upload)
    OBVIOUS
  <1> QED BY <1>1 DEF Called

LEMMA BeginCalled ==
    ASSUME NEW k \in Live
    PROVE  /\ Begin(k) \in Called
           /\ Begin(k).status # 200
           /\ Begin(k).request = k.request
           /\ k.request.method = "GET" => (Begin(k).upload <=> k.upload)
           /\ Begin(k).status # 0 => (Begin(k).upload <=> k.upload)
           /\ Admitted(k) => Admitted(Begin(k))
  <1>1. Auth(k.request) \in {200, 401, 403}
    BY DEF Auth
  <1>2. Auth(k.request) = 200 /\ ~IsRestricted => k.request.token = Token /\ ~Restricted
    BY DEF Auth, IsRestricted
  <1>3. ASSUME NEW s \in {Auth(k.request), 403, 415}, s # 200, Begin(k) = [k EXCEPT !.status = s]
        PROVE  /\ Begin(k) \in Called /\ Begin(k).status = s
               /\ Begin(k).request = k.request /\ (Begin(k).upload <=> k.upload)
    <2>1. s \in Nat
      BY <1>1
    <2> QED BY <1>3, <2>1, StatusSet DEF Live
  <1>4. CASE Begin(k) = k
    BY <1>4 DEF Live
  <1>5. CASE /\ Begin(k) = [k EXCEPT !.upload = TRUE]
             /\ Auth(k.request) = 200 /\ ~IsRestricted /\ k.request.method # "GET"
    <2>1. /\ Begin(k) \in Called /\ Begin(k).status = 0
          /\ Begin(k).request = k.request
      <3> DEFINE n == [k EXCEPT !.upload = TRUE]
      <3>1. k \in Called /\ k.status = 0
        BY DEF Live
      <3>2. n \in Called /\ n.status = k.status /\ n.request = k.request
        BY <3>1, UploadSet
      <3>3. Begin(k) = n
        BY <1>5
      <3> HIDE DEF n
      <3> QED BY <3>1, <3>2, <3>3
    <2> QED BY <1>2, <1>5, <2>1 DEF Admitted
  <1>6. \/ \E s \in {Auth(k.request), 403, 415} : s # 200 /\ Begin(k) = [k EXCEPT !.status = s]
        \/ Begin(k) = k
        \/ /\ Begin(k) = [k EXCEPT !.upload = TRUE]
           /\ Auth(k.request) = 200 /\ ~IsRestricted /\ k.request.method # "GET"
    BY DEF Begin
  <1>7. CASE \E s \in {Auth(k.request), 403, 415} : s # 200 /\ Begin(k) = [k EXCEPT !.status = s]
    <2>1. PICK s \in {Auth(k.request), 403, 415} : s # 200 /\ Begin(k) = [k EXCEPT !.status = s]
      BY <1>7
    <2>2. /\ Begin(k) \in Called /\ Begin(k).status = s
          /\ Begin(k).request = k.request /\ (Begin(k).upload <=> k.upload)
      BY <1>3, <2>1
    <2> QED BY <2>1, <2>2 DEF Admitted
  <1> QED BY <1>4, <1>5, <1>6, <1>7

LEMMA GetCalled ==
    ASSUME NEW k \in Called
    PROVE  /\ Get(k) \in Called /\ (Get(k).upload <=> k.upload) /\ Get(k).request = k.request
           /\ Get(k).status # 0
  <1>1. PICK s \in {k.status, 403, 200} : s # 0 /\ Get(k) = [k EXCEPT !.status = s]
    BY DEF Get
  <1>2. s \in Nat
    BY DEF Called
  <1> QED BY <1>1, <1>2 DEF Called

LEMMA ReceiveCalled ==
    ASSUME NEW k \in Live, k.unread # <<>>
    PROVE  /\ Receive(k) \in Called /\ Receive(k).status # 200
           /\ Receive(k).request = k.request
           /\ Receive(k).upload => k.upload
           /\ Receive(k).status # 0 => ~Receive(k).upload
  <1>1. Head(k.unread) \in Seq(Pieces) /\ Tail(k.unread) \in Seq(Seq(Pieces))
    BY HeadTailProperties DEF Live, Called
  <1>2. Write(k.body, Head(k.unread)) \in Seq(Pieces)
    BY <1>1, ConcatProperties DEF Write, Live, Called
  <1>3. CASE Receive(k) = [k EXCEPT !.body = Write(k.body, Head(k.unread)), !.unread = Tail(k.unread)]
    <2> DEFINE n == [k EXCEPT !.body = Write(k.body, Head(k.unread)), !.unread = Tail(k.unread)]
    <2>1. k \in Called /\ k.status = 0
      BY DEF Live
    <2>2. n \in Called /\ n.status = k.status /\ n.request = k.request /\ (n.upload <=> k.upload)
      BY <1>1, <1>2, <2>1, BodySet
    <2>3. Receive(k) = n
      BY <1>3
    <2> HIDE DEF n
    <2> QED BY <2>1, <2>2, <2>3
  <1>4. CASE Receive(k) = [k EXCEPT !.status = 413, !.upload = FALSE]
    <2> DEFINE m == [k EXCEPT !.status = 413]
               n == [m EXCEPT !.upload = FALSE]
    <2>1. m \in Called /\ m.status = 413 /\ m.request = k.request
      BY StatusSet, SMTT(30) DEF Live
    <2>2. Receive(k) = n
      BY <1>4
    <2> HIDE DEF m
    <2>3. n \in Called /\ n.status = m.status /\ n.request = m.request /\ ~n.upload
      BY <2>1, UploadSet, ZenonT(30)
    <2> HIDE DEF n
    <2> QED BY <2>1, <2>2, <2>3
  <1> QED BY <1>3, <1>4 DEF Receive

LEMMA ExecCalled ==
    ASSUME NEW k \in Live
    PROVE  Exec(k) \in Called /\ ~Exec(k).upload /\ Exec(k).request = k.request /\ Exec(k).status # 0
  <1> DEFINE s == IF k.request.method = "PUT" /\ k.request.url = "/1/config" THEN 200 ELSE 404
  <1>1. Exec(k) = [k EXCEPT !.status = s, !.upload = FALSE]
    BY DEF Exec
  <1>2. s \in Nat /\ s # 0
    OBVIOUS
  <1> HIDE DEF s
  <1> QED BY <1>1, <1>2 DEF Live, Called

(* What a call does: it puts only for an upload that is complete, and the call
   that answers ends an upload. *)
LEMMA HandleCalled ==
    ASSUME NEW k \in Live
    PROVE  /\ Handle(k) \in Called
           /\ Admitted(k) => Admitted(Handle(k))
           /\ UploadsByPut(k) => UploadsByPut(Handle(k))
           /\ UploadsByPut(k) /\ Handle(k).status # 0 => ~Handle(k).upload
           /\ Puts(k) => k.upload
  <1> DEFINE m == k.request.method
  <1>1. CASE m = "OPTIONS"
    <2>1. Handle(k) = [k EXCEPT !.status = 200]
      BY <1>1 DEF Handle
    <2>2. Handle(k) \in Called /\ Handle(k).request = k.request /\ (Handle(k).upload <=> k.upload)
      BY <2>1, StatusSet DEF Live
    <2> QED BY <1>1, <2>2 DEF Admitted, UploadsByPut, Puts
  <1>2. CASE m = "other"
    <2>1. Handle(k) = [k EXCEPT !.status = 405]
      BY <1>2 DEF Handle
    <2>2. Handle(k) \in Called /\ Handle(k).request = k.request /\ (Handle(k).upload <=> k.upload)
      BY <2>1, StatusSet DEF Live
    <2> QED BY <1>2, <2>2 DEF Admitted, UploadsByPut, Puts
  <1>3. CASE m = "GET"
    <2>1. Handle(k) = Get(Begin(k))
      BY <1>3 DEF Handle
    <2>2. /\ Handle(k) \in Called /\ Handle(k).request = k.request
          /\ (Handle(k).upload <=> k.upload)
      BY <1>3, <2>1, BeginCalled, GetCalled
    <2> QED BY <1>3, <2>2 DEF Admitted, UploadsByPut, Puts
  <1>4. CASE m = "PUT" /\ ~k.upload
    <2>1. Handle(k) = Begin(k)
      BY <1>4 DEF Handle
    <2> QED BY <1>4, <2>1, BeginCalled DEF Admitted, UploadsByPut, Puts
  <1>5. CASE m = "PUT" /\ k.upload /\ k.unread # <<>>
    <2>1. Handle(k) = Receive(k)
      BY <1>5 DEF Handle
    <2> QED BY <1>5, <2>1, ReceiveCalled DEF Admitted, UploadsByPut, Puts
  <1>6. CASE /\ m \notin {"OPTIONS", "other", "GET"}
             /\ m = "PUT" => k.upload /\ k.unread = <<>>
    <2>1. Handle(k) = Exec(k)
      BY <1>6 DEF Handle
    <2> QED BY <1>6, <2>1, ExecCalled DEF Admitted, UploadsByPut, Puts
  <1> QED BY <1>1, <1>2, <1>3, <1>4, <1>5, <1>6

(* A configuration is put that is the document in the body, if there is one. *)
LEMMA ParsedIsDocument ==
    ASSUME NEW text \in Seq(Pieces), NEW c \in Parsed(text), c \in Configs
    PROVE  text \in {<<>>, Document(c, Len(text))}
  <1> SUFFICES ASSUME text # <<>> PROVE text = Document(c, Len(text))
    OBVIOUS
  <1>1. text[1] \in Pieces
    BY EmptySeq
  <1>2. c = Parse(text) /\ c # Invalid
    BY ControlAssumption DEF Parsed
  <1>3. text = Document(text[1].config, text[1].size) /\ c = text[1].config
    BY <1>2 DEF Parse
  <1>4. text[1].size \in Nat
    BY <1>1 DEF Pieces
  <1>5. Len(text) = text[1].size
    BY <1>3, <1>4 DEF Document
  <1> QED BY <1>3, <1>5
-----------------------------------------------------------------------------
(* The configuration. *)

LEMMA ReloadInitInv ==
    ASSUME ReloadInit PROVE ReloadTypeOK /\ MinesConfiguredPools
  <1>1. config \in Configs /\ pools = PoolsOf[config] /\ pools \in {PoolsOf[c] : c \in Configs}
    BY DEF ReloadInit
  <1>2. watcher \in BOOLEAN
    BY <1>1, ReloadAssumption DEF ReloadInit
  <1>3. inode = 1 /\ watched \in 0..inode
    BY DEF ReloadInit
  <1>4. edits \in 0..MaxEdits
    BY ReloadAssumption DEF ReloadInit
  <1>5. {event, timer, watcher, rewatch, dropped, unsaved} \subseteq BOOLEAN
    BY <1>2 DEF ReloadInit
  <1>6. file \in Configs /\ loaded = file
    BY DEF ReloadInit
  <1> QED BY <1>1, <1>3, <1>4, <1>5, <1>6 DEF ReloadTypeOK, MinesConfiguredPools

LEMMA NewConfigMines ==
    ASSUME NEW c \in Configs, ReloadTypeOK, MinesConfiguredPools, NewConfig(c)
    PROVE  config' \in Configs /\ pools' = PoolsOf[config'] /\ pools' \in {PoolsOf[d] : d \in Configs}
  BY DEF ReloadTypeOK, MinesConfiguredPools, NewConfig

LEMMA ReloadKept ==
    ASSUME ReloadTypeOK, MinesConfiguredPools, ReloadNext
    PROVE  (ReloadTypeOK /\ MinesConfiguredPools)'
  <1> USE ReloadAssumption
  <1>1. CASE WriteInPlace
    BY <1>1 DEF WriteInPlace, Notify, ReloadTypeOK, MinesConfiguredPools
  <1>2. CASE Replace
    BY <1>2 DEF Replace, ReloadTypeOK, MinesConfiguredPools
  <1>3. CASE FsEvent
    BY <1>3 DEF FsEvent, ReloadTypeOK, MinesConfiguredPools
  <1>4. CASE Load
    <2>1. config' \in Configs /\ pools' = PoolsOf[config'] /\ pools' \in {PoolsOf[d] : d \in Configs}
      <3>1. CASE file \in Configs
        BY <1>4, <3>1, NewConfigMines DEF Load
      <3>2. CASE file \notin Configs
        BY <1>4, <3>2 DEF Load, ReloadTypeOK, MinesConfiguredPools
      <3> QED BY <3>1, <3>2
    <2>2. unsaved' \in BOOLEAN
      BY <1>4 DEF Load, ReloadTypeOK
    <2> QED BY <1>4, <2>1, <2>2 DEF Load, ReloadTypeOK, MinesConfiguredPools
  <1>5. CASE Rewatch
    <2>1. dropped' \in BOOLEAN
      BY <1>5 DEF Rewatch
    <2>2. watched' \in 0..inode'
      BY <1>5 DEF Rewatch, ReloadTypeOK
    <2>3. UNCHANGED <<file, inode, config, pools, loaded, edits>>
      BY <1>5 DEF Rewatch
    <2>4. {event', timer', watcher', rewatch', dropped', unsaved'} \subseteq BOOLEAN
      BY <1>5, <2>1 DEF Rewatch, ReloadTypeOK
    <2> QED BY <2>2, <2>3, <2>4 DEF ReloadTypeOK, MinesConfiguredPools
  <1> QED BY <1>1, <1>2, <1>3, <1>4, <1>5 DEF ReloadNext, Edit

LEMMA PutKept ==
    ASSUME ReloadTypeOK, MinesConfiguredPools, NEW c, Put(c)
    PROVE  /\ (ReloadTypeOK /\ MinesConfiguredPools)'
           /\ \/ UNCHANGED <<config, file>>
              \/ c \in Configs /\ <<config', file'>> \in {<<c, c>>, <<c, file>>, <<config, c>>}
  <1> USE ReloadAssumption
  <1>1. CASE UNCHANGED reloadVars
    BY <1>1 DEF reloadVars, watchVars, ReloadTypeOK, MinesConfiguredPools
  <1>2. CASE /\ c \in Configs
             /\ file' = c
             /\ inode' = IF file = Absent THEN inode + 1 ELSE inode
             /\ event' = (event \/ (watched = inode /\ file # Absent))
             /\ IF WatchOf[c] /\ watcher THEN UNCHANGED <<config, pools>> ELSE NewConfig(c)
             /\ UNCHANGED <<watched, timer, watcher, rewatch, loaded, dropped, unsaved, edits>>
    <2>1. /\ config' \in Configs /\ pools' = PoolsOf[config'] /\ pools' \in {PoolsOf[d] : d \in Configs}
          /\ config' \in {c, config}
      <3>1. CASE NewConfig(c)
        BY <1>2, <3>1, NewConfigMines DEF NewConfig
      <3>2. CASE UNCHANGED <<config, pools>>
        BY <3>2 DEF ReloadTypeOK, MinesConfiguredPools
      <3> QED BY <1>2, <3>1, <3>2
    <2> QED BY <1>2, <2>1 DEF ReloadTypeOK, MinesConfiguredPools
  <1>3. CASE c \in Configs /\ NewConfig(c) /\ unsaved' = TRUE /\ UNCHANGED <<file, inode, watchVars, loaded, dropped, edits>>
    <2>1. config' = c /\ pools' = PoolsOf[config'] /\ pools' \in {PoolsOf[d] : d \in Configs}
      BY <1>3, NewConfigMines DEF NewConfig
    <2> QED BY <1>3, <2>1 DEF watchVars, ReloadTypeOK, MinesConfiguredPools
  <1> QED BY <1>1, <1>2, <1>3 DEF Put

-----------------------------------------------------------------------------
(* The bodies. *)

LEMMA OpenedFinite ==
    ASSUME ConnInv
    PROVE  /\ IsFiniteSet(Opened) /\ IsFiniteSet(Uploading)
           /\ Cardinality(Opened) \in Nat /\ Cardinality(Uploading) \in Nat
           /\ Cardinality(Uploading) <= Cardinality(Opened)
  <1>1. Opened \subseteq Connections /\ Uploading \subseteq Opened
    BY DEF Opened, Uploading
  <1>2. IsFiniteSet(Opened) /\ IsFiniteSet(Uploading) /\ Cardinality(Uploading) <= Cardinality(Opened)
    BY <1>1, ControlAssumption, FS_Subset
  <1> QED BY <1>2, FS_CardinalityType

(* What happens to the sets when one connection changes. *)
LEMMA OneChanges ==
    ASSUME ConnInv, NEW k \in Connections, NEW n \in {Idle} \cup Called,
           conn' = [conn EXCEPT ![k] = n]
    PROVE  /\ Opened' = IF n = Idle THEN Opened \ {k} ELSE Opened \cup {k}
           /\ Uploading' = IF n # Idle /\ n.upload THEN Uploading \cup {k} ELSE Uploading \ {k}
  <1>1. \A j \in Connections : conn'[j] = IF j = k THEN n ELSE conn[j]
    BY DEF ConnInv
  <1> QED BY <1>1 DEF Opened, Uploading

LEMMA OpenKept ==
    ASSUME Inv, NEW k \in Connections, Open(k)
    PROVE  (ConnInv /\ BodiesOwned /\ CountInv)'
  <1>1. PICK r \in Requests : conn' = [conn EXCEPT ![k] = Fresh(r)]
    BY DEF Open
  <1>2. Fresh(r) \in Live /\ ~Fresh(r).upload /\ Fresh(r) # Idle
    BY FreshLive, IdleIsNotCalled DEF Live
  <1>3. ConnInv'
    BY <1>1, <1>2 DEF Inv, ConnInv, Admitted, UploadsByPut
  <1>4. Opened' = Opened \cup {k} /\ Uploading' = Uploading \ {k}
    BY <1>1, <1>2, OneChanges DEF Inv, Live
  <1>5. k \notin Opened /\ k \notin Uploading
    BY DEF Open, Opened, Uploading
  <1>6. Cardinality(Opened') = Cardinality(Opened) + 1 /\ Uploading' = Uploading
    <2>1. Cardinality(Opened \cup {k}) = Cardinality(Opened) + 1
      BY <1>5, OpenedFinite, FS_AddElement DEF Inv
    <2>2. Uploading \ {k} = Uploading
      BY <1>5
    <2> QED BY <1>4, <2>1, <2>2
  <1>7. requests' = requests + 1 /\ requests' \in 0..MaxRequests /\ UNCHANGED <<bodies, aborted>>
    BY ControlAssumption DEF Open, Inv, CountInv
  <1>8. BodiesOwned'
    BY <1>6, <1>7 DEF Inv, BodiesOwned
  <1>9. CountInv'
    BY <1>6, <1>7, OpenedFinite DEF Inv, CountInv
  <1> QED BY <1>3, <1>8, <1>9

LEMMA HandlerKept ==
    ASSUME Inv, NEW k \in Connections, Handler(k)
    PROVE  (ConnInv /\ BodiesOwned /\ CountInv)'
  <1> DEFINE after == Handle(conn[k])
             n == IF Replied(after) THEN Idle ELSE after
  <1>1. conn[k] \in Live /\ Admitted(conn[k]) /\ UploadsByPut(conn[k]) /\ conn[k] # Idle
    BY DEF Handler, Inv, ConnInv
  <1>2. /\ after \in Called /\ Admitted(after) /\ UploadsByPut(after)
        /\ Replied(after) => ~after.upload
    BY <1>1, HandleCalled DEF Replied
  <1>3. conn' = [conn EXCEPT ![k] = n] /\ bodies' = Bodies(conn[k], after) /\ UNCHANGED <<requests, aborted>>
    BY DEF Handler
  <1> HIDE DEF after
  <1>4. after \in {Idle} \cup Live \/ Replied(after)
    BY <1>2 DEF Replied, Live
  <1>5. n \in {Idle} \cup Live /\ (n # Idle => Admitted(n) /\ UploadsByPut(n))
    BY <1>2, <1>4
  <1>6. ConnInv'
    <2> HIDE DEF n
    <2>1. \A j \in Connections : conn'[j] = IF j = k THEN n ELSE conn[j]
      BY <1>3 DEF Inv, ConnInv
    <2> QED BY <1>3, <1>5, <2>1 DEF Inv, ConnInv
  <1>7. n # Idle /\ n.upload <=> after.upload
    BY <1>2, IdleIsNotCalled
  <1> HIDE DEF n
  <1>8. /\ Opened' = IF n = Idle THEN Opened \ {k} ELSE Opened \cup {k}
        /\ Uploading' = IF n # Idle /\ n.upload THEN Uploading \cup {k} ELSE Uploading \ {k}
    BY <1>3, <1>5, OneChanges DEF Inv, Live
  <1>9. k \in Opened /\ (k \in Uploading <=> conn[k].upload)
    BY <1>1 DEF Opened, Uploading
  <1>10. Opened' \subseteq Opened
    BY <1>8, <1>9
  <1>11. Cardinality(Opened') \in Nat /\ Cardinality(Opened') <= Cardinality(Opened)
    BY <1>10, OpenedFinite, FS_Subset, FS_CardinalityType DEF Inv
  <1>12. CountInv' /\ BodiesOwned'
    <2>1. CASE conn[k].upload <=> after.upload
      <3>1. Uploading' = Uploading
        BY <1>7, <1>8, <1>9, <2>1
      <3>2. bodies' = bodies
        BY <1>3, <2>1 DEF Bodies, Inv, CountInv
      <3> QED BY <1>3, <1>11, <3>1, <3>2, OpenedFinite DEF Inv, CountInv, BodiesOwned
    <2>2. CASE ~conn[k].upload /\ after.upload
      <3>1. Cardinality(Uploading') = Cardinality(Uploading) + 1
        BY <1>7, <1>8, <1>9, <2>2, OpenedFinite, FS_AddElement DEF Inv
      <3>2. bodies' = bodies + 1
        BY <1>3, <2>2 DEF Bodies, Inv, CountInv
      <3> QED BY <1>3, <1>11, <3>1, <3>2, OpenedFinite DEF Inv, CountInv, BodiesOwned
    <2>3. CASE conn[k].upload /\ ~after.upload
      <3>1. Cardinality(Uploading') = Cardinality(Uploading) - 1 /\ Cardinality(Uploading') \in Nat
        BY <1>7, <1>8, <1>9, <2>3, OpenedFinite, FS_RemoveElement, FS_CardinalityType DEF Inv
      <3>2. bodies' = bodies - 1
        BY <1>3, <2>3 DEF Bodies, Inv, CountInv
      <3>3. bodies = Cardinality(Uploading) + aborted
        BY DEF Inv, BodiesOwned
      <3> QED BY <1>3, <1>11, <3>1, <3>2, <3>3, OpenedFinite DEF Inv, CountInv, BodiesOwned
    <2> QED BY <2>1, <2>2, <2>3
  <1> QED BY <1>6, <1>12

LEMMA AbortKept ==
    ASSUME Inv, NEW k \in Connections, Abort(k)
    PROVE  (ConnInv /\ BodiesOwned /\ CountInv)'
  <1>1. conn' = [conn EXCEPT ![k] = Idle] /\ conn[k] # Idle /\ UNCHANGED <<requests, bodies>>
    BY DEF Abort
  <1>2. ConnInv'
    BY <1>1 DEF Inv, ConnInv
  <1>3. Opened' = Opened \ {k} /\ Uploading' = Uploading \ {k}
    BY <1>1, OneChanges DEF Inv
  <1>4. k \in Opened /\ (k \in Uploading <=> conn[k].upload)
    BY <1>1 DEF Opened, Uploading
  <1>5. Cardinality(Opened') = Cardinality(Opened) - 1 /\ Cardinality(Opened') \in Nat
    BY <1>3, <1>4, OpenedFinite, FS_RemoveElement, FS_CardinalityType DEF Inv
  <1>6. CASE conn[k].upload
    <2>1. Cardinality(Uploading') = Cardinality(Uploading) - 1 /\ aborted' = aborted + 1
      BY <1>3, <1>4, <1>6, OpenedFinite, FS_RemoveElement DEF Inv, Abort
    <2> QED BY <1>1, <1>2, <1>5, <2>1, OpenedFinite DEF Inv, CountInv, BodiesOwned
  <1>7. CASE ~conn[k].upload
    <2>1. Uploading' = Uploading /\ aborted' = aborted
      BY <1>3, <1>4, <1>7 DEF Abort
    <2> QED BY <1>1, <1>2, <1>5, <2>1, OpenedFinite DEF Inv, CountInv, BodiesOwned
  <1> QED BY <1>6, <1>7

-----------------------------------------------------------------------------
(* The invariant, and what follows from it. *)

LEMMA InitInv == Init => Inv
  <1> SUFFICES ASSUME Init PROVE Inv
    OBVIOUS
  <1>1. \A k \in Connections : conn[k] = Idle
    BY DEF Init
  <1>2. Opened = {} /\ Uploading = {}
    BY <1>1 DEF Opened, Uploading
  <1>3. Cardinality(Opened) = 0 /\ Cardinality(Uploading) = 0
    BY <1>2, FS_EmptySet
  <1>4. ConnInv
    BY <1>1 DEF Init, ConnInv
  <1>5. BodiesOwned /\ CountInv
    BY <1>3, ControlAssumption DEF Init, BodiesOwned, CountInv
  <1> QED BY <1>4, <1>5, ReloadInitInv DEF Init, Inv

LEMMA StepInv == Inv /\ [Next]_vars => Inv'
  <1> SUFFICES ASSUME Inv, [Next]_vars PROVE Inv'
    OBVIOUS
  <1>1. CASE UNCHANGED apiVars
    <2>1. (ConnInv /\ BodiesOwned /\ CountInv)'
      BY <1>1 DEF apiVars, Inv, ConnInv, BodiesOwned, CountInv, Opened, Uploading
    <2>2. CASE ReloadNext
      BY <2>1, <2>2, ReloadKept DEF Inv
    <2>3. CASE UNCHANGED reloadVars
      <3>1. (ReloadTypeOK /\ MinesConfiguredPools)'
        BY <2>3 DEF reloadVars, watchVars, Inv, ReloadTypeOK, MinesConfiguredPools
      <3> QED BY <2>1, <3>1 DEF Inv
    <2>4. ReloadNext \/ UNCHANGED reloadVars \/ \E k \in Connections : Open(k) \/ Handler(k) \/ Abort(k)
      BY DEF Next, vars
    <2>5. CASE \E k \in Connections : Open(k) \/ Handler(k) \/ Abort(k)
      <3>1. PICK k \in Connections : Open(k) \/ Handler(k) \/ Abort(k)
        BY <2>5
      <3>2. UNCHANGED reloadVars \/ \E c : Put(c)
        BY <3>1 DEF Open, Handler, Abort
      <3>3. (ReloadTypeOK /\ MinesConfiguredPools)'
        BY <2>3, <3>2, PutKept DEF Inv
      <3> QED BY <2>1, <3>3 DEF Inv
    <2> QED BY <2>2, <2>3, <2>4, <2>5
  <1>2. ASSUME NEW k \in Connections, Open(k) \/ Handler(k) \/ Abort(k)
        PROVE  Inv'
    <2>1. (ConnInv /\ BodiesOwned /\ CountInv)'
      BY <1>2, OpenKept, HandlerKept, AbortKept
    <2>2. UNCHANGED reloadVars \/ \E c : Put(c)
      BY <1>2 DEF Open, Handler, Abort
    <2>3. (ReloadTypeOK /\ MinesConfiguredPools)'
      <3>1. CASE UNCHANGED reloadVars
        BY <3>1 DEF reloadVars, watchVars, Inv, ReloadTypeOK, MinesConfiguredPools
      <3> QED BY <2>2, <3>1, PutKept DEF Inv
    <2> QED BY <2>1, <2>3 DEF Inv
  <1> QED BY <1>1, <1>2 DEF Next, vars

(* Inv holds in every state of the API and the reloading. *)
THEOREM Invariance == Spec => []Inv
  BY InitInv, StepInv, PTL DEF Spec

(* Every variable is in its type, and no more uploads are broken off than
   requests are made. *)
THEOREM TypeCorrect == Spec => []TypeOK
  <1>1. Inv => TypeOK
    BY OpenedFinite DEF Inv, CountInv, TypeOK
  <1> QED BY <1>1, Invariance, PTL

(* Network::onConfigChanged: the pools that are mined for are those of the
   configuration in force, however often it is reloaded or put. *)
THEOREM MinesConfigured == Spec => []MinesConfiguredPools
  <1>1. Inv => MinesConfiguredPools
    BY DEF Inv
  <1> QED BY <1>1, Invariance, PTL

(* HttpRequest::~HttpRequest: a body is deleted once, by the call that answers,
   and only the uploads that a client breaks off keep theirs. *)
THEOREM BodiesAccounted == Spec => []BodiesOwned
  <1>1. Inv => BodiesOwned
    BY DEF Inv
  <1> QED BY <1>1, Invariance, PTL

(* HttpRequest::process: only a document that was sent in full, with the token,
   to an API that is not restricted, changes the configuration or its file; or
   a body that is empty. *)
THEOREM PutsOnlyDocuments == Spec => OnlyWhatWasPut
  <1> DEFINE A == \A k \in Connections : conn'[k] # conn[k] /\ conn[k] # Idle =>
           \/ UNCHANGED <<config, file>>
           \/ /\ conn[k].request.token = Token /\ ~Restricted
              /\ \E c \in Configs :
                    /\ conn[k].body \in {<<>>, Document(c, Len(conn[k].body))}
                    /\ <<config', file'>> \in {<<c, c>>, <<c, file>>, <<config, c>>}
  <1>1. Inv /\ [Next]_vars => [A]_vars
    <2> SUFFICES ASSUME Inv, Next, NEW k \in Connections, conn'[k] # conn[k], conn[k] # Idle
                 PROVE  \/ UNCHANGED <<config, file>>
                        \/ /\ conn[k].request.token = Token /\ ~Restricted
                           /\ \E c \in Configs :
                                 /\ conn[k].body \in {<<>>, Document(c, Len(conn[k].body))}
                                 /\ <<config', file'>> \in {<<c, c>>, <<c, file>>, <<config, c>>}
      BY DEF vars
    <2>1. PICK j \in Connections : Open(j) \/ Handler(j) \/ Abort(j)
      BY DEF Next, apiVars
    <2>2. CASE Open(j) \/ Abort(j)
      BY <2>2 DEF Open, Abort, reloadVars
    <2>3. CASE Handler(j)
      <3>1. j = k
        BY <2>3 DEF Handler, Inv, ConnInv
      <3>2. CASE ~Puts(conn[k])
        BY <2>3, <3>1, <3>2 DEF Handler, reloadVars
      <3>3. CASE Puts(conn[k])
        <4>1. PICK c \in Parsed(conn[k].body) : Put(c)
          BY <2>3, <3>1, <3>3 DEF Handler
        <4>2. conn[k] \in Live /\ Admitted(conn[k])
          BY DEF Inv, ConnInv
        <4>3. conn[k].request.token = Token /\ ~Restricted
          BY <3>3, <4>2, HandleCalled DEF Admitted
        <4>4. CASE UNCHANGED <<config, file>>
          BY <4>4
        <4>5. CASE c \in Configs /\ <<config', file'>> \in {<<c, c>>, <<c, file>>, <<config, c>>}
          <5>1. conn[k].body \in Seq(Pieces)
            BY <4>2 DEF Live, Called
          <5>2. conn[k].body \in {<<>>, Document(c, Len(conn[k].body))}
            BY <4>1, <4>5, <5>1, ParsedIsDocument
          <5> QED BY <4>3, <4>5, <5>2
        <4> QED BY <4>1, <4>4, <4>5, PutKept DEF Inv
      <3> QED BY <3>2, <3>3
    <2> QED BY <2>1, <2>2, <2>3
  <1> QED BY <1>1, Invariance, PTL DEF Spec, OnlyWhatWasPut
=============================================================================
