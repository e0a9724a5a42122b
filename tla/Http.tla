-------------------------------- MODULE Http --------------------------------
(***************************************************************************)
(* The requests of the HTTP API: common/api/HttpRequest.cpp, HttpBody.h    *)
(* and api/ApiRouter.cpp.  microhttpd calls Httpd::handler once when the   *)
(* headers are complete, once for every part of a body, and once at its    *)
(* end; every call makes a new HttpRequest, and only the body lives on     *)
(* between them.  A text is a sequence of pieces that name the document    *)
(* they are a part of.                                                     *)
(***************************************************************************)
EXTENDS Naturals, Sequences

CONSTANTS
    Token,          \* the access token of the configuration, or NoToken
    NoToken,
    Restricted,     \* its option `restricted'
    Capacity        \* sizeof(HttpBody::m_data), in pieces

ASSUME HttpAssumption == Restricted \in BOOLEAN /\ Capacity \in Nat

Invalid == "invalid"        \* a text that is no configuration

Document(config, size) == [i \in 1..size |-> [config |-> config, size |-> size, part |-> i]]

(* ConfigLoader::loadFromJSON: only a whole document is a configuration. *)
Parse(text) ==
    IF text # <<>> /\ text = Document(text[1].config, text[1].size) THEN text[1].config ELSE Invalid

(* A connection: the request, what microhttpd has still to hand over of its
   body, *con_cls, and the answer. *)
Fresh(request) ==
    [request |-> request, unread |-> request.parts, upload |-> FALSE, body |-> <<>>, status |-> 0]

Replied(k) == k.status # 0

(* Mutant of Auth: any token will do. *)
AuthAnyToken(request) ==
    IF Token = NoToken THEN 200 ELSE IF request.token = NoToken THEN 401 ELSE 200

(* auth() compares the header with the token. *)
Auth(request) ==
    IF Token = NoToken THEN 200
    ELSE IF request.token = NoToken THEN 401
    ELSE IF request.token = Token THEN 200
    ELSE 403

IsRestricted == Restricted \/ Token = NoToken

(* HttpBody::write keeps a place for the terminating zero. *)
Fits(body, part) == Len(part) <= Capacity - Len(body) - 1
Write(body, part) == body \o part

(* process() of the first call: headers only. *)
Begin(k) ==
    IF Auth(k.request) # 200 THEN [k EXCEPT !.status = Auth(k.request)]
    ELSE IF IsRestricted /\ k.request.method # "GET" THEN [k EXCEPT !.status = 403]
    ELSE IF k.request.method = "GET" THEN k
    ELSE IF ~k.request.json THEN [k EXCEPT !.status = 415]
    ELSE [k EXCEPT !.upload = TRUE]

(* Mutant of Receive: a body that is too long is not freed. *)
ReceiveLeaks(k) ==
    IF Fits(k.body, Head(k.unread))
    THEN [k EXCEPT !.body = Write(@, Head(k.unread)), !.unread = Tail(@)]
    ELSE [k EXCEPT !.status = 413]

(* process() of a call with a part of the body. *)
Receive(k) ==
    IF Fits(k.body, Head(k.unread))
    THEN [k EXCEPT !.body = Write(@, Head(k.unread)), !.unread = Tail(@)]
    ELSE [k EXCEPT !.status = 413, !.upload = FALSE]

(* ApiRouter::get *)
Get(k) == [k EXCEPT !.status = IF @ # 0 THEN @
                               ELSE IF k.request.url = "/1/config" /\ IsRestricted THEN 403 ELSE 200]

(* ApiRouter::exec: what is put is not looked at for the answer. *)
Exec(k) ==
    [k EXCEPT !.status = IF k.request.method = "PUT" /\ k.request.url = "/1/config" THEN 200 ELSE 404,
              !.upload = FALSE]

(* One call of Httpd::handler. *)
Handle(k) ==
    CASE k.request.method = "OPTIONS" -> [k EXCEPT !.status = 200]
      [] k.request.method = "other"   -> [k EXCEPT !.status = 405]
      [] k.request.method = "GET"     -> Get(Begin(k))
      [] k.request.method = "PUT" /\ ~k.upload -> Begin(k)
      [] k.request.method = "PUT" /\ k.upload /\ k.unread # <<>> -> Receive(k)
      [] OTHER -> Exec(k)

(* The call in which the configuration is put. *)
Puts(k) == Handle(k).status = 200 /\ k.request.method = "PUT"
=============================================================================
