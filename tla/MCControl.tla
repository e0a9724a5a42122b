----------------------------- MODULE MCControl -----------------------------
(* Two configurations with other pools and a third that differs in the option
   `watch'; requests that are put in parts, too long, and refused. *)
EXTENDS Control

MCConfigs == {"a", "b", "b, no watch"}
MCPoolsOf == [c \in MCConfigs |-> IF c = "a" THEN "pool a" ELSE "pool b"]
MCWatchOf == [c \in MCConfigs |-> c # "b, no watch"]

Request(method, url, token, json, parts) ==
    [method |-> method, url |-> url, token |-> token, json |-> json, parts |-> parts]
PutOf(c, token) == Request("PUT", "/1/config", token, TRUE, <<SubSeq(Document(c, 2), 1, 1), SubSeq(Document(c, 2), 2, 2)>>)

MCRequests ==
    {Request("GET", "/1/config", "secret", FALSE, <<>>),
     Request("other", "/", NoToken, FALSE, <<>>),
     PutOf("a", "secret"), PutOf("b", "wrong"),
     Request("PUT", "/1/config", "secret", TRUE, <<>>),
     Request("PUT", "/1/config", "secret", TRUE, <<Document("b, no watch", 1)>>),
     Request("PUT", "/1/config", "secret", TRUE, <<Document("b", 2), Document("b", 1)>>)}
=============================================================================
