------------------------------ MODULE MCEngine ------------------------------
(* The server process for TLC: its graceful stop with the cron jobs, the way *)
(* of HTTP requests to their handlers, the decoding of JSON parameters and   *)
(* the log file. They share no state, so each behaviour is one of one part,  *)
(* chosen by Init, the others standing still in their initial states, where  *)
(* nothing it is fair to is enabled.                                         *)
EXTENDS GracefulStop, HttpGate, JsonDecode, FileLog, TLC

VARIABLE part

CONSTANTS sweep, r1, r2, srv, grpc, call   \* GracefulStop, HttpGate

allVars == <<part, vars, httpVars, jsonVars, logVars>>

Alone(name, step, others) == part = name /\ step /\ UNCHANGED <<part, others>>

MCInit ==
  /\ part \in {"engine", "http", "json", "log"}
  /\ Init /\ JsonInit /\ LogInit
  /\ HttpInit /\ (part # "http" => ~ServiceDisabled /\ ~httpNeedCheckACL /\ ~unRegisterHandle)

MCNext ==
  \/ Alone("engine", Next, <<httpVars, jsonVars, logVars>>)
  \/ Alone("http", HttpNext, <<vars, jsonVars, logVars>>)
  \/ Alone("json", JsonNext, <<vars, httpVars, logVars>>)
  \/ Alone("log", LogNext, <<vars, httpVars, jsonVars>>)

MCSpec ==
  /\ MCInit
  /\ [][MCNext]_allVars
  /\ EngineFairness

-----------------------------------------------------------------------------
OwnNames == [t \in Task |-> t]

\* Requests: to every registered kind of URL with every kind of action, with and without
\* access, with parameters that bind or not.
Get(u, a) == [url |-> u, method |-> "GET", action |-> a, acl |-> "ok", binds |-> TRUE]
MCUrls == {<<>>, <<"login">>, <<"ping">>, <<"gone">>}
MCMessage ==
  {[Get(u, a) EXCEPT !.method = method] :
     u \in MCUrls, a \in {"", "Ping", "Login", "New"}, method \in {"GET", "POST"}}
  \union {[Get(u, "Login") EXCEPT !.acl = acl, !.binds = binds] :
     u \in MCUrls \union {<<"user", "1">>}, acl \in {"ok", "deny", "noright"}, binds \in BOOLEAN}
  \union {[Get(u, "") EXCEPT !.method = method] :
     u \in {<<"gone">>, <<"user", "1">>, <<"user", "all">>, <<"team", "all">>},
     method \in {"GET", "PUT", "OPTIONS"}}
MCUrlEntry == {<<"login">>, <<"ping">>}
MCExcludedUrl == {<<"ping">>, <<"gone">>, <<"user", "all">>}

\* Two entries match "team/all", one without an id wins for "user/all", and the second
\* call for "team/:id" replaces the first.
MCRestCalls ==
  <<[url |-> <<"user", ":id">>, method |-> "GET"], [url |-> <<"user", "all">>, method |-> ""],
    [url |-> <<"team", ":id">>, method |-> "GET"], [url |-> <<":kind", "all">>, method |-> ""],
    [url |-> <<"team", ":id">>, method |-> "PUT"]>>

-----------------------------------------------------------------------------
\* Structs and objects: a gw_array field beside one whose name ends in its own, in both
\* orders; an array field that is no slice; every other kind of field.
F(name, kind, array, default) == [name |-> name, kind |-> kind, array |-> array, default |-> default]
V(type, n) == [type |-> type, n |-> n]
Key(name, upper, index) == [name |-> name, upper |-> upper, index |-> index]
Ids == F("id", "slice", TRUE, None)
MCStruct ==
  {<<Ids, F("user_id", "slice", TRUE, None)>>, <<F("user_id", "slice", TRUE, None), Ids>>,
   <<Ids, F("user_id", "int", FALSE, V("numeric", 1))>>,
   <<F("id", "uint", FALSE, None), F("user_id", "string", FALSE, None)>>,
   <<F("id", "bool", FALSE, None), F("user_id", "pointer", FALSE, None)>>}
MCKeys ==
  {Key("id", FALSE, 0), Key("id", TRUE, 0), Key("id", FALSE, 1), Key("id", FALSE, 2),
   Key("user_id", FALSE, 0), Key("user_id", FALSE, 1)}
MCValues ==
  {V("number", n) : n \in {-1, 1, 4}} \union {V("numeric", n) : n \in {1, 4}}
    \union {V("word", 0), V("bool", 1), V("null", 0), V("list", <<>>),
            V("list", <<V("number", 0), V("numeric", 1)>>)}
MCInput ==
  UNION {[K -> MCValues] : K \in {S \in SUBSET MCKeys : Cardinality(S) <= 2}}
    \union UNION {[K -> {V("number", 0), V("number", 1), V("numeric", 1)}] :
                    K \in {S \in SUBSET MCKeys : Cardinality(S) = 3}}
MCEndsIn == {<<"user_id", "id">>}
=============================================================================
