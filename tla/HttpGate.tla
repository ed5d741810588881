------------------------------ MODULE HttpGate ------------------------------
(***************************************************************************)
(* How the HTTP API of package api lets a request through to its handler:  *)
(* the access control, the binding of its parameters and the gate that     *)
(* turns requests away while the service is not ready. There are five ways *)
(* to a handler, each a composition of the same checks: a registered URL,  *)
(* an action posted to "/", an action nobody registered, an unknown URL    *)
(* and a RESTful URL. Requests run concurrently with each other and with   *)
(* SetServiceReady.                                                        *)
(*                                                                         *)
(* Left out: the contents of parameters and answers, the form of an answer *)
(* (JSONP, escaping, headers), log, audit and metrics.                     *)
(***************************************************************************)
EXTENDS Naturals, Sequences

CONSTANTS
  Call,            \* requests under way at the same time
  Message,         \* what a client may send, see Arrive
  UrlEntry,        \* URLs in httpEntry, without "/"
  ActionEntry,     \* actions in httpActionEntry
  RestCalls,       \* the calls of AddRESTFulAPIHttpHandle4, in order
  Wild,            \* parts of a RESTful URL that begin with ":"
  ExcludedUrl,     \* ExcludeInitServiceDisabled, its URLs
  ExcludedAction   \* and its actions

\* A URL is a sequence of parts.
ASSUME MessageAssumption == \A q \in Message : q.url \in Seq(STRING)
ASSUME ActionAssumption == "" \notin ExcludedAction
ASSUME RestCallsAssumption == \A i \in DOMAIN RestCalls : RestCalls[i].url \in Seq(STRING)

VARIABLES
  ServiceDisabled,
  httpNeedCheckACL,   \* and httpCheckACL # nil
  unRegisterHandle,   \* whether there is one
  stage,              \* "idle", "accepted", "running", "answered"
  message,            \* message[r]: what r asks for
  handler,            \* handler[r]: the way r took to its handler
  answer,             \* answer[r]: what r was told
  seenDisabled        \* the values of ServiceDisabled since r was accepted

httpVars == <<ServiceDisabled, httpNeedCheckACL, unRegisterHandle, stage, message, handler,
              answer, seenDisabled>>

Root == <<>>   \* the URL "/"

\* Entries are kept by URL: the last call for a URL replaces its entry, whatever the
\* method ("" is any) of the one before.
restFulHttpEntry ==
  {RestCalls[i] : i \in {i \in DOMAIN RestCalls :
                            \A j \in DOMAIN RestCalls : RestCalls[j].url = RestCalls[i].url => j <= i}}

HttpInit ==
  /\ ServiceDisabled \in BOOLEAN
  /\ httpNeedCheckACL \in BOOLEAN /\ unRegisterHandle \in BOOLEAN
  /\ stage = [r \in Call |-> "idle"]
  /\ message = [r \in Call |-> [url |-> Root]]
  /\ handler = [r \in Call |-> "none"]
  /\ answer = [r \in Call |-> "none"]
  /\ seenDisabled = [r \in Call |-> {}]

-----------------------------------------------------------------------------
SameParts(e, url) ==
  Len(e.url) = Len(url) /\ \A i \in DOMAIN url : e.url[i] = url[i] \/ e.url[i] \in Wild

HasId(e) == \E i \in DOMAIN e.url : e.url[i] \in Wild

\* The entries that may be returned: one without an id first; of several with an id none.
isExistRESTFul(url, method) ==
  LET matched == {e \in restFulHttpEntry : e.method \in {"", method} /\ SameParts(e, url)}
      noId == {e \in matched : ~HasId(e)}
  IN  IF noId # {} THEN noId
      ELSE IF \E e \in matched : matched = {e} THEN matched
      ELSE {}

\* gin's router. RESTful URLs are registered for every method, the others for two.
IsEntry(q) == q.url \in UrlEntry \union {Root} /\ q.method \in {"GET", "POST"}
IsRestful(q) == ~IsEntry(q) /\ \E e \in restFulHttpEntry : SameParts(e, q.url)
IsNoRoute(q) == ~IsEntry(q) /\ ~IsRestful(q)

-----------------------------------------------------------------------------
\* What the access control says of a request is its acl: "ok", "deny" or "noright".
isACLDeny(q) == httpNeedCheckACL /\ q.acl # "ok"

isCheckServiceNotReady(actions, urls) ==
  /\ ServiceDisabled
  /\ actions \cap ExcludedAction = {}
  /\ urls \cap ExcludedUrl = {}

Reply(r, body) ==
  /\ answer' = [answer EXCEPT ![r] = body]
  /\ stage' = [stage EXCEPT ![r] = "answered"]
  /\ UNCHANGED <<ServiceDisabled, httpNeedCheckACL, unRegisterHandle, message, handler, seenDisabled>>

EnterHandler(r, way) ==
  /\ handler' = [handler EXCEPT ![r] = way]
  /\ stage' = [stage EXCEPT ![r] = "running"]
  /\ UNCHANGED <<ServiceDisabled, httpNeedCheckACL, unRegisterHandle, message, answer, seenDisabled>>

Denied(q) == IF q.acl = "deny" THEN "deny" ELSE "noright"

\* A request is [url, method, action, acl, binds]: the action is the parameter Action, ""
\* if there is none, and binds says whether its parameters fit the handler's struct.
Arrive(r) ==
  /\ stage[r] = "idle"
  /\ \E q \in Message : message' = [message EXCEPT ![r] = q]
  /\ stage' = [stage EXCEPT ![r] = "accepted"]
  /\ seenDisabled' = [seenDisabled EXCEPT ![r] = {ServiceDisabled}]
  /\ UNCHANGED <<ServiceDisabled, httpNeedCheckACL, unRegisterHandle, handler, answer>>

\* A registered URL other than "/".
httpHandleProxy(r) ==
  LET q == message[r]
  IN  /\ stage[r] = "accepted" /\ IsEntry(q) /\ q.url # Root
      /\ \/ isACLDeny(q) /\ Reply(r, Denied(q))
         \/ ~isACLDeny(q) /\ ~q.binds /\ Reply(r, "bind error")
         \/ /\ ~isACLDeny(q) /\ q.binds
            /\ IF isCheckServiceNotReady({}, {q.url}) THEN Reply(r, "too early") ELSE EnterHandler(r, "url")

\* An action posted to "/". The struct of "/" requires one: without it binding fails.
dispatchRegistered(r) ==
  LET q == message[r]
  IN  \/ isACLDeny(q) /\ Reply(r, Denied(q))
      \/ ~isACLDeny(q) /\ ~q.binds /\ Reply(r, "bind error")
      \/ /\ ~isACLDeny(q) /\ q.binds
         /\ IF isCheckServiceNotReady({q.action}, {}) THEN Reply(r, "too early")
            ELSE EnterHandler(r, "action")

\* Mutated form: an action nobody registered is not asked whether the service is ready.
dispatchUnregisteredAtOnce(r) ==
  \/ ~unRegisterHandle /\ Reply(r, "missing action")
  \/ unRegisterHandle /\ isACLDeny(message[r]) /\ Reply(r, Denied(message[r]))
  \/ unRegisterHandle /\ ~isACLDeny(message[r]) /\ EnterHandler(r, "unregistered")

dispatchUnregistered(r) ==
  LET q == message[r]
  IN  \/ ~unRegisterHandle /\ Reply(r, "missing action")
      \/ unRegisterHandle /\ isACLDeny(q) /\ Reply(r, Denied(q))
      \/ /\ unRegisterHandle /\ ~isACLDeny(q)
         /\ IF isCheckServiceNotReady({q.action}, {Root}) THEN Reply(r, "too early")
            ELSE EnterHandler(r, "unregistered")

dispatchAction(r) ==
  LET q == message[r]
  IN  /\ stage[r] = "accepted" /\ IsEntry(q) /\ q.url = Root
      /\ \/ q.action = "" /\ Reply(r, "bind error")
         \/ q.action \in ActionEntry /\ dispatchRegistered(r)
         \/ q.action \notin ActionEntry \union {""} /\ dispatchUnregistered(r)

\* An unknown URL: here the gate comes before the access control. The body of a POST has
\* not been prepared for binding, so its action stays unknown.
NoRoute(r) ==
  LET q == message[r]
      actions == IF q.method = "POST" THEN {} ELSE {q.action} \ {""}
  IN  /\ stage[r] = "accepted" /\ IsNoRoute(q)
      /\ \/ q.method = "OPTIONS" /\ Reply(r, "options")
         \/ q.method # "OPTIONS" /\ ~unRegisterHandle /\ Reply(r, "not found")
         \/ /\ q.method # "OPTIONS" /\ unRegisterHandle
            /\ IF isCheckServiceNotReady(actions, {q.url}) THEN Reply(r, "too early")
               ELSE IF isACLDeny(q) THEN Reply(r, Denied(q))
               ELSE EnterHandler(r, "no route")

\* A RESTful URL: no access control. The gate looks for the URL as it was registered.
restFullHttpHandleProxy(r) ==
  LET q == message[r]
      found == isExistRESTFul(q.url, q.method)
  IN  /\ stage[r] = "accepted" /\ IsRestful(q)
      /\ \/ found = {} /\ Reply(r, "nothing")
         \/ \E e \in found :
              \/ ~q.binds /\ Reply(r, "bind error")
              \/ /\ q.binds
                 /\ IF isCheckServiceNotReady({}, {e.url}) THEN Reply(r, "too early")
                    ELSE EnterHandler(r, "restful")

\* The handler runs and its result is sent.
Handle(r) == stage[r] = "running" /\ Reply(r, "result")

SetServiceReady(ready) ==
  /\ ServiceDisabled' = ~ready
  /\ seenDisabled' = [r \in Call |->
               IF stage[r] = "accepted" THEN seenDisabled[r] \union {~ready} ELSE seenDisabled[r]]
  /\ UNCHANGED <<httpNeedCheckACL, unRegisterHandle, stage, message, handler, answer>>

HttpNext ==
  \/ \E ready \in BOOLEAN : SetServiceReady(ready)
  \/ \E r \in Call :
       \/ Arrive(r)
       \/ httpHandleProxy(r)
       \/ dispatchAction(r)
       \/ NoRoute(r)
       \/ restFullHttpHandleProxy(r)
       \/ Handle(r)

HttpSpec == HttpInit /\ [][HttpNext]_httpVars

-----------------------------------------------------------------------------
Answer == {"none", "result", "bind error", "deny", "noright", "too early", "missing action",
           "not found", "options", "nothing"}

HttpTypeOK ==
  /\ ServiceDisabled \in BOOLEAN
  /\ httpNeedCheckACL \in BOOLEAN /\ unRegisterHandle \in BOOLEAN
  /\ stage \in [Call -> {"idle", "accepted", "running", "answered"}]
  /\ message \in [Call -> Message \union {[url |-> Root]}]
  /\ \A r \in Call : stage[r] # "idle" => message[r] \in Message
  /\ answer \in [Call -> Answer]
  /\ handler \in [Call -> {"none", "url", "action", "unregistered", "no route", "restful"}]
  /\ seenDisabled \in [Call -> SUBSET BOOLEAN]

\* The handler of q is one of those that must serve although the service is not ready.
Exempt(q) ==
  IF IsRestful(q) THEN \E e \in isExistRESTFul(q.url, q.method) : e.url \in ExcludedUrl
  ELSE \/ q.url \in ExcludedUrl /\ ~(IsEntry(q) /\ q.url = Root /\ q.action \in ActionEntry)
       \/ q.action \in ExcludedAction /\ (IsEntry(q) => q.url = Root)

\* A handler runs only for a request the access control lets pass, RESTful URLs apart,
\* and only if the service was ready at some moment since the request came or the handler
\* is exempt. A request told to come back later met the service disabled and is not
\* exempt, unless it was posted to an unknown URL, where its action is not found.
Gated ==
  \A r \in Call :
    /\ handler[r] # "none" =>
         /\ handler[r] # "restful" /\ httpNeedCheckACL => message[r].acl = "ok"
         /\ FALSE \in seenDisabled[r] \/ Exempt(message[r])
    /\ answer[r] = "too early" =>
         /\ TRUE \in seenDisabled[r]
         /\ ~Exempt(message[r]) \/ (IsNoRoute(message[r]) /\ message[r].method = "POST")
=============================================================================
