----------------------------- MODULE HttpProofs -----------------------------
(***************************************************************************)
(* What HttpGate, JsonDecode and HttpClient guarantee for any requests,    *)
(* objects and helpers: no way to a handler leaves out the access control  *)
(* or the gate, every field of a bound object is the value given for it,   *)
(* and every request of the client goes out as its options mean it.        *)
(***************************************************************************)
EXTENDS HttpGate, HttpClient, JsonDecode, SequenceTheorems, TLAPS

-----------------------------------------------------------------------------
(* The gate.                                                               *)

\* A request that waits has met nothing yet, and what it has seen of ServiceDisabled
\* includes its present value.
Waiting ==
  \A r \in Call :
    /\ stage[r] \in {"idle", "accepted"} => handler[r] = "none" /\ answer[r] = "none"
    /\ stage[r] = "running" => answer[r] = "none"
    /\ stage[r] = "accepted" => ServiceDisabled \in seenDisabled[r]

GateInv == HttpTypeOK /\ Waiting /\ Gated

-----------------------------------------------------------------------------
(* RESTful URLs.                                                           *)

LEMMA EntryUrls == \A e \in restFulHttpEntry : e.url \in Seq(STRING)
BY RestCallsAssumption DEF restFulHttpEntry

\* Of several entries that may be returned all have one URL, so that the gate says the
\* same of each.
LEMMA OneUrl ==
  ASSUME NEW q \in Message, NEW e \in isExistRESTFul(q.url, q.method),
         NEW f \in isExistRESTFul(q.url, q.method)
  PROVE  e.url = f.url
<1> DEFINE matched == {x \in restFulHttpEntry : x.method \in {"", q.method} /\ SameParts(x, q.url)}
           noId == {x \in matched : ~HasId(x)}
<1>1. q.url \in Seq(STRING)
  BY MessageAssumption
<1>2. ASSUME NEW x \in noId PROVE x.url = q.url
  <2>1. x.url \in Seq(STRING) /\ Len(x.url) = Len(q.url)
    BY EntryUrls DEF SameParts
  <2>2. DOMAIN x.url = 1 .. Len(x.url) /\ DOMAIN q.url = 1 .. Len(x.url)
    BY <1>1, <2>1, LenProperties
  <2>3. \A i \in 1 .. Len(x.url) : x.url[i] = q.url[i]
    BY <2>2 DEF SameParts, HasId
  <2> QED
    BY <1>1, <2>1, <2>3, SeqEqual
<1>3. isExistRESTFul(q.url, q.method) =
        IF noId # {} THEN noId
        ELSE IF \E x \in matched : matched = {x} THEN matched
        ELSE {}
  BY DEF isExistRESTFul
<1> HIDE DEF matched, noId
<1>4. CASE noId # {}
  BY <1>2, <1>3, <1>4
<1>5. CASE noId = {}
  BY <1>3, <1>5
<1> QED
  BY <1>4, <1>5

-----------------------------------------------------------------------------
(* The five ways.                                                          *)

\* What a request meets in the gate is right.
EnterRight(r) ==
  /\ ~IsRestful(message[r]) => ~isACLDeny(message[r])
  /\ ServiceDisabled => Exempt(message[r])

TurnRight(r) ==
  /\ ServiceDisabled
  /\ ~Exempt(message[r]) \/ (IsNoRoute(message[r]) /\ message[r].method = "POST")

Ways == {"url", "action", "unregistered", "no route", "restful"}

\* A way ends in an answer or in a handler, and is right in both.
Ends(r) ==
  \/ \E body \in Answer : Reply(r, body) /\ (body = "too early" => TurnRight(r))
  \/ \E way \in Ways : /\ EnterHandler(r, way)
                       /\ EnterRight(r)
                       /\ way = "restful" <=> IsRestful(message[r])

LEMMA AnswerEnds ==
  ASSUME NEW r, NEW body \in Answer, Reply(r, body), body # "too early"
  PROVE  Ends(r)
BY DEF Ends

LEMMA DeniedEnds ==
  ASSUME NEW r, NEW q, Reply(r, Denied(q))
  PROVE  Ends(r)
<1>1. Denied(q) # "too early" /\ Denied(q) \in Answer
  BY DEF Denied, Answer
<1> QED
  BY <1>1, AnswerEnds

\* The gate at the end of a way.
LEMMA GateEnds ==
  ASSUME NEW r, NEW way \in Ways, NEW shut \in BOOLEAN,
         IF shut THEN Reply(r, "too early") ELSE EnterHandler(r, way),
         shut => TurnRight(r),
         ~shut => EnterRight(r),
         way = "restful" <=> IsRestful(message[r])
  PROVE  Ends(r)
BY DEF Ends, Answer

LEMMA NotReadyBoolean == \A actions, urls : isCheckServiceNotReady(actions, urls) \in BOOLEAN
BY DEF isCheckServiceNotReady

LEMMA UrlEnds == ASSUME NEW r \in Call, httpHandleProxy(r) PROVE Ends(r)
<1> DEFINE q == message[r]
<1>1. IsEntry(q) /\ q.url # Root /\ ~IsRestful(q)
  BY DEF httpHandleProxy, IsRestful
<1>2. Exempt(q) <=> q.url \in ExcludedUrl
  BY <1>1 DEF Exempt
<1>3. isCheckServiceNotReady({}, {q.url}) <=> ServiceDisabled /\ q.url \notin ExcludedUrl
  BY DEF isCheckServiceNotReady
<1>4. CASE isACLDeny(q) /\ Reply(r, Denied(q))
  BY <1>4, DeniedEnds
<1>5. CASE Reply(r, "bind error")
  BY <1>5, AnswerEnds DEF Answer
<1>6. CASE /\ ~isACLDeny(q)
           /\ IF isCheckServiceNotReady({}, {q.url}) THEN Reply(r, "too early") ELSE EnterHandler(r, "url")
  <2>1. isCheckServiceNotReady({}, {q.url}) => TurnRight(r)
    BY <1>2, <1>3 DEF TurnRight
  <2>2. ~isCheckServiceNotReady({}, {q.url}) => EnterRight(r)
    BY <1>2, <1>3, <1>6 DEF EnterRight
  <2>3. "url" \in Ways /\ ("url" = "restful" <=> IsRestful(message[r]))
    BY <1>1 DEF Ways
  <2> QED
    BY <1>6, <2>1, <2>2, <2>3, GateEnds, NotReadyBoolean
<1> QED
  BY <1>4, <1>5, <1>6 DEF httpHandleProxy

LEMMA ActionEnds == ASSUME NEW r \in Call, dispatchAction(r) PROVE Ends(r)
<1> DEFINE q == message[r]
           registered == isCheckServiceNotReady({q.action}, {})
           unknown == isCheckServiceNotReady({q.action}, {Root})
<1>1. IsEntry(q) /\ q.url = Root /\ ~IsRestful(q)
  BY DEF dispatchAction, IsRestful
<1>2. Exempt(q) <=> \/ Root \in ExcludedUrl /\ q.action \notin ActionEntry
                    \/ q.action \in ExcludedAction
  BY <1>1 DEF Exempt
<1>3. /\ registered <=> ServiceDisabled /\ q.action \notin ExcludedAction
      /\ unknown <=> ServiceDisabled /\ q.action \notin ExcludedAction /\ Root \notin ExcludedUrl
  BY DEF isCheckServiceNotReady
<1>4. /\ "action" \in Ways /\ ("action" = "restful" <=> IsRestful(message[r]))
      /\ "unregistered" \in Ways /\ ("unregistered" = "restful" <=> IsRestful(message[r]))
  BY <1>1 DEF Ways
<1>5. CASE Reply(r, "bind error") \/ Reply(r, "missing action")
  BY <1>5, AnswerEnds DEF Answer
<1>6. CASE Reply(r, Denied(q))
  BY <1>6, DeniedEnds
<1>7. CASE /\ q.action \in ActionEntry /\ ~isACLDeny(q)
           /\ IF registered THEN Reply(r, "too early") ELSE EnterHandler(r, "action")
  <2>1. registered => TurnRight(r)
    BY <1>2, <1>3, <1>7 DEF TurnRight
  <2>2. ~registered => EnterRight(r)
    BY <1>2, <1>3, <1>7 DEF EnterRight
  <2> QED
    BY <1>4, <1>7, <2>1, <2>2, GateEnds, NotReadyBoolean
<1>8. CASE /\ q.action \notin ActionEntry /\ ~isACLDeny(q)
           /\ IF unknown THEN Reply(r, "too early") ELSE EnterHandler(r, "unregistered")
  <2>1. unknown => TurnRight(r)
    BY <1>2, <1>3, <1>8 DEF TurnRight
  <2>2. ~unknown => EnterRight(r)
    BY <1>2, <1>3, <1>8 DEF EnterRight
  <2> QED
    BY <1>4, <1>8, <2>1, <2>2, GateEnds, NotReadyBoolean
<1> QED
  BY <1>5, <1>6, <1>7, <1>8 DEF dispatchAction, dispatchRegistered, dispatchUnregistered

LEMMA NoRouteEnds == ASSUME NEW r \in Call, NoRoute(r) PROVE Ends(r)
<1> DEFINE q == message[r]
           actions == IF q.method = "POST" THEN {} ELSE {q.action} \ {""}
           shut == isCheckServiceNotReady(actions, {q.url})
<1>1. IsNoRoute(q) /\ ~IsEntry(q) /\ ~IsRestful(q)
  BY DEF NoRoute, IsNoRoute
<1>2. Exempt(q) <=> q.url \in ExcludedUrl \/ q.action \in ExcludedAction
  BY <1>1 DEF Exempt
<1>3. shut <=> ServiceDisabled /\ actions \cap ExcludedAction = {} /\ q.url \notin ExcludedUrl
  BY DEF isCheckServiceNotReady
<1>4. /\ actions \cap ExcludedAction # {} => q.action \in ExcludedAction
      /\ q.method # "POST" /\ q.action \in ExcludedAction => actions \cap ExcludedAction # {}
  BY ActionAssumption
<1>5. CASE Reply(r, "options") \/ Reply(r, "not found")
  BY <1>5, AnswerEnds DEF Answer
<1>6. CASE ~shut /\ isACLDeny(q) /\ Reply(r, Denied(q))
  BY <1>6, DeniedEnds
<1>7. CASE shut /\ Reply(r, "too early")
  <2>1. TurnRight(r)
    BY <1>1, <1>2, <1>3, <1>4, <1>7 DEF TurnRight
  <2> QED
    BY <1>7, <2>1 DEF Ends, Answer
<1>8. CASE ~shut /\ ~isACLDeny(q) /\ EnterHandler(r, "no route")
  <2>1. EnterRight(r)
    BY <1>2, <1>3, <1>4, <1>8 DEF EnterRight
  <2>2. "no route" \in Ways /\ ("no route" = "restful" <=> IsRestful(message[r]))
    BY <1>1 DEF Ways
  <2> QED
    BY <1>8, <2>1, <2>2 DEF Ends
<1> QED
  BY <1>5, <1>6, <1>7, <1>8 DEF NoRoute

LEMMA RestfulEnds == ASSUME HttpTypeOK, NEW r \in Call, restFullHttpHandleProxy(r) PROVE Ends(r)
<1> DEFINE q == message[r]
<1>1. IsRestful(q) /\ q \in Message
  BY DEF restFullHttpHandleProxy, HttpTypeOK
<1>2. Exempt(q) <=> \E e \in isExistRESTFul(q.url, q.method) : e.url \in ExcludedUrl
  BY <1>1 DEF Exempt
<1>3. CASE Reply(r, "nothing") \/ Reply(r, "bind error")
  BY <1>3, AnswerEnds DEF Answer
<1>4. ASSUME NEW e \in isExistRESTFul(q.url, q.method),
             IF isCheckServiceNotReady({}, {e.url}) THEN Reply(r, "too early") ELSE EnterHandler(r, "restful")
      PROVE  Ends(r)
  <2>1. Exempt(q) <=> e.url \in ExcludedUrl
    BY <1>1, <1>2, OneUrl
  <2>2. isCheckServiceNotReady({}, {e.url}) <=> ServiceDisabled /\ e.url \notin ExcludedUrl
    BY DEF isCheckServiceNotReady
  <2>3. isCheckServiceNotReady({}, {e.url}) => TurnRight(r)
    BY <2>1, <2>2 DEF TurnRight
  <2>4. ~isCheckServiceNotReady({}, {e.url}) => EnterRight(r)
    BY <1>1, <2>1, <2>2 DEF EnterRight
  <2>5. "restful" \in Ways /\ ("restful" = "restful" <=> IsRestful(message[r]))
    BY <1>1 DEF Ways
  <2> QED
    BY <1>4, <2>3, <2>4, <2>5, GateEnds, NotReadyBoolean
<1> QED
  BY <1>3, <1>4 DEF restFullHttpHandleProxy

-----------------------------------------------------------------------------
(* Every step keeps the invariant.                                         *)

LEMMA InitGate == HttpInit => GateInv
BY DEF Answer, HttpInit, GateInv, HttpTypeOK, Waiting, Gated

LEMMA EndsGated ==
  ASSUME GateInv, NEW r \in Call, stage[r] = "accepted", Ends(r)
  PROVE  GateInv'
<1>1. ServiceDisabled \in seenDisabled[r] /\ handler[r] = "none" /\ answer[r] = "none"
  BY DEF GateInv, Waiting
<1>2. /\ stage \in [Call -> {"idle", "accepted", "running", "answered"}]
      /\ handler \in [Call -> Ways \union {"none"}]
      /\ answer \in [Call -> Answer]
  BY DEF GateInv, HttpTypeOK, Ways
<1>3. ASSUME NEW body \in Answer, Reply(r, body), body = "too early" => TurnRight(r) PROVE GateInv'
  BY <1>1, <1>2, <1>3 DEF Reply, TurnRight, GateInv, HttpTypeOK, Waiting, Gated, Ways
<1>4. ASSUME NEW way \in Ways, EnterHandler(r, way), EnterRight(r), way = "restful" <=> IsRestful(message[r])
      PROVE GateInv'
  BY <1>1, <1>2, <1>4 DEF EnterHandler, EnterRight, isACLDeny, GateInv, HttpTypeOK, Waiting, Gated, Ways
<1> QED
  BY <1>3, <1>4 DEF Ends

LEMMA StepGate == GateInv /\ [HttpNext]_httpVars => GateInv'
<1> SUFFICES ASSUME GateInv, [HttpNext]_httpVars PROVE GateInv'
  OBVIOUS
<1>0. HttpTypeOK /\ Waiting /\ Gated
  BY DEF GateInv
<1>1. CASE UNCHANGED httpVars
  <2>1. HttpTypeOK'
    BY <1>0, <1>1 DEF httpVars, HttpTypeOK, IsNoRoute, IsEntry, IsRestful
  <2>2. Waiting'
    BY <1>0, <1>1 DEF httpVars, Waiting
  <2>3. Gated'
    BY <1>0, <1>1 DEF httpVars, Gated
  <2> QED
    BY <2>1, <2>2, <2>3 DEF GateInv
<1>2. ASSUME NEW ready \in BOOLEAN, SetServiceReady(ready) PROVE GateInv'
  BY <1>0, <1>2 DEF SetServiceReady, GateInv, HttpTypeOK, Waiting, Gated
<1>3. ASSUME NEW r \in Call, Arrive(r) PROVE GateInv'
  <2>1. HttpTypeOK'
    BY <1>0, <1>3 DEF Arrive, HttpTypeOK
  <2>2. Waiting'
    BY <1>0, <1>3 DEF Arrive, HttpTypeOK, Waiting
  <2>3. handler[r] = "none" /\ answer[r] = "none"
    BY <1>0, <1>3 DEF Arrive, Waiting
  <2>4. Gated'
    BY <1>0, <1>3, <2>3 DEF Arrive, HttpTypeOK, Gated
  <2> QED
    BY <2>1, <2>2, <2>4 DEF GateInv
<1>4. ASSUME NEW r \in Call, Handle(r) PROVE GateInv'
  BY <1>0, <1>4 DEF Handle, Reply, Answer, GateInv, HttpTypeOK, Waiting, Gated
<1>5. ASSUME NEW r \in Call,
             httpHandleProxy(r) \/ dispatchAction(r) \/ NoRoute(r) \/ restFullHttpHandleProxy(r)
      PROVE GateInv'
  <2>1. stage[r] = "accepted"
    BY <1>5 DEF httpHandleProxy, dispatchAction, NoRoute, restFullHttpHandleProxy
  <2>2. Ends(r)
    BY <1>0, <1>5, UrlEnds, ActionEnds, NoRouteEnds, RestfulEnds
  <2> QED
    BY <2>1, <2>2, EndsGated
<1> QED
  BY <1>1, <1>2, <1>3, <1>4, <1>5 DEF HttpNext

LEMMA GateInvHolds == HttpSpec => []GateInv
BY InitGate, StepGate, PTL DEF HttpSpec

\* A request under way is one that a client sent, and goes to its handler one of five ways.
THEOREM HttpTypeCorrect == HttpSpec => []HttpTypeOK
BY GateInvHolds, PTL DEF GateInv

\* Whatever URLs and actions are registered and excluded, and however often the service
\* becomes ready or not meanwhile, no request reaches a handler around the access control
\* or the gate, and none is turned away that the gate should let through.
THEOREM GatedHolds == HttpSpec => []Gated
BY GateInvHolds, PTL DEF GateInv

-----------------------------------------------------------------------------
(* JSON objects.                                                           *)

\* What the fields before the one at hand have left of the object: all keys of other
\* names, with their values, and no indexed key that was not there.
MapKept ==
  /\ \A k \in DOMAIN m : k.index > 0 => k \in DOMAIN given
  /\ \A k \in DOMAIN m \union DOMAIN given :
       (\A i \in 1 .. nth - 1 : k.name # fields[i].name) =>
         k \in DOMAIN m /\ k \in DOMAIN given /\ m[k] = given[k]

IsASequence(s) == \E S : s \in Seq(S)

JsonInv ==
  /\ decoded \in {"none", "busy", "ok", "error", "panic"}
  /\ decoded = "none" => nth = 1 /\ out = <<>>
  /\ decoded \in {"busy", "ok"} =>
       /\ fields \in Struct /\ given \in Input
       /\ nth \in Nat \ {0} /\ IsASequence(out) /\ Len(out) = nth - 1
       /\ Clear => \A i \in 1 .. nth - 1 : i \in DOMAIN fields => FieldIsGiven(fields[i], out[i])
  /\ decoded = "ok" => nth > Len(fields)
  /\ decoded = "busy" /\ Clear => MapKept

LEMMA AppendAny ==
  ASSUME NEW s, IsASequence(s), NEW x
  PROVE  /\ IsASequence(Append(s, x)) /\ Len(s) \in Nat /\ Len(Append(s, x)) = Len(s) + 1
         /\ Append(s, x)[Len(s) + 1] = x
         /\ \A i \in 1 .. Len(s) : Append(s, x)[i] = s[i]
<1>1. PICK S : s \in Seq(S)
  BY DEF IsASequence
<1>2. s \in Seq(S \union {x}) /\ x \in S \union {x}
  BY <1>1
<1> QED
  BY <1>2 DEF IsASequence

\* What a value becomes in a field is that value.
LEMMA ValueHolds ==
  ASSUME NEW kind \in {"int", "uint", "string", "bool"}, NEW v, Scalar(v),
         NEW x \in setPropertyValue(kind, v)
  PROVE  Holds(kind, v, x)
<1>1. CASE kind = "int"
  <2>1. x \in toInt(v)
    BY <1>1 DEF setPropertyValue
  <2>2. Signed(v.n) = v.n => x = v.n
    BY <2>1 DEF toInt
  <2> QED
    BY <1>1, <2>2 DEF Holds, Fits
<1>2. CASE kind = "uint"
  <2>1. x \in toUInt(v)
    BY <1>2 DEF setPropertyValue
  <2>2. CASE v.type = "number"
    <3>1. v.n \in Int
      BY <2>2 DEF Scalar
    <3>2. x \in IF v.n < 0 THEN 0 .. 2^Width - 1 ELSE {Unsigned(v.n)}
      BY <2>1, <2>2 DEF toUInt
    <3>3. Fits("uint", v.n) => x = v.n
      BY <3>1, <3>2 DEF Fits
    <3> QED
      BY <1>2, <3>3 DEF Holds
  <2>3. CASE v.type # "number"
    <3>1. x = v.n
      BY <2>1, <2>3 DEF toUInt
    <3> QED
      BY <1>2, <3>1 DEF Holds
  <2> QED
    BY <2>2, <2>3
<1>3. CASE kind = "string"
  BY <1>3 DEF setPropertyValue, Holds
<1>4. CASE kind = "bool"
  <2>1. x \in toBool(v)
    BY <1>4 DEF setPropertyValue
  <2>2. x = (v.n = 1)
    BY <2>1 DEF toBool
  <2> QED
    BY <1>4, <2>2 DEF Holds
<1> QED
  BY <1>1, <1>2, <1>3, <1>4

\* A field is set to the value, or decoding ends.
LEMMA SetTakes ==
  ASSUME NEW f, f.kind \in {"int", "uint", "string", "bool", "slice", "pointer"},
         NEW v, Set(f, v)
  PROVE  \/ \E x : Put(x) /\ (Value(v) => TakenFrom(f, v, x))
         \/ decoded' \in {"error", "panic"}
<1>1. CASE f.kind = "slice"
  <2> DEFINE items == getSliceValue(v)
             each == [i \in DOMAIN items |-> setPropertyValue("int", items[i])]
             x == [i \in DOMAIN each |-> CHOOSE y \in each[i] : TRUE]
  <2>1. IF v.type = "null" THEN Fail("panic")
        ELSE IF \E i \in DOMAIN each : each[i] = {} THEN Fail("error") ELSE Put(x)
    BY <1>1 DEF Set
  <2>2. \/ decoded' \in {"error", "panic"}
        \/ (\A i \in DOMAIN each : each[i] # {}) /\ Put(x)
    BY <2>1 DEF Fail
  <2>3. ASSUME \A i \in DOMAIN each : each[i] # {}, Value(v) PROVE TakenFrom(f, v, x)
    <3>1. DOMAIN x = DOMAIN items
      OBVIOUS
    <3>2. ASSUME NEW i \in DOMAIN items PROVE Holds("int", items[i], x[i])
      <4>1. x[i] \in setPropertyValue("int", items[i])
        BY <2>3, <3>2
      <4>2. Scalar(items[i])
        BY <2>3, <3>2 DEF Value, getSliceValue
      <4> QED
        BY <4>1, <4>2, ValueHolds
    <3> QED
      BY <1>1, <3>1, <3>2 DEF TakenFrom
  <2> QED
    BY <2>2, <2>3
<1>2. CASE f.kind = "pointer"
  BY <1>2 DEF Set, Fail
<1>3. CASE f.kind \notin {"slice", "pointer"}
  <2>1. \/ \E x \in setPropertyValue(f.kind, v) : Put(x)
        \/ setPropertyValue(f.kind, v) = {} /\ Fail("error")
    BY <1>3 DEF Set
  <2>2. ASSUME NEW x \in setPropertyValue(f.kind, v), Value(v) PROVE TakenFrom(f, v, x)
    BY <1>3, <2>2, ValueHolds DEF Value, TakenFrom
  <2> QED
    BY <2>1, <2>2 DEF Fail
<1> QED
  BY <1>1, <1>2, <1>3

\* The indexed keys of the field at hand are still there, as is its key without index.
LEMMA KeysThere ==
  ASSUME JsonInv, Clear, decoded = "busy", nth \in DOMAIN fields,
         Len(fields) \in Nat, DOMAIN fields = 1 .. Len(fields)
  PROVE  LET f == fields[nth] IN
         /\ f.array => Indexed(f, DOMAIN m) = Own(f)
         /\ Found(f, DOMAIN m) = Found(f, DOMAIN given)
         /\ \A k \in Own(f) \union Found(f, DOMAIN given) : k \in DOMAIN given /\ m[k] = given[k]
<1> DEFINE f == fields[nth]
<1>1. MapKept /\ nth \in Nat \ {0}
  BY DEF JsonInv
<1>2. \A k \in DOMAIN m \union DOMAIN given :
        k.name = f.name => k \in DOMAIN m /\ k \in DOMAIN given /\ m[k] = given[k]
  <2> SUFFICES ASSUME NEW k \in DOMAIN m \union DOMAIN given, k.name = f.name, NEW i \in 1 .. nth - 1
               PROVE  k.name # fields[i].name
    BY <1>1 DEF MapKept
  <2>1. i \in DOMAIN fields /\ i # nth
    BY <1>1
  <2> QED
    BY <2>1 DEF Clear
<1>3. f.array => Indexed(f, DOMAIN given) = Own(f)
  BY DEF Clear
<1> HIDE DEF f
<1>4. ASSUME f.array PROVE Indexed(f, DOMAIN m) = Own(f)
  <2>1. ASSUME NEW k \in Indexed(f, DOMAIN m) PROVE k \in Own(f)
    BY <1>1, <1>3, <1>4, <2>1 DEF Indexed, MapKept
  <2>2. ASSUME NEW k \in Own(f) PROVE k \in Indexed(f, DOMAIN m)
    BY <1>2, <2>2 DEF Indexed, Own
  <2> QED
    BY <2>1, <2>2
<1>5. Found(f, DOMAIN m) = Found(f, DOMAIN given)
  BY <1>2 DEF Found
<1>6. \A k \in Own(f) \union Found(f, DOMAIN given) : k \in DOMAIN given /\ m[k] = given[k]
  BY <1>2 DEF Own, Found, Indexed
<1> QED
  BY <1>4, <1>5, <1>6 DEF f

\* One turn of the loop over the fields.
LEMMA FieldStep == JsonInv /\ Field => JsonInv'
<1> SUFFICES ASSUME JsonInv, Field PROVE JsonInv'
  OBVIOUS
<1> DEFINE f == fields[nth]
           gathered == IF f.array THEN Indexed(f, DOMAIN m) ELSE {}
<1>1. /\ decoded = "busy" /\ fields' = fields /\ given' = given /\ nth <= Len(fields)
      /\ IF gathered = {} THEN m' = m ELSE \E order \in SetToSeqs(gathered) : m' = PrepareGWArray(f, order)
      /\ \/ \E k \in Found(f, DOMAIN m') : Set(f, m'[k])
         \/ Found(f, DOMAIN m') = {} /\ IF f.default # None THEN Set(f, f.default) ELSE Put(Zero(f))
  BY DEF Field
<1>2. /\ fields \in Struct /\ given \in Input
      /\ nth \in Nat \ {0} /\ IsASequence(out) /\ Len(out) = nth - 1
      /\ Clear => \A i \in 1 .. nth - 1 : i \in DOMAIN fields => FieldIsGiven(fields[i], out[i])
  BY <1>1 DEF JsonInv
<1>3. /\ nth \in DOMAIN fields /\ Len(fields) \in Nat /\ DOMAIN fields = 1 .. Len(fields)
      /\ f.kind \in {"int", "uint", "string", "bool", "slice", "pointer"}
      /\ f.array \in BOOLEAN /\ Value(f.default)
  <2>1. fields \in Seq(Range(fields))
    BY <1>2, StructAssumption
  <2>2. Len(fields) \in Nat /\ DOMAIN fields = 1 .. Len(fields)
    BY <2>1
  <2>3. nth \in DOMAIN fields
    BY <1>1, <1>2, <2>2
  <2> QED
    BY <1>2, <2>2, <2>3, StructAssumption
<1>4. \A g, x : FieldIsGiven(g, x)' <=> FieldIsGiven(g, x)
  BY <1>1 DEF FieldIsGiven, Gathers, Own
<1>5. Clear' <=> Clear
  BY <1>1 DEF Clear, Gathers, Own
\* What is put is what the field is given, and the map keeps the rest.
<1>6. \/ decoded' \in {"error", "panic"}
      \/ \E x : Put(x) /\ (Clear => FieldIsGiven(f, x))
  <2>1. ASSUME NEW v, Set(f, v), Clear /\ Value(v) => \A x : TakenFrom(f, v, x) => FieldIsGiven(f, x),
               Clear => Value(v)
        PROVE  \/ decoded' \in {"error", "panic"}
               \/ \E x : Put(x) /\ (Clear => FieldIsGiven(f, x))
    <3> HIDE DEF f
    <3>1. \/ \E x : Put(x) /\ (Value(v) => TakenFrom(f, v, x))
          \/ decoded' \in {"error", "panic"}
      BY <1>3, <2>1, SetTakes
    <3> QED
      BY <2>1, <3>1
  <2>2. ASSUME Clear
        PROVE  /\ gathered = IF Gathers(f) THEN Own(f) ELSE {}
               /\ Found(f, DOMAIN m) = Found(f, DOMAIN given)
               /\ \A k \in Own(f) \union Found(f, DOMAIN given) :
                    k \in DOMAIN given /\ m[k] = given[k] /\ Value(m[k])
    BY <1>1, <1>2, <1>3, <2>2, KeysThere, InputAssumption DEF Gathers
  <2>3. ASSUME NEW k \in Found(f, DOMAIN m'), Clear
        PROVE  /\ Value(m'[k])
               /\ \A x : TakenFrom(f, m'[k], x) => FieldIsGiven(f, x)
    <3>1. CASE Gathers(f)
      <4>1. PICK order \in SetToSeqs(Own(f)) : m' = PrepareGWArray(f, order)
        BY <1>1, <2>2, <2>3, <3>1 DEF Gathers
      <4>2. Found(f, DOMAIN given) = {}
        BY <1>3, <2>3, <3>1 DEF Clear
      <4>3. k = PlainKey(f)
        BY <2>2, <2>3, <4>1, <4>2 DEF PrepareGWArray, Found
      <4>4. \A j \in DOMAIN order : order[j] \in Own(f)
        BY <4>1 DEF SetToSeqs
      <4>5. m'[k] = Listed(m, order) /\ Listed(m, order) = Listed(given, order)
        BY <2>2, <2>3, <4>1, <4>3, <4>4 DEF PrepareGWArray, Listed
      <4>6. Value(Listed(given, order))
        BY <2>2, <2>3, <4>4 DEF Value, Listed, Scalar
      <4> QED
        BY <3>1, <4>1, <4>5, <4>6 DEF FieldIsGiven
    <3>2. CASE ~Gathers(f)
      <4>1. m' = m /\ k \in Found(f, DOMAIN given) /\ m[k] = given[k] /\ Value(m[k])
        BY <1>1, <2>2, <2>3, <3>2
      <4> QED
        BY <3>2, <4>1 DEF FieldIsGiven
    <3> QED
      BY <3>1, <3>2
  <2>4. ASSUME Found(f, DOMAIN m') = {}, Clear
        PROVE  ~Gathers(f) /\ Found(f, DOMAIN given) = {}
    <3>1. CASE Gathers(f)
      <4>1. PICK order \in SetToSeqs(Own(f)) : m' = PrepareGWArray(f, order)
        BY <1>1, <2>2, <2>4, <3>1 DEF Gathers
      <4>2. PlainKey(f) \in Found(f, DOMAIN m')
        BY <4>1 DEF PrepareGWArray, Found, PlainKey
      <4> QED
        BY <2>4, <4>2
    <3>2. CASE ~Gathers(f)
      BY <1>1, <2>2, <2>4, <3>2
    <3> QED
      BY <3>1, <3>2
  <2>5. CASE \E k \in Found(f, DOMAIN m') : Set(f, m'[k])
    BY <2>1, <2>3, <2>5
  <2>6. CASE Found(f, DOMAIN m') = {} /\ f.default # None /\ Set(f, f.default)
    <3>1. Clear => \A x : TakenFrom(f, f.default, x) => FieldIsGiven(f, x)
      BY <2>4, <2>6 DEF FieldIsGiven
    <3> QED
      BY <1>3, <2>1, <2>6, <3>1
  <2>7. CASE Found(f, DOMAIN m') = {} /\ f.default = None /\ Put(Zero(f))
    BY <2>4, <2>7 DEF FieldIsGiven
  <2> QED
    BY <1>1, <2>5, <2>6, <2>7
<1>7. ASSUME Clear, nth' = nth + 1 PROVE MapKept'
  <2> DEFINE old == m
  <2>1. MapKept
    BY <1>1, <1>7 DEF JsonInv
  <2>2. \A k : (\A i \in 1 .. nth' - 1 : k.name # fields[i].name) =>
              k.name # f.name /\ \A i \in 1 .. nth - 1 : k.name # fields[i].name
    BY <1>2, <1>7
  <2>3. CASE gathered = {}
    BY <1>1, <2>1, <2>2, <2>3 DEF MapKept
  <2>4. CASE gathered # {}
    <3>1. PICK order \in SetToSeqs(gathered) : m' = PrepareGWArray(f, order)
      BY <1>1, <2>4
    <3>2. f.array /\ gathered = Own(f)
      BY <1>1, <1>3, <1>7, <2>4, KeysThere
    <3>3. \A n \in Range(order) : n.name = f.name
      <4>1. \A j \in DOMAIN order : order[j] \in Own(f)
        BY <3>1, <3>2 DEF SetToSeqs
      <4> QED
        BY <4>1 DEF Own, Range
    <3>4. PlainKey(f).index = 0 /\ PlainKey(f).name = f.name
      BY DEF PlainKey
    <3> HIDE DEF f, gathered
    <3>5. \A k : k \in DOMAIN m' <=> (k \in DOMAIN m /\ k \notin Range(order)) \/ k = PlainKey(f)
      BY <3>1 DEF PrepareGWArray
    <3>6. \A k \in DOMAIN m' : k # PlainKey(f) => m'[k] = m[k]
      BY <3>1 DEF PrepareGWArray
    <3> QED
      BY <1>1, <2>1, <2>2, <3>3, <3>4, <3>5, <3>6 DEF MapKept
  <2> QED
    BY <2>3, <2>4
<1> HIDE DEF f, gathered
<1>8. CASE decoded' \in {"error", "panic"}
  BY <1>8 DEF JsonInv
<1>9. ASSUME NEW x, Put(x), Clear => FieldIsGiven(f, x) PROVE JsonInv'
  <2>1. /\ nth' = nth + 1 /\ decoded' = "busy" /\ out' = Append(out, x)
    BY <1>1, <1>9 DEF Put
  <2>2. /\ IsASequence(out') /\ Len(out') = nth' - 1 /\ out'[nth] = x
        /\ \A i \in 1 .. nth - 1 : out'[i] = out[i]
    BY <1>2, <2>1, AppendAny
  <2>3. Clear => \A i \in 1 .. nth' - 1 : i \in DOMAIN fields => FieldIsGiven(fields[i], out'[i])
    BY <1>2, <1>9, <2>1, <2>2 DEF f
  <2> QED
    BY <1>1, <1>2, <1>4, <1>5, <1>7, <2>1, <2>2, <2>3 DEF JsonInv
<1> QED
  BY <1>6, <1>8, <1>9

LEMMA StepJson == JsonInv /\ [JsonNext]_jsonVars => JsonInv'
<1> SUFFICES ASSUME JsonInv, [JsonNext]_jsonVars PROVE JsonInv'
  OBVIOUS
<1>1. CASE JSONUnmarshal
  <2>1. IsASequence(<<>>)
    BY DEF IsASequence
  <2> QED
    BY <1>1, <2>1 DEF JSONUnmarshal, JsonInv, MapKept
<1>2. CASE Decoded
  <2>1. \A g, x : FieldIsGiven(g, x)' <=> FieldIsGiven(g, x)
    BY <1>2 DEF Decoded, FieldIsGiven, Gathers, Own
  <2>2. Clear' <=> Clear
    BY <1>2 DEF Decoded, Clear, Gathers, Own
  <2> QED
    BY <1>2, <2>1, <2>2 DEF Decoded, JsonInv
<1>3. CASE NextObject
  BY <1>3 DEF NextObject, JsonInv
<1>4. CASE UNCHANGED jsonVars
  <2>1. UNCHANGED <<fields, given, m, nth, out, decoded>>
    BY <1>4 DEF jsonVars
  <2>2. \A g, x : FieldIsGiven(g, x)' <=> FieldIsGiven(g, x)
    BY <2>1 DEF FieldIsGiven, Gathers, Own
  <2>3. (Clear' <=> Clear) /\ (MapKept' <=> MapKept)
    BY <2>1 DEF Clear, Gathers, Own, MapKept
  <2> QED
    BY <2>1, <2>2, <2>3 DEF JsonInv
<1> QED
  BY <1>1, <1>2, <1>3, <1>4, FieldStep DEF JsonNext

\* Whatever the struct and the object, if nothing in the object can be taken for something
\* else, then each field has the value of its own key when decoding has gone well.
THEOREM FieldsAreGivenHolds == JsonSpec => []FieldsAreGiven
<1>1. JsonInit => JsonInv
  BY DEF JsonInit, JsonInv
<1>2. JsonInv => FieldsAreGiven
  <2> SUFFICES ASSUME JsonInv, decoded = "ok", Clear, NEW i \in DOMAIN fields
               PROVE  FieldIsGiven(fields[i], out[i])
    BY DEF FieldsAreGiven
  <2>1. fields \in Seq(Range(fields)) /\ nth \in Nat /\ nth > Len(fields)
    BY StructAssumption DEF JsonInv
  <2>2. i \in 1 .. nth - 1
    BY <2>1
  <2> QED
    BY <2>2 DEF JsonInv
<1> QED
  BY <1>1, <1>2, StepJson, PTL DEF JsonSpec

-----------------------------------------------------------------------------
(* The HTTP client.                                                        *)

RequestFields == {"op", "carried", "signature", "fresh", "network", "source"}

ClientTypes ==
  /\ mesh \in {"none", "primary", "secondary"}
  /\ lastTrace \in {"none", "primary"}
  /\ isPrimaryAddress \in [Helper -> BOOLEAN]
  /\ calling \in [Helper -> {"idle", "prepared", "sent"}]
  /\ posts \in [ParamMap -> Nat]
  /\ requestParams = [p \in ParamMap |-> requestParams[p]]
  /\ request = [h \in Helper |-> request[h]]
  /\ \A h \in Helper : DOMAIN request[h] = RequestFields

\* A map that has not gone out with a signed POST has no signature in it.
SignatureFromPost ==
  \A p \in ParamMap : posts[p] = 0 => "Signature" \notin DOMAIN requestParams[p]

\* Between the resolution of a name and the choice of the source address the helper
\* remembers the network of the address it has found.
NetworkRemembered ==
  \A h \in Helper : calling[h] = "prepared" =>
    /\ request[h].source = "any"
    /\ request[h].network \in {"none", "primary", "secondary"}
    /\ Options[h].byName /\ request[h].network # "none"
         => (isPrimaryAddress[h] <=> request[h].network = "primary")

\* Both halves of SentAsMeant for one helper.
SentWell(h) ==
  /\ (request[h].op = "call" /\ request[h].fresh /\ Signing(h)
        /\ (Options[h].method = "GET" \/ Posting(h))) =>
       /\ request[h].signature =
            Restrict(request[h].carried, DOMAIN request[h].carried \ {"Signature"})
       /\ request[h].carried["PublicKey"] = h
  /\ (Options[h].byName /\ request[h].source # "any" /\ request[h].network # "none")
       => request[h].source = request[h].network

ClientInv ==
  ClientTypes /\ SignatureFromPost /\ NetworkRemembered /\ \A h \in Helper : SentWell(h)

LEMMA OptionTypes ==
  ASSUME NEW h \in Helper
  PROVE  /\ Options[h].byName \in BOOLEAN /\ Options[h].signs \in BOOLEAN /\ Options[h].tied \in BOOLEAN
         /\ Options[h].method \in {"GET", "POST"} /\ Options[h].body \in {"params", "own"}
         /\ Options[h].params \in ParamMap \union {NoMap}
         /\ Options[h].url \in {"none", "primary", "secondary"}
BY OptionsAssumption

LEMMA InitClient == ClientInit => ClientInv
BY OptionTypes DEF ClientInit, ClientInv, ClientTypes, SignatureFromPost, NetworkRemembered,
   SentWell, Blank, Nothing, RequestFields

\* What signs a request is what it carries but for the signature.
LEMMA SignatureTakenOff ==
  ASSUME NEW f, "Signature" \notin DOMAIN f, f = [n \in DOMAIN f |-> f[n]], NEW s,
         NEW g, g = [n \in DOMAIN f \union {"Signature"} |-> IF n = "Signature" THEN s ELSE f[n]]
  PROVE  Restrict(g, DOMAIN g \ {"Signature"}) = f
BY DEF Restrict

LEMMA PrepareStep ==
  ASSUME ClientInv, NEW h \in Helper, _prepareRequest(h)
  PROVE  ClientInv'
<1> DEFINE o == Options[h]
           params == IF Signing(h) THEN WithPublicKey(h) ELSE Given(h)
           signed == IF ~Signing(h) THEN Nothing ELSE getSha1Sign(h)
           sending == o.method = "GET" \/ o.body = "params"
           posted == Posting(h) /\ Signing(h)
           withSignature == [n \in DOMAIN params \union {"Signature"} |->
                               IF n = "Signature" THEN signed ELSE params[n]]
           left == IF posted THEN withSignature ELSE params
           next == [op |-> "call",
                    carried |-> IF sending THEN left ELSE Nothing,
                    signature |-> IF sending THEN signed ELSE Nothing,
                    fresh |-> o.params = NoMap \/ posts[o.params] = 0,
                    network |-> IF o.byName THEN GetServiceAddrByName ELSE o.url,
                    source |-> "any"]
<1>1. /\ isPrimaryAddress' = [isPrimaryAddress EXCEPT ![h] = Resolve(h)]
      /\ IF o.params = NoMap THEN UNCHANGED <<requestParams, posts>>
         ELSE /\ requestParams' = [requestParams EXCEPT ![o.params] = left]
              /\ posts' = [posts EXCEPT ![o.params] = IF posted THEN @ + 1 ELSE @]
      /\ request' = [request EXCEPT ![h] = next]
      /\ calling' = [calling EXCEPT ![h] = "prepared"]
      /\ UNCHANGED <<mesh, lastTrace>>
  BY DEF _prepareRequest
<1>2. o.params \in ParamMap \union {NoMap} /\ o.byName \in BOOLEAN /\ o.signs \in BOOLEAN
      /\ o.url \in {"none", "primary", "secondary"} /\ o.method \in {"GET", "POST"}
      /\ o.body \in {"params", "own"}
  BY OptionTypes
<1>3. ClientTypes
  BY DEF ClientInv
<1>4. GetServiceAddrByName \in {"none", "primary", "secondary"} /\ Resolve(h) \in BOOLEAN
  BY <1>2, <1>3 DEF ClientTypes, GetServiceAddrByName, Resolve
<1>5. request'[h] = next /\ \A g \in Helper \ {h} : request'[g] = request[g]
  BY <1>1, <1>3 DEF ClientTypes
<1>6. posted \in BOOLEAN
  BY DEF Posting, Signing
<1> HIDE DEF params, signed, withSignature, left, posted
<1>7. ClientTypes'
  <2>1. DOMAIN next = RequestFields
    BY DEF RequestFields
  <2>2. posts' \in [ParamMap -> Nat] /\ requestParams' = [p \in ParamMap |-> requestParams'[p]]
    BY <1>1, <1>2, <1>3 DEF ClientTypes
  <2> HIDE DEF next
  <2>3. request' = [g \in Helper |-> request'[g]] /\ \A g \in Helper : DOMAIN request'[g] = RequestFields
    BY <1>1, <1>3, <1>5, <2>1 DEF ClientTypes
  <2> QED
    BY <1>1, <1>3, <1>4, <2>2, <2>3 DEF ClientTypes
<1>8. SignatureFromPost'
  <2> SUFFICES ASSUME NEW p \in ParamMap, posts'[p] = 0
               PROVE  "Signature" \notin DOMAIN requestParams'[p]
    BY DEF SignatureFromPost
  <2>1. CASE p # o.params
    BY <1>1, <1>3, <2>1 DEF ClientInv, ClientTypes, SignatureFromPost
  <2>2. CASE p = o.params
    <3>1. ~posted /\ posts[p] = 0
      BY <1>1, <1>3, <1>6, <2>2, NoMapAssumption DEF ClientTypes
    <3>2. requestParams'[p] = params /\ "Signature" \notin DOMAIN requestParams[p]
      BY <1>1, <1>3, <2>2, <3>1, NoMapAssumption DEF ClientTypes, left, ClientInv, SignatureFromPost
    <3>3. Given(h) = requestParams[p]
      BY <2>2, NoMapAssumption DEF Given
    <3> QED
      BY <3>2, <3>3 DEF params, WithPublicKey
  <2> QED
    BY <2>1, <2>2
<1>9. NetworkRemembered'
  <2>1. ASSUME NEW g \in Helper \ {h}, calling'[g] = "prepared"
        PROVE  calling[g] = "prepared" /\ isPrimaryAddress'[g] = isPrimaryAddress[g]
    BY <1>1, <1>3, <2>1 DEF ClientTypes
  <2>2. next.source = "any" /\ next.network \in {"none", "primary", "secondary"}
    BY <1>2, <1>4
  <2>3. o.byName => next.network = GetServiceAddrByName
    OBVIOUS
  <2>4. isPrimaryAddress'[h] = Resolve(h)
    BY <1>1, <1>3 DEF ClientTypes
  <2> HIDE DEF next
  <2>5. o.byName /\ next.network # "none" => (isPrimaryAddress'[h] <=> next.network = "primary")
    BY <2>2, <2>3, <2>4, <1>4 DEF Resolve
  <2> QED
    BY <1>5, <2>1, <2>2, <2>5 DEF NetworkRemembered, ClientInv
<1>10. ASSUME NEW g \in Helper
       PROVE  SentWell(g)'
  <2>1. CASE g # h
    BY <1>5, <2>1 DEF ClientInv, SentWell, Signing, Posting
  <2>2. CASE g = h
    <3> SUFFICES ASSUME next.fresh, Signing(h), o.method = "GET" \/ Posting(h)
                 PROVE  /\ next.signature = Restrict(next.carried, DOMAIN next.carried \ {"Signature"})
                        /\ next.carried["PublicKey"] = h
      BY <1>5, <2>2 DEF SentWell, Signing, Posting
    <3>1. sending /\ next.carried = left /\ next.signature = signed
      BY DEF Posting
    <3>2. o.params \in ParamMap /\ "Signature" \notin DOMAIN requestParams[o.params]
      BY <1>2, NoMapAssumption DEF Signing, ClientInv, SignatureFromPost
    <3>3. params = WithPublicKey(h) /\ signed = params
      BY DEF params, signed, getSha1Sign
    <3>4. /\ "Signature" \notin DOMAIN params /\ params = [n \in DOMAIN params |-> params[n]]
          /\ params["PublicKey"] = h /\ "PublicKey" \in DOMAIN params
      BY <3>2, <3>3 DEF WithPublicKey, Given, Signing
    <3>5. CASE posted
      <4>1. left = withSignature /\ left["PublicKey"] = h
        BY <3>4, <3>5 DEF left, withSignature
      <4>2. Restrict(left, DOMAIN left \ {"Signature"}) = params
        <5>1. withSignature = left
          BY <4>1
        <5> QED
          BY <3>4, <5>1, SignatureTakenOff DEF withSignature
      <4> QED
        BY <3>1, <3>3, <4>1, <4>2
    <3>6. CASE ~posted
      <4>1. left = params
        BY <3>6 DEF left
      <4>2. Restrict(params, DOMAIN params \ {"Signature"}) = params
        BY <3>4 DEF Restrict
      <4> QED
        BY <3>1, <3>3, <3>4, <4>1, <4>2
    <3> QED
      BY <3>5, <3>6
  <2> QED
    BY <2>1, <2>2
<1> QED
  BY <1>7, <1>8, <1>9, <1>10 DEF ClientInv

LEMMA SendStep ==
  ASSUME ClientInv, NEW h \in Helper, Send(h)
  PROVE  ClientInv'
<1>1. /\ calling[h] = "prepared"
      /\ calling' \in [Helper -> {"idle", "prepared", "sent"}] /\ calling'[h] # "prepared"
      /\ \A g \in Helper \ {h} : calling'[g] = calling[g]
  BY DEF Send, ClientInv, ClientTypes
<1>2. UNCHANGED <<mesh, lastTrace, requestParams, isPrimaryAddress, posts>>
  BY DEF Send
<1> DEFINE from == IF ~Options[h].tied THEN "any" ELSE IF isPrimaryAddress[h] THEN "primary" ELSE "secondary"
<1>3. request' = [request EXCEPT ![h] = [request[h] EXCEPT !.source = from]]
  BY DEF Send
<1> HIDE DEF from
<1>4. /\ \A g \in Helper : DOMAIN request'[g] = RequestFields
      /\ request' = [g \in Helper |-> request'[g]]
      /\ \A g \in Helper \ {h} : request'[g] = request[g]
      /\ request'[h].source = from
      /\ \A n \in RequestFields \ {"source"} : request'[h][n] = request[h][n]
  BY <1>3 DEF ClientInv, ClientTypes, RequestFields
<1>5. /\ request'[h].op = request[h].op /\ request'[h].carried = request[h].carried
      /\ request'[h].signature = request[h].signature /\ request'[h].fresh = request[h].fresh
      /\ request'[h].network = request[h].network
  BY <1>4 DEF RequestFields
<1>6. ClientTypes' /\ SignatureFromPost' /\ NetworkRemembered'
  BY <1>1, <1>2, <1>4 DEF ClientInv, ClientTypes, SignatureFromPost, NetworkRemembered
<1>7. Options[h].byName /\ from # "any" /\ request[h].network # "none" => from = request[h].network
  BY <1>1 DEF from, ClientInv, NetworkRemembered
<1>8. \A g \in Helper : SentWell(g)'
  BY <1>4, <1>5, <1>7 DEF ClientInv, SentWell, Signing, Posting
<1> QED
  BY <1>6, <1>8 DEF ClientInv

LEMMA UploadStep ==
  ASSUME ClientInv, NEW h \in Helper, Upload(h)
  PROVE  ClientInv'
<1> DEFINE next == [Blank EXCEPT !.op = "upload", !.carried = Given(h),
                     !.network = IF Options[h].byName THEN "none" ELSE Options[h].url]
<1>1. /\ calling[h] = "idle" /\ request' = [request EXCEPT ![h] = next]
      /\ UNCHANGED <<mesh, lastTrace, requestParams, isPrimaryAddress, calling, posts>>
  BY DEF Upload
<1>2. DOMAIN next = RequestFields /\ next.op = "upload" /\ next.source = "any"
  BY DEF Blank, RequestFields
<1> HIDE DEF next
<1>3. /\ request'[h] = next /\ \A g \in Helper \ {h} : request'[g] = request[g]
      /\ request' = [g \in Helper |-> request'[g]]
  BY <1>1 DEF ClientInv, ClientTypes
<1>4. ClientTypes' /\ SignatureFromPost'
  BY <1>1, <1>2, <1>3 DEF ClientInv, ClientTypes, SignatureFromPost
<1>5. NetworkRemembered'
  BY <1>1, <1>3 DEF ClientInv, NetworkRemembered
<1>6. \A g \in Helper : SentWell(g)'
  BY <1>2, <1>3 DEF ClientInv, SentWell, Signing, Posting
<1> QED
  BY <1>4, <1>5, <1>6 DEF ClientInv

\* Whatever is sent, and whatever becomes of the mesh, the invariant holds.
LEMMA ClientInvHolds == ClientSpec => []ClientInv
<1>1. ClientInv /\ [ClientNext]_clientVars => ClientInv'
  <2> SUFFICES ASSUME ClientInv, [ClientNext]_clientVars PROVE ClientInv'
    OBVIOUS
  <2>1. CASE MeshChanges
    BY <2>1 DEF MeshChanges, ClientInv, ClientTypes, SignatureFromPost, NetworkRemembered,
       SentWell, Signing, Posting
  <2>2. ASSUME NEW h \in Helper, Answered(h) PROVE ClientInv'
    <3>1. ClientTypes' /\ SignatureFromPost' /\ NetworkRemembered'
      BY <2>2 DEF Answered, ClientInv, ClientTypes, SignatureFromPost, NetworkRemembered
    <3>2. \A g \in Helper : SentWell(g)'
      BY <2>2 DEF Answered, ClientInv, ClientTypes, SentWell, Signing, Posting
    <3> QED
      BY <3>1, <3>2 DEF ClientInv
  <2>3. CASE UNCHANGED clientVars
    BY <2>3 DEF clientVars, ClientInv, ClientTypes, SignatureFromPost, NetworkRemembered,
       SentWell, Signing, Posting
  <2> QED
    BY <2>1, <2>2, <2>3, PrepareStep, SendStep, UploadStep DEF ClientNext
<1> QED
  BY <1>1, InitClient, PTL DEF ClientSpec

\* Requests go out signed as they are sent and from the right address, whatever the
\* helpers, their options, the maps they share and the number of calls made with these.
THEOREM SentAsMeantHolds == ClientSpec => []SentAsMeant
<1>1. ClientInv => SentAsMeant
  BY DEF ClientInv, SentWell, SentAsMeant, SignedAsSent, LeavesByItsNetwork
<1> QED
  BY <1>1, ClientInvHolds, PTL
=============================================================================
