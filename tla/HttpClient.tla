----------------------------- MODULE HttpClient -----------------------------
(***************************************************************************)
(* HTTPHelper of data/http_helper.go: requests by URL or by the name of a  *)
(* service, from the local address of the network that the service is      *)
(* called on, and signed where the helper has a pair of keys.              *)
(*                                                                         *)
(* A helper keeps state from one call to the next: whether it last called  *)
(* a primary address, and the map of parameters, which belongs to whoever  *)
(* made the helper, may be given to another one, as for a retry, and is    *)
(* written when a request is signed. A helper, and a map, is used by one   *)
(* goroutine at a time.                                                    *)
(*                                                                         *)
(* A signature is the set of parameters it covers: SHA-1 is taken to tell  *)
(* all texts apart, and the text, names and values in the order of the     *)
(* names with nothing between, to belong to one set.                       *)
(* GetServiceAddrByName has modules of its own (HealthMesh, ReceiverMesh); *)
(* here it says which of the two networks it chooses.                      *)
(***************************************************************************)
EXTENDS Naturals, Functions

CONSTANTS
  Helper,
  Options,   \* Options[h]: [method, body, params, signs, byName, url, tied]
  ParamMap,  \* maps of parameters
  NoMap,     \* nil
  MaxPosts   \* bounds the signed POSTs of each map

\* method: "GET" or "POST", which stands for PUT and DELETE as well; body: "params", or
\* "own" (postBody, requestRawObject); signs: both keys are set; byName: serviceName and
\* no url; url: the network of its address; tied: the source address is to be chosen.
ASSUME NoMapAssumption == NoMap \notin ParamMap
ASSUME OptionsAssumption ==
  Options \in [Helper -> [method : {"GET", "POST"}, body : {"params", "own"},
                         params : ParamMap \union {NoMap}, signs : BOOLEAN, byName : BOOLEAN,
                         url : {"none", "primary", "secondary"}, tied : BOOLEAN]]
ASSUME MaxPostsAssumption == MaxPosts \in Nat

VARIABLES
  mesh,              \* what GetServiceAddrByName finds: "none", "primary" or "secondary"
  lastTrace,         \* LastTraceServiceAddress of the service, "none" or "primary"
  requestParams,     \* each map: its entries
  isPrimaryAddress,  \* of each helper
  calling,           \* each helper: "idle", "prepared", "sent"
  request,           \* each helper: its latest request
  posts              \* history: how many signed POSTs have gone out with a map

clientVars == <<mesh, lastTrace, requestParams, isPrimaryAddress, calling, request, posts>>

Nothing == [n \in {} |-> 0]

\* carried: its parameters; signature: what it is signed with beside those; fresh: no
\* signed POST with its map had gone before.
Blank == [op |-> "none", carried |-> Nothing, signature |-> Nothing, fresh |-> TRUE,
          network |-> "none", source |-> "any"]

ClientInit ==
  /\ mesh \in {"none", "primary", "secondary"}
  /\ lastTrace = "none"
  /\ requestParams = [m \in ParamMap |-> [n \in {"Action"} |-> "given"]]
  /\ isPrimaryAddress = [h \in Helper |-> Options[h].url # "secondary"]
  /\ calling = [h \in Helper |-> "idle"]
  /\ request = [h \in Helper |-> Blank]
  /\ posts = [m \in ParamMap |-> 0]

-----------------------------------------------------------------------------
MeshChanges ==
  /\ mesh' \in {"none", "primary", "secondary"}
  /\ UNCHANGED <<lastTrace, requestParams, isPrimaryAddress, calling, request, posts>>

Given(h) == IF Options[h].params = NoMap THEN Nothing ELSE requestParams[Options[h].params]

\* Without a map nothing is signed, keys or not.
Signing(h) == Options[h].signs /\ Options[h].params # NoMap

WithPublicKey(h) ==
  [n \in DOMAIN Given(h) \union {"PublicKey"} |-> IF n = "PublicKey" THEN h ELSE Given(h)[n]]

\* Mutated form: the parameters are signed before the public key is among them.
getSha1SignEarly(h) == Given(h)

getSha1Sign(h) == WithPublicKey(h)

Posting(h) == Options[h].method = "POST" /\ Options[h].body = "params"

\* The network of the address, and isPrimary: the latest trace counts as primary.
GetServiceAddrByName == IF mesh = "none" THEN lastTrace ELSE mesh

Resolve(h) ==
  IF Options[h].byName THEN GetServiceAddrByName # "secondary" ELSE isPrimaryAddress[h]

\* The public key stays in the caller's map, and so does the signature of a POST.
_prepareRequest(h) ==
  LET o == Options[h]
      params == IF Signing(h) THEN WithPublicKey(h) ELSE Given(h)
      signed == IF ~Signing(h) THEN Nothing ELSE getSha1Sign(h)
      sending == o.method = "GET" \/ o.body = "params"
      posted == Posting(h) /\ Signing(h)
      withSignature == [n \in DOMAIN params \union {"Signature"} |->
                          IF n = "Signature" THEN signed ELSE params[n]]
      left == IF posted THEN withSignature ELSE params
  IN  /\ calling[h] = "idle"
      /\ posted => posts[o.params] < MaxPosts
      /\ isPrimaryAddress' = [isPrimaryAddress EXCEPT ![h] = Resolve(h)]
      /\ IF o.params = NoMap THEN UNCHANGED <<requestParams, posts>>
         ELSE /\ requestParams' = [requestParams EXCEPT ![o.params] = left]
              /\ posts' = [posts EXCEPT ![o.params] = IF posted THEN @ + 1 ELSE @]
      /\ request' = [request EXCEPT ![h] =
           [op |-> "call",
            carried |-> IF sending THEN left ELSE Nothing,
            signature |-> IF sending THEN signed ELSE Nothing,
            fresh |-> o.params = NoMap \/ posts[o.params] = 0,
            network |-> IF o.byName THEN GetServiceAddrByName ELSE o.url,
            source |-> "any"]]
      /\ calling' = [calling EXCEPT ![h] = "prepared"]
      /\ UNCHANGED <<mesh, lastTrace>>

\* The rest of Call. With no address found the URL is "http://", and Do fails.
Send(h) ==
  /\ calling[h] = "prepared"
  /\ request' = [request EXCEPT ![h].source =
       IF ~Options[h].tied THEN "any" ELSE IF isPrimaryAddress[h] THEN "primary" ELSE "secondary"]
  /\ calling' = [calling EXCEPT ![h] = IF request[h].network = "none" THEN "idle" ELSE "sent"]
  /\ UNCHANGED <<mesh, lastTrace, requestParams, isPrimaryAddress, posts>>

\* An answer names the service and the primary address it comes from, or an error does not.
Answered(h) ==
  /\ calling[h] = "sent"
  /\ lastTrace' \in {lastTrace, "primary"}
  /\ calling' = [calling EXCEPT ![h] = "idle"]
  /\ UNCHANGED <<mesh, requestParams, isPrimaryAddress, request, posts>>

\* A file with the parameters as they are, to url alone, from any source; or its reading
\* fails, and nothing is sent.
Upload(h) ==
  /\ calling[h] = "idle"
  /\ request' = [request EXCEPT ![h] =
       [Blank EXCEPT !.op = "upload", !.carried = Given(h),
                     !.network = IF Options[h].byName THEN "none" ELSE Options[h].url]]
  /\ UNCHANGED <<mesh, lastTrace, requestParams, isPrimaryAddress, calling, posts>>

ClientNext ==
  \/ MeshChanges
  \/ \E h \in Helper : _prepareRequest(h) \/ Send(h) \/ Answered(h) \/ Upload(h)

ClientSpec == ClientInit /\ [][ClientNext]_clientVars

-----------------------------------------------------------------------------
\* A receiver that signs the parameters of a request anew, all but the signature, gets the
\* signature that came with it: for helpers that sign and send parameters, however often
\* they or others have sent requests with the same map, as long as none of these was a
\* signed POST, whose signature the next would cover.
SignedAsSent ==
  \A h \in Helper :
    LET q == request[h] IN
    (q.op = "call" /\ q.fresh /\ Signing(h) /\ (Options[h].method = "GET" \/ Posting(h))) =>
      /\ q.signature = Restrict(q.carried, DOMAIN q.carried \ {"Signature"})
      /\ q.carried["PublicKey"] = h

\* A request to a service leaves from the local address of the network its address is on,
\* whichever network the helper used before and the mesh offers by now.
LeavesByItsNetwork ==
  \A h \in Helper :
    (Options[h].byName /\ request[h].source # "any" /\ request[h].network # "none")
      => request[h].source = request[h].network

\* Requests go out as they were meant: signed as they are sent and from the right address.
SentAsMeant == SignedAsSent /\ LeavesByItsNetwork
=============================================================================
