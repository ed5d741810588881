---------------------------- MODULE ReceiverMesh ----------------------------
(***************************************************************************)
(* The receiver's side of the keep-alive mesh, data/service_keepalive.go:  *)
(* receiveServiceMesh, filled by the handlers of /ServiceHealthCheck with  *)
(* the addresses of the peers that check this process, and read by calls   *)
(* made by name when the name is not configured. When it has no address    *)
(* for a name, such a call goes by LastTraceServiceAddress: the address    *)
(* that the latest request or answer of the name had in its head, whoever  *)
(* it came from and however long ago (api/serv_api.go, http_helper.go).    *)
(*                                                                         *)
(* Every request is served by a goroutine of its own; a handler takes      *)
(* syncMeshPrimary, then syncReceiverService, and lets go of each before   *)
(* the next step, so handlers interleave between those steps.              *)
(*                                                                         *)
(* A peer is named by its primary address. ReceiveTime is kept as the age  *)
(* now - ReceiveTime, counted up to Keep + 1: only its comparison with     *)
(* ReceiverKeepTimer is ever used, and a removed address (ReceiveTime 0)   *)
(* is as old as one that was never heard of.                               *)
(***************************************************************************)
EXTENDS Integers, FiniteSets

CONSTANTS
  Peer,         \* peers, by primary address
  Dual,         \* the peers that have a secondary address
  Name,         \* service names
  NameOf,       \* the service a peer announces itself as
  Keep,         \* ReceiverKeepTimer
  Handler,      \* handler goroutines; bounds the requests served at once
  Caller,       \* goroutines that resolve a service name
  ConfigDual,   \* the secondary maps MonitorServiceAddrChange2 may return, as
                \* sets of peers; empty when the process does not configure it
  NoPeer,       \* no peer
  TraceRequests,\* ~DisableTraceServiceAddress: requests are traced, not only answers
  MaxCopies,    \* cap: entries of one address in a list of addresses
  MaxCallbacks  \* cap: callback goroutines of one name at the same time

ASSUME PeerAssumption == Dual \subseteq Peer /\ NameOf \in [Peer -> Name] /\ NoPeer \notin Peer
ASSUME KeepAssumption == Keep \in Nat
ASSUME TraceAssumption == TraceRequests \in BOOLEAN
ASSUME BoundAssumption == MaxCopies \in Nat \ {0} /\ MaxCallbacks \in Nat
ASSUME ConfigAssumption == ConfigDual \subseteq SUBSET Dual

VARIABLES
  known,        \* peers in ServiceMeshPrimary2Secondary and Secondary2Primary
  heard,        \* addresses that are keys of ReceiveTime
  age,          \* time since ReceiveTime
  copies,       \* how often an address is listed in Address
  onSecondary,  \* keys of HealthOnSecondary
  nextSequence, \* NextSequence
  handler,      \* each handler between two of its critical sections
  callbacks,    \* running goroutines that call ReceivedServiceCallback
  called,       \* serviceCallback: names whose callback has succeeded
  traced,       \* LastTraceServiceAddress: the peer last heard of under each name
  caller,       \* each caller between the steps of GetServiceAddrByName
  \* history variables, which no action of the code reads
  contact,      \* the path of the latest check of a peer that was registered
  left          \* peers whose notice was applied last, after any check of theirs

meshVars == <<known, heard, age, copies, onSecondary, contact, left>>
receiverVars == <<known, heard, age, copies, onSecondary, nextSequence, handler,
                  callbacks, called, traced, caller, contact, left>>

Path == {"primary", "secondary"}
Address == Peer \X Path
Request == [peer : Peer, path : Path, notify : BOOLEAN]

Idle == [pc |-> "idle"]
Expired == Keep + 1

\* The address a request gives for its sender, and the key it is filed under:
\* Secondary2Primary leads from a secondary address to the primary one.
CheckerAddress(m) == <<m.peer, m.path>>
Primary(a) == IF a[2] = "secondary" /\ a[1] \in known THEN <<a[1], "primary">> ELSE a

NameOfAddress(a) == NameOf[a[1]]
Exists(n) == \E a \in heard : NameOfAddress(a) = n

Init ==
  /\ known \in {{}} \cup ConfigDual
  /\ heard = {}
  /\ age = [a \in Address |-> Expired]
  /\ copies = [a \in Address |-> 0]
  /\ onSecondary = {}
  /\ nextSequence = [n \in Name |-> 0]
  /\ handler = [h \in Handler |-> Idle]
  /\ callbacks = [n \in Name |-> 0]
  /\ called = {}
  /\ traced = [n \in Name |-> NoPeer]
  /\ caller = [c \in Caller |-> Idle]
  /\ contact = [p \in Peer |-> "none"]
  /\ left = {}

-----------------------------------------------------------------------------
(* Requests and DoHealthCheck.                                             *)

\* Every message of a landau process has its name and its primary address in its head.
Trace(p) == traced' = [traced EXCEPT ![NameOf[p]] = p]

\* A request other than a health check is served, or an answer is read.
TraceCall(p) ==
  /\ Trace(p)
  /\ UNCHANGED <<meshVars, nextSequence, handler, callbacks, called, caller>>

\* A health check is traced like any request. One without a checker address is answered
\* and changes nothing else: a peer that has no secondary address still checks on the
\* secondary path.
Accept(h, m) ==
  /\ handler[h] = Idle
  /\ IF TraceRequests THEN Trace(m.peer) ELSE UNCHANGED traced
  /\ handler' = IF m.path = "secondary" /\ m.peer \notin Dual THEN handler
                ELSE [handler EXCEPT ![h] =
                        [pc |-> IF m.peer \in Dual THEN "learn" ELSE "apply", m |-> m]]
  /\ UNCHANGED <<meshVars, nextSequence, callbacks, called, caller>>

\* The pair of addresses that a peer with two of them names is entered into both maps.
Learn(h) ==
  /\ handler[h].pc = "learn"
  /\ known' = known \cup ({handler[h].m.peer} \cap Dual)
  /\ handler' = [handler EXCEPT ![h].pc = "apply"]
  /\ UNCHANGED <<heard, age, copies, onSecondary, contact, left, nextSequence, callbacks,
                 called, traced, caller>>

\* Mutated forms of RegisterReceiveService: a check that arrives from the primary
\* address again leaves the peer marked as reachable on the secondary one; the
\* address is listed again although it was found.
RegisterReceiveServiceKeepSecondary(a) ==
  LET p == Primary(a)
      first == ~Exists(NameOfAddress(a))
  IN  /\ age' = [age EXCEPT ![p] = 0]
      /\ heard' = heard \cup {p}
      /\ copies' = [copies EXCEPT ![p] = IF @ = 0 THEN 1 ELSE @]
      /\ onSecondary' = IF p # a /\ ~first THEN onSecondary \cup {p} ELSE onSecondary
      /\ contact' = [contact EXCEPT ![a[1]] = IF first THEN "first" ELSE a[2]]

RegisterReceiveServiceListAgain(a) ==
  LET p == Primary(a)
  IN  /\ age' = [age EXCEPT ![p] = 0]
      /\ heard' = heard \cup {p}
      /\ copies' = [copies EXCEPT ![p] = @ + 1]
      /\ UNCHANGED <<onSecondary, contact>>

\* RegisterReceiveService. The branch that makes the entry of a name marks the
\* secondary address itself in HealthOnSecondary, the other one the primary.
RegisterReceiveService(a) ==
  LET p == Primary(a)
      first == ~Exists(NameOfAddress(a))
  IN  /\ age' = [age EXCEPT ![p] = 0]
      /\ heard' = heard \cup {p}
      /\ copies' = [copies EXCEPT ![p] = IF @ = 0 THEN 1 ELSE @]
      /\ onSecondary' =
           IF p # a THEN onSecondary \cup {IF first THEN a ELSE p}
           ELSE IF first THEN onSecondary ELSE onSecondary \ {p}
      /\ contact' = [contact EXCEPT ![a[1]] =
                       IF a[2] = "secondary" /\ (first \/ p = a) THEN "first" ELSE a[2]]

\* Mutated forms of RemoveReceiveService: the time of the given address is reset,
\* not that of the primary one it stands for; the address is never listed.
RemoveReceiveServiceGiven(a) ==
  IF ~Exists(NameOfAddress(a)) THEN UNCHANGED <<heard, age, copies>>
  ELSE /\ age' = [age EXCEPT ![a] = Expired]
       /\ heard' = heard \cup {a}
       /\ copies' = [copies EXCEPT ![a] = IF @ = 0 THEN 1 ELSE @]

RemoveReceiveServiceUnlisted(a) ==
  IF ~Exists(NameOfAddress(a)) THEN UNCHANGED <<heard, age, copies>>
  ELSE /\ age' = [age EXCEPT ![Primary(a)] = Expired]
       /\ heard' = heard \cup {Primary(a)}
       /\ UNCHANGED copies

\* RemoveReceiveService looks for the given address and appends the primary one,
\* so a notice that comes from the secondary address lists the primary once more.
RemoveReceiveService(a) ==
  LET p == Primary(a)
  IN  IF ~Exists(NameOfAddress(a)) THEN UNCHANGED <<heard, age, copies>>
      ELSE /\ age' = [age EXCEPT ![p] = Expired]
           /\ heard' = heard \cup {p}
           /\ copies' = [copies EXCEPT ![p] =
                           IF copies[a] = 0 /\ @ < MaxCopies THEN @ + 1 ELSE @]

Apply(h) ==
  LET m == handler[h].m
  IN  /\ handler[h].pc = "apply"
      /\ handler' = IF m.notify THEN [handler EXCEPT ![h] = Idle]
                    ELSE [handler EXCEPT ![h].pc = "callback"]
      /\ IF m.notify
         THEN /\ RemoveReceiveService(CheckerAddress(m))
              /\ left' = left \cup {m.peer}
              /\ UNCHANGED <<onSecondary, contact>>
         ELSE /\ RegisterReceiveService(CheckerAddress(m))
              /\ left' = left \ {m.peer}
      /\ UNCHANGED <<known, nextSequence, callbacks, called, traced, caller>>

\* ReceivedServiceCallback runs in a goroutine of its own until it has succeeded
\* once for the name; two handlers may both find that it has not.
Callback(h) ==
  LET m == handler[h].m
      n == NameOf[m.peer]
  IN  /\ handler[h].pc = "callback"
      /\ handler' = [handler EXCEPT ![h] = Idle]
      /\ callbacks' = [callbacks EXCEPT ![n] =
                         IF n \notin called /\ @ < MaxCallbacks THEN @ + 1 ELSE @]
      /\ UNCHANGED <<meshVars, nextSequence, called, traced, caller>>

CallbackReturns(n, ok) ==
  /\ callbacks[n] > 0
  /\ callbacks' = [callbacks EXCEPT ![n] = @ - 1]
  /\ called' = IF ok THEN called \cup {n} ELSE called
  /\ UNCHANGED <<meshVars, nextSequence, handler, traced, caller>>

-----------------------------------------------------------------------------
(* _checkServiceHealthConfig with MonitorServiceAddrChange2 replaces the    *)
(* maps of secondary addresses, and with them what handlers have learned.  *)
ReplaceSecondaryMap ==
  /\ known' \in ConfigDual
  /\ UNCHANGED <<heard, age, copies, onSecondary, contact, left, nextSequence, handler,
                 callbacks, called, traced, caller>>

-----------------------------------------------------------------------------
(* GetServiceAddrByName for a name that is not configured.                 *)

\* A mutated form of Available: nobody asks how long ago an address was heard of.
AvailableHeard(n) == {a \in heard : NameOfAddress(a) = n}

Available(n) == {a \in heard : NameOfAddress(a) = n /\ age[a] <= Keep}

\* The address a call to the available address a is sent to.
Route(a) ==
  IF a \in onSecondary /\ a[2] = "primary" /\ a[1] \in known
  THEN <<a[1], "secondary">> ELSE a

\* The available addresses are collected in the random order of a map, so whatever
\* NextSequence says, any of them may be the one chosen.
Lookup(c, n) ==
  LET available == Available(n)
      using == IF nextSequence[n] >= Cardinality(available) THEN 0 ELSE nextSequence[n]
  IN  /\ caller[c] = Idle
      /\ \E a \in available :
           caller' = [caller EXCEPT ![c] =
                        [pc |-> "increment", name |-> n, using |-> using, addr |-> Route(a)]]
      /\ UNCHANGED <<meshVars, nextSequence, handler, callbacks, called, traced>>

\* Nobody is available. The lock is let go before LastTraceServiceAddress is asked.
LookupNone(c, n) ==
  /\ caller[c] = Idle
  /\ Available(n) = {}
  /\ caller' = [caller EXCEPT ![c] = [pc |-> "fallback", name |-> n]]
  /\ UNCHANGED <<meshVars, nextSequence, handler, callbacks, called, traced>>

\* The address last heard of under the name, if there is one, however old it is.
Fallback(c) ==
  LET p == traced[caller[c].name]
  IN  /\ caller[c].pc = "fallback"
      /\ caller' = [caller EXCEPT ![c] =
           IF p = NoPeer THEN Idle
           ELSE [pc |-> "traced", name |-> @.name, addr |-> <<p, "primary">>]]
      /\ UNCHANGED <<meshVars, nextSequence, handler, callbacks, called, traced>>

Increment(c) ==
  /\ caller[c].pc = "increment"
  /\ nextSequence' = [nextSequence EXCEPT ![caller[c].name] = caller[c].using + 1]
  /\ caller' = [caller EXCEPT ![c] = Idle]
  /\ UNCHANGED <<meshVars, handler, callbacks, called, traced>>

\* A caller that has the address of LastTraceServiceAddress changes nothing more.
Return(c) ==
  /\ caller[c].pc = "traced"
  /\ caller' = [caller EXCEPT ![c] = Idle]
  /\ UNCHANGED <<meshVars, nextSequence, handler, callbacks, called, traced>>

-----------------------------------------------------------------------------
\* One unit of time passes.
Tick ==
  /\ age' = [a \in Address |-> IF age[a] < Expired THEN age[a] + 1 ELSE Expired]
  /\ UNCHANGED <<known, heard, copies, onSecondary, contact, left, nextSequence, handler,
                 callbacks, called, traced, caller>>

\* The steps a receiver takes by itself.
HandlerStep(h) == Learn(h) \/ Apply(h) \/ Callback(h)

LocalStep ==
  \/ \E h \in Handler : Learn(h)
  \/ \E h \in Handler : Apply(h)
  \/ \E h \in Handler : Callback(h)
  \/ \E n \in Name, ok \in BOOLEAN : CallbackReturns(n, ok)
  \/ ReplaceSecondaryMap
  \/ \E c \in Caller, n \in Name : Lookup(c, n)
  \/ \E c \in Caller, n \in Name : LookupNone(c, n)
  \/ \E c \in Caller : Fallback(c)
  \/ \E c \in Caller : Increment(c)
  \/ \E c \in Caller : Return(c)
  \/ Tick

Next ==
  \/ LocalStep
  \/ \E h \in Handler, m \in Request : Accept(h, m)
  \/ \E p \in Peer : TraceCall(p)

Spec == Init /\ [][Next]_receiverVars

-----------------------------------------------------------------------------
(* Properties.                                                             *)

HandlerState == {Idle} \cup [pc : {"learn", "apply", "callback"}, m : Request]
CallerState ==
  {Idle} \cup [pc : {"increment"}, name : Name, using : Nat, addr : Address]
         \cup [pc : {"fallback"}, name : Name]
         \cup [pc : {"traced"}, name : Name, addr : Address]

\* Types of the receiver's state.
TypeOK ==
  /\ known \in SUBSET Dual
  /\ heard \in SUBSET Address
  /\ age \in [Address -> 0 .. Expired]
  /\ copies \in [Address -> 0 .. MaxCopies]
  /\ onSecondary \in SUBSET Address
  /\ nextSequence \in [Name -> Nat]
  /\ handler \in [Handler -> HandlerState]
  /\ callbacks \in [Name -> 0 .. MaxCallbacks]
  /\ called \in SUBSET Name
  /\ traced \in [Name -> Peer \cup {NoPeer}]
  /\ caller \in [Caller -> CallerState]
  /\ contact \in [Peer -> {"none", "first"} \cup Path]
  /\ left \in SUBSET Peer

\* A call to a dual-homed peer takes the path the peer's latest check came from,
\* whatever notices, other peers and expiry did in between. The check that makes
\* the entry of its name does not count: RegisterReceiveService files it under a
\* key no lookup asks for.
RoutesByLastContact ==
  \A p \in known : contact[p] \in Path => Route(<<p, "primary">>) = <<p, contact[p]>>

\* The lists agree: the addresses a lookup may return (ReceiveTime) are those the
\* trace page shows (Address), however registrations and notices alternate.
AddressBookAgrees == \A a \in Address : a \in heard <=> copies[a] > 0

\* The receiver keeps a lease per peer (LeaseRegistry): checks on either address
\* renew it, a notice on either address revokes it, and only a peer whose lease is
\* running is returned, or, when a look-up finds no peer of the name with a lease, the
\* peer of that name that was heard of last.
Lease == INSTANCE LeaseRegistry WITH
  lease <- [p \in Peer |-> Expired - age[<<p, "primary">>]],
  last <- traced,
  asked <- [c \in Caller |-> IF caller[c].pc = "fallback" THEN {caller[c].name} ELSE {}],
  using <- [c \in Caller |-> IF caller[c].pc \in {"increment", "traced"}
                             THEN caller[c].addr[1] ELSE NoPeer]

KeepsLeases == Lease!LeaseSpec
=============================================================================
