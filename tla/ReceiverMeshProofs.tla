------------------------- MODULE ReceiverMeshProofs -------------------------
(***************************************************************************)
(* Proofs about ReceiverMesh and KeepaliveNet: for any peers, names,       *)
(* handlers, callers and ReceiverKeepTimer. Where the map of secondary     *)
(* addresses matters, it is assumed that MonitorServiceAddrChange2, if the *)
(* process configures it at all, returns the addresses the peers announce  *)
(* themselves.                                                             *)
(***************************************************************************)
EXTENDS KeepaliveNet, FiniteSetTheorems, TLAPS

MapCovers == ConfigDual \subseteq {Dual}

\* A handler that has learned the addresses of its peer finds them in the map.
HandlersOK ==
  \A h \in Handler :
    handler[h] # Idle /\ handler[h].m.path = "secondary" =>
      handler[h].m.peer \in Dual /\ (handler[h].pc # "learn" => handler[h].m.peer \in known)

\* Addresses are filed under primary addresses only.
OnlyPrimaries == \A a \in heard : a[2] = "primary"

UnheardExpired == \A a \in Address \ heard : age[a] = Expired

\* HealthOnSecondary, as far as lookups ask for it, follows the latest checks.
MarksFollowContact ==
  \A p \in Peer :
    /\ <<p, "primary">> \in onSecondary => <<p, "primary">> \in heard
    /\ contact[p] \in Path => (<<p, "primary">> \in onSecondary <=> contact[p] = "secondary")

IInv == /\ TypeOK /\ HandlersOK /\ OnlyPrimaries /\ UnheardExpired
        /\ MarksFollowContact /\ AddressBookAgrees

-----------------------------------------------------------------------------
(* Types.                                                                  *)

LEMMA AddressTypes ==
  ASSUME TypeOK
  PROVE  /\ \A m \in Request : CheckerAddress(m) \in Address
         /\ \A a \in Address : Primary(a) \in Address /\ Route(a) \in Address
         /\ \A a \in Address : Route(a)[1] = a[1]
         /\ \A a \in Address : NameOfAddress(a) \in Name
  BY PeerAssumption
     DEF TypeOK, CheckerAddress, Request, Address, Path, Primary, Route, NameOfAddress

LEMMA RegisterTypes ==
  ASSUME TypeOK, NEW a \in Address, RegisterReceiveService(a)
  PROVE  /\ heard' \in SUBSET Address
         /\ age' \in [Address -> 0 .. Expired]
         /\ copies' \in [Address -> 0 .. MaxCopies]
         /\ onSecondary' \in SUBSET Address
         /\ contact' \in [Peer -> {"none", "first"} \cup Path]
<1>1. Primary(a) \in Address /\ a[1] \in Peer /\ a[2] \in Path
  BY AddressTypes DEF Address
<1>2. 0 \in 0 .. Expired /\ 1 \in 0 .. MaxCopies
  BY KeepAssumption, BoundAssumption DEF Expired
<1>3. contact' \in [Peer -> {"none", "first"} \cup Path]
  BY <1>1 DEF TypeOK, RegisterReceiveService
<1>4. copies' \in [Address -> 0 .. MaxCopies] /\ age' \in [Address -> 0 .. Expired]
  BY <1>1, <1>2 DEF TypeOK, RegisterReceiveService
<1> QED
  BY <1>1, <1>3, <1>4 DEF TypeOK, RegisterReceiveService

LEMMA RemoveTypes ==
  ASSUME TypeOK, NEW a \in Address, RemoveReceiveService(a)
  PROVE  /\ heard' \in SUBSET Address
         /\ age' \in [Address -> 0 .. Expired]
         /\ copies' \in [Address -> 0 .. MaxCopies]
<1>1. Primary(a) \in Address
  BY AddressTypes
<1>2. Expired \in 0 .. Expired /\ MaxCopies \in Nat
  BY KeepAssumption, BoundAssumption DEF Expired
<1> QED
  BY <1>1, <1>2 DEF TypeOK, RemoveReceiveService

LEMMA TypeInit == Init => TypeOK
<1> SUFFICES ASSUME Init PROVE TypeOK
  OBVIOUS
<1> USE DEF Init
<1>1. known \in SUBSET Dual
  BY ConfigAssumption
<1>2. age \in [Address -> 0 .. Expired] /\ copies \in [Address -> 0 .. MaxCopies]
  BY KeepAssumption, BoundAssumption DEF Expired
<1>3. handler \in [Handler -> HandlerState] /\ caller \in [Caller -> CallerState]
  BY DEF HandlerState, CallerState
<1>4. callbacks \in [Name -> 0 .. MaxCallbacks]
  BY BoundAssumption
<1> QED
  BY <1>1, <1>2, <1>3, <1>4 DEF TypeOK

LEMMA TypeStep == TypeOK /\ [Next]_receiverVars => TypeOK'
<1> SUFFICES ASSUME TypeOK, [Next]_receiverVars PROVE TypeOK'
  OBVIOUS
<1> USE DEF meshVars
<1>1. ASSUME NEW h \in Handler, NEW m \in Request, Accept(h, m) PROVE TypeOK'
  <2>1. traced' \in [Name -> Peer \cup {NoPeer}]
    BY <1>1, PeerAssumption DEF Accept, Trace, TypeOK, Request
  <2>2. handler' \in [Handler -> HandlerState]
    BY <1>1 DEF Accept, TypeOK, HandlerState
  <2> QED
    BY <1>1, <2>1, <2>2 DEF Accept, TypeOK
<1>2. ASSUME NEW h \in Handler, Learn(h) PROVE TypeOK'
  <2>1. handler[h] \in [pc : {"learn", "apply", "callback"}, m : Request]
    BY <1>2 DEF Learn, TypeOK, HandlerState, Idle
  <2>2. handler' \in [Handler -> HandlerState]
    BY <1>2, <2>1 DEF Learn, TypeOK, HandlerState
  <2> QED
    BY <1>2, <2>2 DEF Learn, TypeOK
<1>3. ASSUME NEW h \in Handler, Apply(h) PROVE TypeOK'
  <2>1. handler[h] \in [pc : {"learn", "apply", "callback"}, m : Request]
    BY <1>3 DEF Apply, TypeOK, HandlerState, Idle
  <2>2. handler' \in [Handler -> HandlerState]
    BY <1>3, <2>1 DEF Apply, TypeOK, HandlerState
  <2>3. CheckerAddress(handler[h].m) \in Address /\ handler[h].m.peer \in Peer
    BY <2>1, AddressTypes DEF Request
  <2>4. CASE handler[h].m.notify
    BY <1>3, <2>2, <2>3, <2>4, RemoveTypes DEF Apply, TypeOK
  <2>5. CASE ~handler[h].m.notify
    BY <1>3, <2>2, <2>3, <2>5, RegisterTypes DEF Apply, TypeOK
  <2> QED
    BY <2>4, <2>5
<1>4. ASSUME NEW h \in Handler, Callback(h) PROVE TypeOK'
  <2>1. handler[h] \in [pc : {"learn", "apply", "callback"}, m : Request]
    BY <1>4 DEF Callback, TypeOK, HandlerState, Idle
  <2>2. handler' \in [Handler -> HandlerState]
    BY <1>4 DEF Callback, TypeOK, HandlerState
  <2>3. callbacks' \in [Name -> 0 .. MaxCallbacks]
    <3> DEFINE n == NameOf[handler[h].m.peer]
               next == IF n \notin called /\ callbacks[n] < MaxCallbacks
                       THEN callbacks[n] + 1 ELSE callbacks[n]
    <3>1. callbacks' = [callbacks EXCEPT ![n] = next]
      BY <1>4 DEF Callback
    <3>2. callbacks[n] \in 0 .. MaxCallbacks
      BY <2>1, PeerAssumption DEF TypeOK, Request
    <3>3. next \in 0 .. MaxCallbacks
      BY <3>2, BoundAssumption
    <3> QED
      BY <3>1, <3>3 DEF TypeOK
  <2> QED
    BY <1>4, <2>2, <2>3 DEF Callback, TypeOK
<1>5. ASSUME NEW n \in Name, NEW ok \in BOOLEAN, CallbackReturns(n, ok) PROVE TypeOK'
  BY <1>5, BoundAssumption DEF CallbackReturns, TypeOK
<1>6. CASE ReplaceSecondaryMap
  BY <1>6, ConfigAssumption DEF ReplaceSecondaryMap, TypeOK
<1>7. ASSUME NEW c \in Caller, NEW n \in Name, Lookup(c, n) PROVE TypeOK'
  <2> DEFINE using == IF nextSequence[n] >= Cardinality(Available(n)) THEN 0
                      ELSE nextSequence[n]
  <2>1. PICK a \in Available(n) :
          caller' = [caller EXCEPT ![c] =
                       [pc |-> "increment", name |-> n, using |-> using, addr |-> Route(a)]]
    BY <1>7 DEF Lookup
  <2>2. using \in Nat /\ Route(a) \in Address
    BY AddressTypes DEF TypeOK, Available
  <2>3. [pc |-> "increment", name |-> n, using |-> using, addr |-> Route(a)] \in CallerState
    BY <2>2 DEF CallerState
  <2>4. caller' \in [Caller -> CallerState]
    BY <2>1, <2>3 DEF TypeOK
  <2> QED
    BY <1>7, <2>4 DEF Lookup, TypeOK
<1>8. ASSUME NEW c \in Caller, Increment(c) PROVE TypeOK'
  <2>1. caller[c] \in [pc : {"increment"}, name : Name, using : Nat, addr : Address]
    BY <1>8 DEF Increment, TypeOK, CallerState, Idle
  <2>2. caller' \in [Caller -> CallerState]
    BY <1>8 DEF Increment, TypeOK, CallerState
  <2> QED
    BY <1>8, <2>1, <2>2 DEF Increment, TypeOK
<1>11. ASSUME NEW p \in Peer, TraceCall(p) PROVE TypeOK'
  BY <1>11, PeerAssumption DEF TraceCall, Trace, TypeOK
<1>12. ASSUME NEW c \in Caller, NEW n \in Name, LookupNone(c, n) PROVE TypeOK'
  BY <1>12 DEF LookupNone, TypeOK, CallerState
<1>13. ASSUME NEW c \in Caller, Fallback(c) PROVE TypeOK'
  <2> DEFINE p == traced[caller[c].name]
             next == IF p = NoPeer THEN Idle
                     ELSE [pc |-> "traced", name |-> caller[c].name, addr |-> <<p, "primary">>]
  <2>1. caller[c] \in [pc : {"fallback"}, name : Name] /\ p \in Peer \cup {NoPeer}
    BY <1>13 DEF Fallback, TypeOK, CallerState, Idle
  <2>2. next \in CallerState
    BY <2>1 DEF CallerState, Address, Path
  <2>3. caller' = [caller EXCEPT ![c] = next]
    BY <1>13 DEF Fallback
  <2> QED
    BY <1>13, <2>2, <2>3 DEF Fallback, TypeOK
<1>14. ASSUME NEW c \in Caller, Return(c) PROVE TypeOK'
  BY <1>14 DEF Return, TypeOK, CallerState
<1>9. CASE Tick
  <2>1. age' \in [Address -> 0 .. Expired]
    BY <1>9, KeepAssumption DEF Tick, TypeOK, Expired
  <2> QED
    BY <1>9, <2>1 DEF Tick, TypeOK
<1>10. CASE UNCHANGED receiverVars
  BY <1>10 DEF receiverVars, TypeOK
<1> QED
  BY <1>1, <1>2, <1>3, <1>4, <1>5, <1>6, <1>7, <1>8, <1>9, <1>10, <1>11, <1>12, <1>13, <1>14
     DEF Next, LocalStep

\* The receiver's state is well typed: what the handlers file are addresses, and the
\* entries a caller holds are those of a lookup.
THEOREM TypeCorrect == Spec => []TypeOK
  BY TypeInit, TypeStep, PTL DEF Spec

-----------------------------------------------------------------------------
(* The strengthening: where addresses are filed.                           *)

\* A handler about to apply its request files it under the peer's primary address.
LEMMA AppliesPrimary ==
  ASSUME TypeOK, HandlersOK, NEW h \in Handler, handler[h].pc = "apply"
  PROVE  LET m == handler[h].m
         IN  /\ m \in Request
             /\ CheckerAddress(m) \in Address
             /\ Primary(CheckerAddress(m)) = <<m.peer, "primary">>
             /\ NameOfAddress(CheckerAddress(m)) = NameOf[m.peer]
<1>1. handler[h] # Idle /\ handler[h] \in [pc : {"learn", "apply", "callback"}, m : Request]
  BY DEF TypeOK, HandlerState, Idle
<1>2. handler[h].m.path \in Path /\ handler[h].m.peer \in Peer
  BY <1>1 DEF Request
<1>3. handler[h].m.path = "secondary" => handler[h].m.peer \in known
  BY <1>1 DEF HandlersOK
<1> QED
  BY <1>1, <1>2, <1>3, AddressTypes DEF CheckerAddress, Primary, NameOfAddress, Path

LEMMA HandlersStep ==
  ASSUME MapCovers, TypeOK, HandlersOK, [Next]_receiverVars
  PROVE  HandlersOK'
<1> USE DEF HandlersOK, meshVars
<1>0. handler \in [Handler -> HandlerState] /\ known \subseteq Dual
  BY DEF TypeOK
<1>1. CASE UNCHANGED <<handler, known>>
  BY <1>1
<1>2. ASSUME NEW h \in Handler, NEW m \in Request, Accept(h, m) PROVE HandlersOK'
  <2>1. CASE m.path = "secondary" /\ m.peer \notin Dual
    BY <1>1, <1>2, <2>1 DEF Accept
  <2>2. CASE ~(m.path = "secondary" /\ m.peer \notin Dual)
    BY <1>0, <1>2, <2>2 DEF Accept
  <2> QED
    BY <2>1, <2>2
<1>3. ASSUME NEW h \in Handler, Learn(h) PROVE HandlersOK'
  BY <1>0, <1>3 DEF Learn, HandlerState, Idle
<1>4. ASSUME NEW h \in Handler, Apply(h) PROVE HandlersOK'
  BY <1>0, <1>4 DEF Apply, HandlerState, Idle
<1>5. ASSUME NEW h \in Handler, Callback(h) PROVE HandlersOK'
  BY <1>0, <1>5 DEF Callback, HandlerState, Idle
<1>6. CASE ReplaceSecondaryMap
  BY <1>6 DEF ReplaceSecondaryMap, MapCovers
<1> QED
  BY <1>1, <1>2, <1>3, <1>4, <1>5, <1>6
     DEF Next, LocalStep, CallbackReturns, Lookup, LookupNone, Fallback, Increment, Return, Tick,
         TraceCall, receiverVars

LEMMA FilesStep ==
  ASSUME TypeOK, HandlersOK, OnlyPrimaries, UnheardExpired, AddressBookAgrees,
         [Next]_receiverVars
  PROVE  OnlyPrimaries' /\ UnheardExpired' /\ AddressBookAgrees'
<1> USE DEF OnlyPrimaries, UnheardExpired, AddressBookAgrees, meshVars
<1>0. /\ age \in [Address -> 0 .. Expired] /\ copies \in [Address -> 0 .. MaxCopies]
      /\ MaxCopies \in Nat \ {0}
  BY BoundAssumption DEF TypeOK
<1>1. CASE UNCHANGED <<heard, age, copies>>
  BY <1>1
<1>2. ASSUME NEW h \in Handler, Apply(h)
      PROVE  OnlyPrimaries' /\ UnheardExpired' /\ AddressBookAgrees'
  <2> DEFINE a == CheckerAddress(handler[h].m)
             p == Primary(a)
  <2>1. a \in Address /\ p \in Address /\ p[2] = "primary"
    BY <1>2, AppliesPrimary, AddressTypes DEF Apply
  <2>2. CASE handler[h].m.notify
    <3>1. CASE ~Exists(NameOfAddress(a))
      BY <1>1, <1>2, <2>2, <3>1 DEF Apply, RemoveReceiveService
    <3>2. CASE Exists(NameOfAddress(a))
      <4>1. /\ age' = [age EXCEPT ![p] = Expired]
            /\ heard' = heard \cup {p}
            /\ copies' = [copies EXCEPT ![p] =
                            IF copies[a] = 0 /\ @ < MaxCopies THEN @ + 1 ELSE @]
        BY <1>2, <2>2, <3>2 DEF Apply, RemoveReceiveService
      \* The given address is listed only if it is the primary one.
      <4>2. copies[a] # 0 => a[2] = "primary"
        BY <1>0, <2>1
      <4>3. a[2] = "primary" => a = p
        BY DEF Primary
      <4>4. copies'[p] > 0
        BY <1>0, <2>1, <4>1, <4>2, <4>3
      <4> QED
        BY <1>0, <2>1, <4>1, <4>4
    <3> QED
      BY <3>1, <3>2
  <2>3. CASE ~handler[h].m.notify
    <3>1. /\ age' = [age EXCEPT ![p] = 0]
          /\ heard' = heard \cup {p}
          /\ copies' = [copies EXCEPT ![p] = IF @ = 0 THEN 1 ELSE @]
      BY <1>2, <2>3 DEF Apply, RegisterReceiveService
    <3> QED
      BY <1>0, <2>1, <3>1
  <2> QED
    BY <2>2, <2>3
<1>3. CASE Tick
  BY <1>0, <1>3, KeepAssumption DEF Tick, Expired
<1> QED
  BY <1>1, <1>2, <1>3
     DEF Next, LocalStep, Accept, Learn, Callback, ReplaceSecondaryMap, CallbackReturns,
         Lookup, LookupNone, Fallback, Increment, Return, TraceCall, receiverVars

-----------------------------------------------------------------------------
(* HealthOnSecondary.                                                      *)

LEMMA MarksStep ==
  TypeOK /\ MarksFollowContact /\ [Next]_receiverVars => MarksFollowContact'
<1> SUFFICES ASSUME TypeOK, MarksFollowContact, [Next]_receiverVars, NEW p \in Peer
             PROVE  /\ <<p, "primary">> \in onSecondary' => <<p, "primary">> \in heard'
                    /\ contact'[p] \in Path =>
                         (<<p, "primary">> \in onSecondary' <=> contact'[p] = "secondary")
  BY DEF MarksFollowContact
<1> DEFINE Marked == /\ <<p, "primary">> \in onSecondary' => <<p, "primary">> \in heard'
                     /\ contact'[p] \in Path =>
                          (<<p, "primary">> \in onSecondary' <=> contact'[p] = "secondary")
<1> USE DEF meshVars
<1>0. /\ <<p, "primary">> \in onSecondary => <<p, "primary">> \in heard
      /\ contact[p] \in Path => (<<p, "primary">> \in onSecondary <=> contact[p] = "secondary")
      /\ contact \in [Peer -> {"none", "first"} \cup Path]
  BY DEF MarksFollowContact, TypeOK
<1>1. ASSUME heard \subseteq heard', UNCHANGED <<onSecondary, contact>> PROVE Marked
  BY <1>0, <1>1
<1>2. ASSUME NEW h \in Handler, Apply(h) PROVE Marked
  <2> DEFINE a == CheckerAddress(handler[h].m)
  <2>1. handler[h] \in [pc : {"learn", "apply", "callback"}, m : Request]
    BY <1>2 DEF Apply, TypeOK, HandlerState, Idle
  <2>2. a \in Address /\ a[1] \in Peer /\ a[2] \in Path
    BY <2>1, AddressTypes DEF Address
  <2>3. CASE handler[h].m.notify
    BY <1>1, <1>2, <2>3 DEF Apply, RemoveReceiveService
  <2>4. CASE ~handler[h].m.notify
    <3> DEFINE q == Primary(a)
               first == ~Exists(NameOfAddress(a))
    <3>1. /\ heard' = heard \cup {q}
          /\ onSecondary' =
               IF q # a THEN onSecondary \cup {IF first THEN a ELSE q}
               ELSE IF first THEN onSecondary ELSE onSecondary \ {q}
          /\ contact' = [contact EXCEPT ![a[1]] =
                           IF a[2] = "secondary" /\ (first \/ q = a) THEN "first" ELSE a[2]]
      BY <1>2, <2>4 DEF Apply, RegisterReceiveService
    <3>2. q = a \/ (a[2] = "secondary" /\ q = <<a[1], "primary">>)
      BY DEF Primary
    <3>3. a = <<a[1], a[2]>>
      BY <2>2 DEF Address
    <3>4. CASE a[1] # p
      BY <1>0, <2>2, <3>1, <3>2, <3>3, <3>4
    <3>5. CASE a[1] = p
      \* A name without an entry has no marks either.
      <4>1. first => <<p, "primary">> \notin onSecondary
        BY <1>0, <3>5 DEF Exists, NameOfAddress
      <4>2. contact'[p] = IF a[2] = "secondary" /\ (first \/ q = a) THEN "first" ELSE a[2]
        BY <1>0, <3>1, <3>5
      <4>3. CASE a[2] = "primary"
        BY <1>0, <3>1, <3>2, <3>3, <3>5, <4>1, <4>2, <4>3 DEF Path
      <4>4. CASE a[2] = "secondary"
        BY <1>0, <3>1, <3>2, <3>3, <3>5, <4>1, <4>2, <4>4 DEF Path
      <4> QED
        BY <2>2, <4>3, <4>4 DEF Path
    <3> QED
      BY <3>4, <3>5
  <2> QED
    BY <2>3, <2>4
<1> QED
  BY <1>1, <1>2
     DEF Next, LocalStep, Accept, Learn, Callback, ReplaceSecondaryMap, CallbackReturns,
         Lookup, LookupNone, Fallback, Increment, Return, TraceCall, Tick, receiverVars

LEMMA MarksInvariant == Spec => [](TypeOK /\ MarksFollowContact)
<1>1. Init => TypeOK /\ MarksFollowContact
  BY TypeInit DEF Init, MarksFollowContact, Path
<1>2. TypeOK /\ MarksFollowContact /\ [Next]_receiverVars => (TypeOK /\ MarksFollowContact)'
  BY TypeStep, MarksStep
<1> QED
  BY <1>1, <1>2, PTL DEF Spec

\* A call to a peer with a secondary address takes the path of the peer's latest
\* check, the one that makes the entry of its name excepted.
THEOREM RoutesByLastContactHolds == Spec => []RoutesByLastContact
<1>1. TypeOK /\ MarksFollowContact => RoutesByLastContact
  <2> SUFFICES ASSUME TypeOK, MarksFollowContact, NEW p \in known, contact[p] \in Path
               PROVE  Route(<<p, "primary">>) = <<p, contact[p]>>
    BY DEF RoutesByLastContact
  <2>1. p \in Peer /\ (<<p, "primary">> \in onSecondary <=> contact[p] = "secondary")
    BY PeerAssumption DEF TypeOK, MarksFollowContact
  <2>2. CASE contact[p] = "secondary"
    BY <2>1, <2>2 DEF Route
  <2>3. CASE contact[p] = "primary"
    BY <2>1, <2>3 DEF Route
  <2> QED
    BY <2>2, <2>3 DEF Path
<1> QED
  BY MarksInvariant, <1>1, PTL

-----------------------------------------------------------------------------
(* The lists and the leases.                                               *)

LEMMA Invariant == ASSUME MapCovers PROVE Spec => []IInv
<1>1. Init => IInv
  <2> SUFFICES ASSUME Init PROVE IInv
    OBVIOUS
  <2>1. TypeOK
    BY TypeInit
  <2>2. HandlersOK /\ OnlyPrimaries /\ UnheardExpired /\ MarksFollowContact
    BY DEF Init, HandlersOK, OnlyPrimaries, UnheardExpired, MarksFollowContact, Path
  <2>3. AddressBookAgrees
    BY DEF Init, AddressBookAgrees
  <2> QED
    BY <2>1, <2>2, <2>3 DEF IInv
<1>2. IInv /\ [Next]_receiverVars => IInv'
  BY TypeStep, HandlersStep, FilesStep, MarksStep DEF IInv
<1> QED
  BY <1>1, <1>2, PTL DEF Spec

\* ReceiveTime and Address list the same addresses, if the configured map of
\* secondary addresses covers the announced ones.
THEOREM AddressBookAgreesHolds == ASSUME MapCovers PROVE Spec => []AddressBookAgrees
<1>1. IInv => AddressBookAgrees
  BY DEF IInv
<1> QED
  BY Invariant, <1>1, PTL

LEMMA LeaseInits == Init => Lease!LeaseInit
<1> SUFFICES ASSUME Init PROVE Lease!LeaseInit
  OBVIOUS
<1>1. \A p \in Peer : Expired - age[<<p, "primary">>] = 0
  BY KeepAssumption DEF Init, Address, Path, Expired
<1>2. \A c \in Caller : caller[c].pc = "idle"
  BY DEF Init, Idle
<1> QED
  BY <1>1, <1>2 DEF Init, Lease!LeaseInit

\* Nothing that the abstract registry knows changes.
LEMMA LeaseStutters ==
  ASSUME UNCHANGED <<age, left, traced, caller>>
  PROVE  UNCHANGED Lease!leaseVars
  BY DEF Lease!leaseVars

\* The registry's variables, as the refinement mapping gives them.
LeaseOf == [p \in Peer |-> Expired - age[<<p, "primary">>]]
AskedOf == [c \in Caller |-> IF caller[c].pc = "fallback" THEN {caller[c].name} ELSE {}]
UsingOf == [c \in Caller |-> IF caller[c].pc \in {"increment", "traced"}
                             THEN caller[c].addr[1] ELSE NoPeer]

\* A caller that goes from one step of a look-up to another.
LEMMA CallerMoves ==
  ASSUME caller \in [Caller -> CallerState], NEW c \in Caller, NEW state,
         caller' = [caller EXCEPT ![c] = state]
  PROVE  /\ AskedOf' = [AskedOf EXCEPT ![c] = IF state.pc = "fallback" THEN {state.name} ELSE {}]
         /\ UsingOf' = [UsingOf EXCEPT ![c] = IF state.pc \in {"increment", "traced"}
                                              THEN state.addr[1] ELSE NoPeer]
<1>1. \A d \in Caller : caller'[d] = IF d = c THEN state ELSE caller[d]
  OBVIOUS
<1>2. AskedOf' = [AskedOf EXCEPT ![c] = IF state.pc = "fallback" THEN {state.name} ELSE {}]
  BY <1>1 DEF AskedOf
<1>3. UsingOf' = [UsingOf EXCEPT ![c] = IF state.pc \in {"increment", "traced"}
                                        THEN state.addr[1] ELSE NoPeer]
  BY <1>1 DEF UsingOf
<1> QED
  BY <1>2, <1>3

LEMMA LeaseActions ==
  ASSUME NEW p \in Peer, UNCHANGED <<traced, AskedOf, UsingOf>>
  PROVE  /\ LeaseOf' = [LeaseOf EXCEPT ![p] = 0] /\ left' = left \cup {p} => Lease!LeaseNext
         /\ LeaseOf' = [LeaseOf EXCEPT ![p] = Keep + 1] /\ left' = left \ {p} => Lease!LeaseNext
<1>1. LeaseOf' = [LeaseOf EXCEPT ![p] = 0] /\ left' = left \cup {p} => Lease!Revoke(p)
  BY DEF LeaseOf, AskedOf, UsingOf, Lease!Revoke
<1>2. LeaseOf' = [LeaseOf EXCEPT ![p] = Keep + 1] /\ left' = left \ {p} => Lease!Renew(p)
  BY DEF LeaseOf, AskedOf, UsingOf, Lease!Renew
<1> QED
  BY <1>1, <1>2 DEF Lease!LeaseNext

LEMMA LeaseApplies ==
  ASSUME IInv, NEW h \in Handler, Apply(h)
  PROVE  Lease!LeaseNext
<1> USE DEF meshVars
<1>0. /\ age \in [Address -> 0 .. Expired] /\ left \in SUBSET Peer
      /\ Keep \in Nat
  BY KeepAssumption DEF IInv, TypeOK
<1>1. PICK p \in Peer :
        /\ p = handler[h].m.peer
        /\ Primary(CheckerAddress(handler[h].m)) = <<p, "primary">>
        /\ NameOfAddress(CheckerAddress(handler[h].m)) = NameOf[p]
  BY AppliesPrimary DEF IInv, Apply, Request
<1>2. UNCHANGED <<traced, AskedOf, UsingOf>>
  BY DEF Apply, AskedOf, UsingOf
<1>3. \A q \in Peer : <<q, "primary">> \in Address
  BY DEF Address, Path
<1>4. CASE handler[h].m.notify
  <2>1. left' = left \cup {p}
    BY <1>1, <1>4 DEF Apply
  <2>2. age' = [age EXCEPT ![<<p, "primary">>] = Expired]
    <3>1. CASE Exists(NameOf[p])
      BY <1>1, <1>4, <3>1 DEF Apply, RemoveReceiveService
    <3>2. CASE ~Exists(NameOf[p])
      <4>1. <<p, "primary">> \notin heard
        BY <3>2 DEF Exists, NameOfAddress
      <4>2. age[<<p, "primary">>] = Expired
        BY <1>3, <4>1 DEF IInv, UnheardExpired
      <4>3. UNCHANGED age
        BY <1>1, <1>4, <3>2 DEF Apply, RemoveReceiveService
      <4> QED
        BY <1>0, <4>2, <4>3
    <3> QED
      BY <3>1, <3>2
  <2>3. \A q \in Peer : age'[<<q, "primary">>] =
                         IF q = p THEN Expired ELSE age[<<q, "primary">>]
    BY <1>0, <1>3, <2>2
  <2>4. Expired - Expired = 0
    BY <1>0 DEF Expired
  <2>5. LeaseOf' = [LeaseOf EXCEPT ![p] = 0]
    BY <2>3, <2>4 DEF LeaseOf
  <2> QED
    BY <1>2, <2>1, <2>5, LeaseActions
<1>5. CASE ~handler[h].m.notify
  <2>1. left' = left \ {p}
    BY <1>1, <1>5 DEF Apply
  <2>2. age' = [age EXCEPT ![<<p, "primary">>] = 0]
    BY <1>1, <1>5 DEF Apply, RegisterReceiveService
  <2>3. \A q \in Peer : age'[<<q, "primary">>] =
                         IF q = p THEN 0 ELSE age[<<q, "primary">>]
    BY <1>0, <1>3, <2>2
  <2>4. Expired - 0 = Keep + 1
    BY <1>0 DEF Expired
  <2>5. LeaseOf' = [LeaseOf EXCEPT ![p] = Keep + 1]
    BY <2>3, <2>4 DEF LeaseOf
  <2> QED
    BY <1>2, <2>1, <2>5, LeaseActions
<1> QED
  BY <1>4, <1>5

LEMMA LeaseResolves ==
  ASSUME IInv, NEW c \in Caller, NEW n \in Name, Lookup(c, n)
  PROVE  Lease!LeaseNext
<1>1. PICK a \in Available(n), using \in Nat :
        caller' = [caller EXCEPT ![c] =
                     [pc |-> "increment", name |-> n, using |-> using, addr |-> Route(a)]]
  BY DEF Lookup, IInv, TypeOK
<1> DEFINE state == [pc |-> "increment", name |-> n, using |-> using, addr |-> Route(a)]
<1>2. /\ a \in Address /\ a = <<a[1], "primary">> /\ a[1] \in Peer /\ Route(a)[1] = a[1]
      /\ age[a] <= Keep
  BY AddressTypes DEF IInv, TypeOK, OnlyPrimaries, Available, Address
<1>3. LeaseOf[a[1]] > 0
  BY <1>2, KeepAssumption DEF IInv, TypeOK, Expired, LeaseOf
<1>4. caller[c] = Idle /\ UNCHANGED <<age, left, traced>>
  BY DEF Lookup, meshVars
<1>5. UsingOf[c] = NoPeer /\ AskedOf[c] = {}
  BY <1>4 DEF UsingOf, AskedOf, Idle
<1>6. /\ AskedOf' = [AskedOf EXCEPT ![c] = {}]
      /\ UsingOf' = [UsingOf EXCEPT ![c] = a[1]]
  <2>1. state.pc = "increment" /\ state.addr[1] = a[1] /\ caller' = [caller EXCEPT ![c] = state]
    BY <1>1, <1>2
  <2> HIDE DEF state
  <2> QED
    BY <2>1, CallerMoves DEF IInv, TypeOK
<1>7. AskedOf' = AskedOf /\ UNCHANGED LeaseOf
  BY <1>4, <1>5, <1>6 DEF AskedOf, LeaseOf
<1>8. Lease!Resolve(c, a[1])
  BY <1>3, <1>4, <1>5, <1>6, <1>7 DEF UsingOf, AskedOf, LeaseOf, Lease!Resolve
<1> QED
  BY <1>2, <1>8 DEF Lease!LeaseNext

\* A look-up that finds no address has found no lease: a lease that runs is one of an
\* address that was heard of.
LEMMA LeaseFindsNobody ==
  ASSUME IInv, NEW c \in Caller, NEW n \in Name, LookupNone(c, n)
  PROVE  Lease!LeaseNext
<1>1. \A p \in Peer : NameOf[p] = n => LeaseOf[p] = 0
  <2> SUFFICES ASSUME NEW p \in Peer, NameOf[p] = n PROVE LeaseOf[p] = 0
    OBVIOUS
  <2> DEFINE a == <<p, "primary">>
  <2>1. a \in Address /\ NameOfAddress(a) = n /\ age[a] \in 0 .. Expired
    BY DEF Address, Path, NameOfAddress, IInv, TypeOK
  <2>2. a \in heard => ~(age[a] <= Keep)
    BY <2>1 DEF LookupNone, Available
  <2>3. age[a] = Expired
    BY <2>1, <2>2, KeepAssumption DEF IInv, UnheardExpired, Expired
  <2> QED
    BY <2>3, KeepAssumption DEF LeaseOf, Expired
<1>2. caller[c] = Idle /\ UNCHANGED <<age, left, traced>>
  BY DEF LookupNone, meshVars
<1>3. UsingOf[c] = NoPeer /\ AskedOf[c] = {}
  BY <1>2 DEF UsingOf, AskedOf, Idle
<1>4. /\ AskedOf' = [AskedOf EXCEPT ![c] = {n}]
      /\ UsingOf' = [UsingOf EXCEPT ![c] = NoPeer]
  <2> DEFINE state == [pc |-> "fallback", name |-> n]
  <2>1. state.pc = "fallback" /\ state.name = n /\ caller' = [caller EXCEPT ![c] = state]
    BY DEF LookupNone
  <2> HIDE DEF state
  <2> QED
    BY <2>1, CallerMoves DEF IInv, TypeOK
<1>5. UsingOf' = UsingOf /\ UNCHANGED LeaseOf
  BY <1>2, <1>3, <1>4 DEF UsingOf, LeaseOf
<1>6. Lease!FindNobody(c, n)
  BY <1>1, <1>2, <1>3, <1>4, <1>5 DEF UsingOf, AskedOf, LeaseOf, Lease!FindNobody
<1> QED
  BY <1>6 DEF Lease!LeaseNext

LEMMA LeaseFallsBack ==
  ASSUME IInv, NEW c \in Caller, Fallback(c)
  PROVE  Lease!LeaseNext
<1>0. PICK n \in Name : n = caller[c].name
  BY DEF Fallback, IInv, TypeOK, CallerState, Idle
<1> DEFINE state == IF traced[n] = NoPeer THEN Idle
                    ELSE [pc |-> "traced", name |-> n, addr |-> <<traced[n], "primary">>]
<1>1. caller[c].pc = "fallback" /\ n = caller[c].name /\ caller' = [caller EXCEPT ![c] = state]
  BY <1>0 DEF Fallback
<1>2. UNCHANGED <<age, left, traced>>
  BY DEF Fallback, meshVars
<1>3. /\ state.pc # "fallback"
      /\ (IF state.pc \in {"increment", "traced"} THEN state.addr[1] ELSE NoPeer) = traced[n]
  BY DEF Idle
<1>4. AskedOf' = [AskedOf EXCEPT ![c] = {}] /\ UsingOf' = [UsingOf EXCEPT ![c] = traced[n]]
  <2> HIDE DEF state
  <2> QED
    BY <1>1, <1>3, CallerMoves DEF IInv, TypeOK
<1>5. AskedOf[c] = {n} /\ UNCHANGED LeaseOf
  BY <1>1, <1>2 DEF AskedOf, LeaseOf
<1>6. Lease!LastResort(c, n)
  BY <1>2, <1>4, <1>5 DEF UsingOf, AskedOf, LeaseOf, Lease!LastResort
<1> QED
  BY <1>6 DEF Lease!LeaseNext

LEMMA LeaseHears ==
  ASSUME NEW p \in Peer, Trace(p), UNCHANGED <<age, left, caller>>
  PROVE  Lease!LeaseNext
<1>1. Lease!Hear(p)
  BY DEF Trace, Lease!Hear
<1> QED
  BY <1>1 DEF Lease!LeaseNext

LEMMA LeaseRunsDown == ASSUME IInv, Tick PROVE Lease!LeaseNext
<1>1. \A p \in Peer : <<p, "primary">> \in Address /\ age[<<p, "primary">>] \in 0 .. Expired
  BY DEF IInv, TypeOK, Address, Path
<1>2. \A p \in Peer : Expired - age'[<<p, "primary">>] =
        IF Expired - age[<<p, "primary">>] = 0 THEN 0 ELSE Expired - age[<<p, "primary">>] - 1
  <2> TAKE p \in Peer
  <2>1. age'[<<p, "primary">>] = IF age[<<p, "primary">>] < Expired
                                 THEN age[<<p, "primary">>] + 1 ELSE Expired
    BY <1>1 DEF Tick
  <2>2. Expired \in Nat /\ age[<<p, "primary">>] \in 0 .. Expired
    BY <1>1, KeepAssumption DEF Expired
  <2> QED
    BY <2>1, <2>2
<1>3. UNCHANGED <<left, traced, caller>>
  BY DEF Tick
<1>4. Lease!RunDown
  BY <1>2, <1>3 DEF Lease!RunDown
<1> QED
  BY <1>4 DEF Lease!LeaseNext

LEMMA LeaseReleases ==
  ASSUME IInv, NEW c \in Caller, Increment(c) \/ Return(c)
  PROVE  Lease!LeaseNext
<1>1. /\ caller[c].pc \in {"increment", "traced"}
      /\ caller' = [caller EXCEPT ![c] = Idle] /\ UNCHANGED <<age, left, traced>>
  BY DEF Increment, Return, meshVars
<1>2. AskedOf' = [AskedOf EXCEPT ![c] = {}] /\ UsingOf' = [UsingOf EXCEPT ![c] = NoPeer]
  <2>1. Idle.pc = "idle"
    BY DEF Idle
  <2> QED
    BY <1>1, <2>1, CallerMoves DEF IInv, TypeOK
<1>3. AskedOf[c] = {} /\ UNCHANGED LeaseOf
  BY <1>1 DEF AskedOf, LeaseOf
<1>4. UNCHANGED AskedOf
  BY <1>2, <1>3 DEF AskedOf
<1>5. Lease!Release(c)
  BY <1>1, <1>2, <1>3, <1>4 DEF UsingOf, AskedOf, LeaseOf, Lease!Release
<1> QED
  BY <1>5 DEF Lease!LeaseNext

\* The receiver implements the registry of leases: a check on either address of a
\* peer renews its lease, a notice on either revokes it, time runs it down, and a
\* look-up returns a peer whose lease runs; only one that finds no such peer returns
\* the peer of the name that was heard of last, which may be long gone. It takes a
\* configured map of secondary addresses that covers the announced ones.
THEOREM KeepsLeasesHolds == ASSUME MapCovers PROVE Spec => KeepsLeases
<1>1. ASSUME IInv, [Next]_receiverVars PROVE [Lease!LeaseNext]_(Lease!leaseVars)
  <2>1. ASSUME NEW h \in Handler, Apply(h) PROVE [Lease!LeaseNext]_(Lease!leaseVars)
    BY <1>1, <2>1, LeaseApplies
  <2>2. ASSUME NEW c \in Caller, NEW n \in Name, Lookup(c, n) \/ LookupNone(c, n)
        PROVE  Lease!LeaseNext
    BY <1>1, <2>2, LeaseResolves, LeaseFindsNobody
  <2>3. ASSUME NEW c \in Caller, Fallback(c) \/ Increment(c) \/ Return(c) PROVE Lease!LeaseNext
    BY <1>1, <2>3, LeaseFallsBack, LeaseReleases
  <2>4. CASE Tick
    BY <1>1, <2>4, LeaseRunsDown
  <2>5. CASE UNCHANGED <<age, left, traced, caller>>
    BY <2>5, LeaseStutters
  <2>6. ASSUME NEW h \in Handler, NEW m \in Request, Accept(h, m)
        PROVE  [Lease!LeaseNext]_(Lease!leaseVars)
    <3>1. m.peer \in Peer /\ UNCHANGED <<age, left, caller>> /\ (Trace(m.peer) \/ UNCHANGED traced)
      BY <2>6 DEF Accept, meshVars, Request
    <3> QED
      BY <3>1, LeaseHears, LeaseStutters
  <2>7. ASSUME NEW p \in Peer, TraceCall(p) PROVE Lease!LeaseNext
    BY <2>7, LeaseHears DEF TraceCall, meshVars
  <2> QED
    BY <1>1, <2>1, <2>2, <2>3, <2>4, <2>5, <2>6, <2>7
       DEF Next, LocalStep, Learn, Callback, ReplaceSecondaryMap,
           CallbackReturns, receiverVars, meshVars
<1> QED
  BY LeaseInits, Invariant, <1>1, PTL DEF Spec, KeepsLeases, Lease!LeaseSpec

-----------------------------------------------------------------------------
(* Peers that come and go, over calls that are lost, late or reordered.    *)

\* No call outlives the process that makes it, as far as its sender goes.
CallsDieWithPeer ==
  \A p \in Peer : phase[p] = "exited" => round[p] = "none" /\ notice[p] = "none"

NetInv == NetTypeOK /\ CallsDieWithPeer

\* Whatever the peers and the network do, the receiver takes steps of its own.
LEMMA NetStepIsReceivers == [NetNext]_vars => [Next]_receiverVars
<1> SUFFICES ASSUME [NetNext]_vars PROVE [Next]_receiverVars
  OBVIOUS
<1>1. CASE \E h \in Handler, m \in Request : Deliver(h, m)
  BY <1>1 DEF Deliver, Next
<1>2. CASE ReceiverStep
  BY <1>2 DEF ReceiverStep, Next
<1>3. CASE UNCHANGED receiverVars
  BY <1>3
<1>4. CASE \E p \in Peer : EndTraffic(p)
  BY <1>3, <1>4 DEF EndTraffic, Next
<1> QED
  BY <1>1, <1>2, <1>3, <1>4
     DEF NetNext, vars, receiverVars, StartRound, StartShutdown, RetrySecondary, EndCall, Exit,
         Restart, SendTraffic, Lose

LEMMA NetBegins == NetInit => NetInv
BY TypeInit DEF NetInit, NetInv, NetTypeOK, CallsDieWithPeer, Call

LEMMA MessageTypes ==
  ASSUME NEW p \in Peer, NEW path \in Path, NEW notify \in BOOLEAN
  PROVE  Message(p, path, notify) \in Request /\ Message(p, path, notify).peer = p
BY DEF Message, Request

\* What the peers and the network do to their own state.
LEMMA NetStep == NetInv /\ [NetNext]_vars => NetInv'
<1> SUFFICES ASSUME NetInv, [NetNext]_vars PROVE NetInv'
  OBVIOUS
<1>0. TypeOK' /\ "primary" \in Path /\ "secondary" \in Path
  BY NetStepIsReceivers, TypeStep DEF NetInv, NetTypeOK, Path
<1>1. ASSUME NEW p \in Peer, StartRound(p) \/ StartShutdown(p) \/ RetrySecondary(p) PROVE NetInv'
  <2>1. /\ \/ net' = net
           \/ \E path \in Path, notify \in BOOLEAN : net' = net \cup {Message(p, path, notify)}
        /\ UNCHANGED <<noticed, traffic>>
        /\ \/ round' = round /\ notice' = notice
           \/ \E call \in {"primary", "secondary"} :
                \/ round' = [round EXCEPT ![p] = call] /\ notice' = notice
                \/ notice' = [notice EXCEPT ![p] = call] /\ round' = round
        /\ phase' = phase \/ phase' = [phase EXCEPT ![p] = "stopping"]
        /\ phase[p] # "exited"
    BY <1>0, <1>1 DEF NetInv, CallsDieWithPeer, StartRound, StartShutdown, RetrySecondary
  <2>2. net' \in SUBSET Request
    BY <2>1, MessageTypes DEF NetInv, NetTypeOK
  <2>3. /\ phase' \in [Peer -> {"running", "stopping", "exited"}] /\ traffic' \in SUBSET Peer
        /\ round' \in [Peer -> Call] /\ notice' \in [Peer -> Call] /\ noticed' \in SUBSET Peer
    BY <2>1 DEF NetInv, NetTypeOK, Call
  <2>4. CallsDieWithPeer'
    BY <2>1 DEF NetInv, NetTypeOK, CallsDieWithPeer
  <2> QED
    BY <1>0, <2>2, <2>3, <2>4 DEF NetInv, NetTypeOK
<1>2. ASSUME NEW p \in Peer, EndCall(p) \/ Exit(p) \/ Restart(p) PROVE NetInv'
  BY <1>0, <1>2 DEF NetInv, NetTypeOK, CallsDieWithPeer, Call, EndCall, Exit, Restart
<1>3. ASSUME NEW m \in Request, Lose(m) \/ \E h \in Handler : Deliver(h, m) PROVE NetInv'
  BY <1>0, <1>3 DEF NetInv, NetTypeOK, CallsDieWithPeer, Lose, Deliver, peerVars
<1>4. CASE ReceiverStep
  <2>1. ASSUME NEW h \in Handler, handler[h].pc = "apply" PROVE handler[h].m.peer \in Peer
    <3>1. handler[h] # Idle /\ handler[h] \in HandlerState
      BY <2>1 DEF Idle, NetInv, NetTypeOK, TypeOK
    <3> QED
      BY <3>1 DEF HandlerState, Request
  <2>2. noticed' \in SUBSET Peer
    BY <1>4, <2>1 DEF ReceiverStep, NetInv, NetTypeOK
  <2> QED
    BY <1>0, <1>4, <2>2 DEF NetInv, NetTypeOK, CallsDieWithPeer, ReceiverStep, peerVars
<1>5. CASE UNCHANGED vars
  BY <1>0, <1>5 DEF vars, NetInv, NetTypeOK, CallsDieWithPeer
<1>6. ASSUME NEW p \in Peer, SendTraffic(p) \/ EndTraffic(p) PROVE NetInv'
  BY <1>0, <1>6 DEF NetInv, NetTypeOK, CallsDieWithPeer, SendTraffic, EndTraffic, peerVars
<1> QED
  BY <1>1, <1>2, <1>3, <1>4, <1>5, <1>6 DEF NetNext

\* A process that has ended makes no call, and the messages of the net are requests.
THEOREM NetTypeCorrect == NetSpec => [](NetTypeOK /\ CallsDieWithPeer)
BY NetBegins, NetStep, PTL DEF NetSpec, NetInv

\* Peers that check, retry, stop, crash and restart over a network that loses, delays
\* and reorders their calls leave the receiver one that ReceiverMesh describes: what is
\* proved of it holds among them.
THEOREM NetRunsReceiver == NetSpec => Spec
<1>1. NetInit => Init
  BY DEF NetInit
<1> QED
  BY <1>1, NetStepIsReceivers, PTL DEF NetSpec, Spec

\* Among them too a dual-homed peer is routed by the path of its latest check.
THEOREM NetRoutesByLastContact == NetSpec => []RoutesByLastContact
BY NetRunsReceiver, RoutesByLastContactHolds, PTL

\* And among them too the receiver keeps a lease per peer, which checks renew, notices
\* revoke and time runs down, and only a look-up that finds none of the name running
\* is given a peer without one: the last of the name that was heard of.
THEOREM NetKeepsLeases == ASSUME MapCovers PROVE NetSpec => KeepsLeases
BY NetRunsReceiver, KeepsLeasesHolds

\* The lists of a peer none of whose requests is being applied change with time only.
LEMMA OthersLeaveAlone ==
  ASSUME TypeOK, NEW p \in Peer, LocalStep,
         \A h \in Handler : handler[h] = Idle \/ handler[h].m.peer # p
  PROVE  /\ traced' = traced
         /\ \A path \in Path :
              /\ age'[<<p, path>>] >= age[<<p, path>>]
              /\ <<p, path>> \in heard' => <<p, path>> \in heard
<1>0. traced' = traced
  BY DEF LocalStep, Learn, Apply, Callback, CallbackReturns, ReplaceSecondaryMap, Lookup,
         LookupNone, Fallback, Increment, Return, Tick
<1> SUFFICES ASSUME NEW path \in Path
             PROVE  /\ age'[<<p, path>>] >= age[<<p, path>>]
                    /\ <<p, path>> \in heard' => <<p, path>> \in heard
  BY <1>0
<1>1. /\ <<p, path>> \in Address /\ age[<<p, path>>] \in 0 .. Expired
      /\ Expired \in Nat /\ age \in [Address -> 0 .. Expired]
  BY KeepAssumption DEF TypeOK, Address, Expired
<1>2. ASSUME NEW h \in Handler, Apply(h)
      PROVE  /\ age'[<<p, path>>] = age[<<p, path>>]
             /\ <<p, path>> \in heard' => <<p, path>> \in heard
  <2> DEFINE a == CheckerAddress(handler[h].m)
  <2>1. a[1] = handler[h].m.peer /\ handler[h] # Idle
    BY <1>2 DEF CheckerAddress, Apply, Idle
  <2>2. Primary(a)[1] # p
    BY <2>1 DEF Primary
  <2>3. Primary(a) # <<p, path>>
    BY <2>2
  <2>4. \/ age' = [age EXCEPT ![Primary(a)] = 0] /\ heard' = heard \cup {Primary(a)}
        \/ age' = [age EXCEPT ![Primary(a)] = Expired] /\ heard' = heard \cup {Primary(a)}
        \/ age' = age /\ heard' = heard
    BY <1>2 DEF Apply, RegisterReceiveService, RemoveReceiveService
  <2> HIDE DEF a
  <2> QED
    BY <1>1, <2>3, <2>4
<1>3. CASE Tick
  BY <1>1, <1>3 DEF Tick
<1>4. CASE UNCHANGED <<age, heard>>
  BY <1>1, <1>4
<1>5. (\E h \in Handler : Apply(h)) \/ Tick \/ UNCHANGED <<age, heard>>
  BY DEF LocalStep, Learn, Callback, CallbackReturns, ReplaceSecondaryMap, Lookup, LookupNone,
         Fallback, Increment, Return, meshVars
<1>6. CASE \E h \in Handler : Apply(h)
  BY <1>1, <1>2, <1>6
<1> QED
  BY <1>3, <1>4, <1>5, <1>6

\* Nor does the receiver begin a request that no peer has sent.
LEMMA OthersStayOthers ==
  ASSUME TypeOK, NEW p \in Peer, LocalStep,
         \A h \in Handler : handler[h] = Idle \/ handler[h].m.peer # p
  PROVE  \A h \in Handler : handler'[h] = Idle \/ handler'[h].m.peer # p
<1> SUFFICES ASSUME NEW h \in Handler, handler'[h] # handler[h]
             PROVE  handler'[h] = Idle \/ handler'[h].m.peer # p
  OBVIOUS
<1>1. \E g \in Handler :
        /\ handler[g].pc \in {"learn", "apply", "callback"}
        /\ \/ handler' = [handler EXCEPT ![g].pc = "apply"]
           \/ handler' = [handler EXCEPT ![g].pc = "callback"]
           \/ handler' = [handler EXCEPT ![g] = Idle]
  BY DEF LocalStep, Learn, Apply, Callback, CallbackReturns, ReplaceSecondaryMap, Lookup,
         LookupNone, Fallback, Increment, Return, Tick
<1>2. /\ handler[h].pc \in {"learn", "apply", "callback"}
      /\ \/ handler' = [handler EXCEPT ![h].pc = "apply"]
         \/ handler' = [handler EXCEPT ![h].pc = "callback"]
         \/ handler' = [handler EXCEPT ![h] = Idle]
  BY <1>1 DEF TypeOK
<1>3. handler[h] # Idle
  BY <1>2 DEF Idle
<1>4. /\ handler[h] \in [pc : {"learn", "apply", "callback"}, m : Request]
      /\ handler \in [Handler -> HandlerState]
  BY <1>3 DEF TypeOK, HandlerState
<1> QED
  BY <1>2, <1>3, <1>4

\* A peer's trace and addresses, as the steps that are not its own leave them.
Quiet(p) ==
  /\ \A m \in net : m.peer # p
  /\ p \notin traffic
  /\ \A h \in Handler : handler[h] = Idle \/ handler[h].m.peer # p

Aged(p) ==
  /\ traced'[NameOf[p]] = p => traced[NameOf[p]] = p
  /\ \A path \in Path : /\ age'[<<p, path>>] >= age[<<p, path>>]
                        /\ <<p, path>> \in heard' => <<p, path>> \in heard

LEMMA QuietIsNotUnderWay == \A p \in Peer : ~UnderWay(p) <=> Quiet(p)
BY DEF UnderWay, Quiet

\* No step of anybody else brings a peer that is gone back.
LEMMA GoneStep ==
  ASSUME NetInv, [NetNext]_vars, NEW p \in Peer,
         phase[p] = "exited", phase'[p] = "exited", Quiet(p)
  PROVE  Quiet(p)' /\ Aged(p)
<1>0. /\ TypeOK /\ TypeOK' /\ round[p] = "none" /\ notice[p] = "none"
      /\ \A path \in Path : <<p, path>> \in Address /\ age[<<p, path>>] \in Int
      /\ \A m \in net : m.peer # p
      /\ p \notin traffic
      /\ \A h \in Handler : handler[h] = Idle \/ handler[h].m.peer # p
  BY NetStepIsReceivers, TypeStep
     DEF NetInv, NetTypeOK, CallsDieWithPeer, Quiet, TypeOK, Address, Expired
<1>1. CASE UNCHANGED receiverVars /\ (\A m \in net' : m.peer # p) /\ p \notin traffic'
  BY <1>0, <1>1 DEF Quiet, Aged, receiverVars
<1>2. CASE \E q \in Peer : StartRound(q) \/ StartShutdown(q) \/ RetrySecondary(q)
  <2>1. PICK q \in Peer : StartRound(q) \/ StartShutdown(q) \/ RetrySecondary(q)
    BY <1>2
  <2>2. q # p /\ UNCHANGED <<receiverVars, traffic>>
    BY <1>0, <2>1 DEF StartRound, StartShutdown, RetrySecondary
  <2>3. net' = net \/ \E path \in Path, notify \in BOOLEAN : net' = net \cup {Message(q, path, notify)}
    BY <2>1 DEF StartRound, StartShutdown, RetrySecondary, Path
  <2> QED
    BY <1>0, <1>1, <2>2, <2>3 DEF Message
<1>3. CASE \E q \in Peer : EndCall(q) \/ Exit(q) \/ Restart(q)
  BY <1>0, <1>1, <1>3 DEF EndCall, Exit, Restart
<1>4. CASE \E m \in Request : Lose(m)
  BY <1>0, <1>1, <1>4 DEF Lose
<1>5. CASE \E q \in Peer : SendTraffic(q)
  BY <1>0, <1>1, <1>5 DEF SendTraffic
<1>6. CASE \E q \in Peer : EndTraffic(q)
  <2>1. PICK q \in Peer : EndTraffic(q)
    BY <1>6
  <2>2. q # p /\ net' = net /\ p \notin traffic'
    BY <1>0, <2>1 DEF EndTraffic
  <2>3. CASE TraceCall(q)
    <3>1. traced'[NameOf[p]] = p => traced[NameOf[p]] = p
      BY <2>2, <2>3 DEF TraceCall, Trace
    <3>2. UNCHANGED <<age, heard, handler>>
      BY <2>3 DEF TraceCall, meshVars
    <3> QED
      BY <1>0, <2>2, <3>1, <3>2 DEF Quiet, Aged
  <2>4. CASE UNCHANGED receiverVars
    BY <1>0, <1>1, <2>2, <2>4
  <2> QED
    BY <2>1, <2>3, <2>4 DEF EndTraffic
<1>7. CASE \E h \in Handler, m \in Request : Deliver(h, m)
  <2>1. PICK h \in Handler, m \in Request : Deliver(h, m)
    BY <1>7
  <2>2. m.peer # p /\ net' \subseteq net /\ traffic' = traffic /\ UNCHANGED <<age, heard>>
    BY <1>0, <2>1 DEF Deliver, Accept, meshVars
  <2>3. traced'[NameOf[p]] = p => traced[NameOf[p]] = p
    <3>1. traced' = traced \/ traced' = [traced EXCEPT ![NameOf[m.peer]] = m.peer]
      BY <2>1 DEF Deliver, Accept, Trace
    <3> QED
      BY <1>0, <2>2, <3>1, PeerAssumption DEF TypeOK, Request
  <2>4. \A g \in Handler : handler'[g] = Idle \/ handler'[g].m.peer # p
    BY <1>0, <2>1, <2>2 DEF Deliver, Accept, TypeOK
  <2> QED
    BY <1>0, <2>2, <2>3, <2>4 DEF Quiet, Aged
<1>8. CASE ReceiverStep
  <2>1. LocalStep /\ net' = net /\ traffic' = traffic
    BY <1>8 DEF ReceiverStep
  <2>2. \A h \in Handler : handler'[h] = Idle \/ handler'[h].m.peer # p
    BY <1>0, <2>1, OthersStayOthers
  <2>3. Aged(p)
    BY <1>0, <2>1, OthersLeaveAlone DEF Aged
  <2> QED
    BY <1>0, <2>1, <2>2, <2>3 DEF Quiet
<1>9. CASE UNCHANGED vars
  BY <1>0, <1>1, <1>9 DEF vars
<1> QED
  BY <1>2, <1>3, <1>4, <1>5, <1>6, <1>7, <1>8, <1>9 DEF NetNext

\* A peer whose addresses are not available is routable only while none of its name is
\* and it was the last of them that was heard of.
LEMMA LastResortOnly ==
  ASSUME TypeOK', NEW p \in Peer, ~Counted(p)', p \in Routable(NameOf[p])'
  PROVE  Available(NameOf[p])' = {} /\ traced'[NameOf[p]] = p
<1>1. ASSUME NEW a \in Available(NameOf[p])' PROVE a[1] # p
  <2>1. a = <<a[1], a[2]>> /\ a[2] \in Path
    BY <1>1 DEF Available, TypeOK, Address
  <2> QED
    BY <1>1, <2>1 DEF Counted
<1>2. Available(NameOf[p])' = {}
  BY <1>1 DEF Routable
<1> QED
  BY <1>2 DEF Routable

\* While a peer is gone and nothing it has sent is under way its addresses only grow
\* older and no step makes a look-up count it as available again: the reason why
\* ReceiverKeepTimer is enough to forget a process that has crashed. Nor does a step
\* make calls go to it again, with the one exception that the code has: it was the last
\* of its name that was heard of, and nobody else of the name is available any more.
THEOREM GoneGrowsOldHolds == NetSpec => GoneGrowsOld
<1> DEFINE Older(p) ==
      /\ ~UnderWay(p)'
      /\ \A path \in Path : age'[<<p, path>>] >= age[<<p, path>>]
      /\ ~Counted(p) => ~Counted(p)'
      /\ ~Counted(p) /\ p \notin Routable(NameOf[p]) /\ p \in Routable(NameOf[p])' =>
           traced[NameOf[p]] = p /\ Available(NameOf[p])' = {}
<1>1. ASSUME NetInv, [NetNext]_vars, NEW p \in Peer,
             phase[p] = "exited", phase'[p] = "exited", ~UnderWay(p)
      PROVE  Older(p)
  <2>1. Quiet(p)' /\ Aged(p) /\ TypeOK /\ TypeOK'
    BY <1>1, QuietIsNotUnderWay, GoneStep, NetStepIsReceivers, TypeStep DEF NetInv, NetTypeOK
  <2>2. ~UnderWay(p)'
    BY <2>1 DEF UnderWay, Quiet
  <2>3. ~Counted(p) => ~Counted(p)'
    <3>1. ASSUME NEW path \in Path
          PROVE  <<p, path>> \in Address /\ age[<<p, path>>] \in Int /\ age'[<<p, path>>] \in Int
      BY <2>1 DEF TypeOK, Address, Expired
    <3> QED
      BY <2>1, <3>1, KeepAssumption DEF Counted, Available, NameOfAddress, Aged
  <2>4. ASSUME ~Counted(p), p \in Routable(NameOf[p])'
        PROVE  traced[NameOf[p]] = p /\ Available(NameOf[p])' = {}
    <3>1. Available(NameOf[p])' = {} /\ traced'[NameOf[p]] = p
      BY <2>1, <2>3, <2>4, LastResortOnly
    <3> QED
      BY <2>1, <3>1 DEF Aged
  <2> QED
    BY <2>1, <2>2, <2>3, <2>4 DEF Aged
<1>2. NetInv /\ [NetNext]_vars =>
        [\A p \in Peer : phase[p] = "exited" /\ phase'[p] = "exited" /\ ~UnderWay(p) => Older(p)]_vars
  BY <1>1
<1> QED
  BY <1>2, NetBegins, NetStep, PTL DEF NetSpec, GoneGrowsOld
=============================================================================
