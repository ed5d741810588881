----------------------------- MODULE HealthMesh -----------------------------
(***************************************************************************)
(* The checker's side of the keep-alive mesh, data/service_keepalive.go:   *)
(* serviceHealthMesh, filled from the configuration callback, probed by    *)
(* rounds of health checks, and read by every HTTP call made by name.      *)
(*                                                                         *)
(* Four kinds of goroutines share it: the configuration monitor            *)
(* (MonitorServiceHealthConfigs), the periodic rounds (StartHealthChecking)*)
(* with one goroutine per address, the single round of a process that      *)
(* shuts down (NotifyCheckerShutdown), and the callers of                  *)
(* GetServiceAddrByName.                                                   *)
(***************************************************************************)
EXTENDS Integers, Sequences, FiniteSets

CONSTANTS
  Service,      \* names of the services this process may call
  Addr,         \* primary addresses; numbers, for the order sort.Strings uses
  Caller,       \* goroutines that resolve a service name
  Round,        \* the rounds of checks that run: "periodic", and "shutdown" when
                \* the process also gets to stop
  Announcing,   \* addresses of services that check this process in their turn and
                \* name a secondary address of theirs
  Reply         \* what the configuration callback may return: records
                \* [services |-> [Service -> SUBSET Addr], dual |-> SUBSET Addr],
                \* services[s] = {} when s is not in the map

ASSUME ServiceAssumption == IsFiniteSet(Addr) /\ Addr \subseteq Nat
ASSUME AnnouncingAssumption == Announcing \subseteq Addr
ASSUME RoundAssumption == Round \subseteq {"periodic", "shutdown"}
ASSUME ReplyAssumption ==
  Reply \subseteq [services : [Service -> SUBSET Addr], dual : SUBSET Addr]

VARIABLES
  address,       \* ServiceHealthInfo.Address; <<>> when s is not in the mesh
  availableSeq,  \* ServiceHealthInfo.AvailableSeq: the indexes that are ready
  onSecondary,   \* ServiceHealthInfo.HealthOnSecondary: endpoints in the map
  nextSequence,  \* ServiceHealthInfo.NextSequence, counted from 1
  dual,          \* primary addresses in ServiceMeshPrimary2Secondary
  lastAddr,      \* lastServiceAddr, as the sets of addresses it lists
  aliased,       \* services whose Address is the very slice of lastServiceAddr
  monitor,       \* the configuration monitor between two of its steps
  pending,       \* the checks of the periodic and of the shutdown round to be done
  notified,      \* NotifyCheckerShutdown has been called
  caller,        \* each caller between its lookup and its Increment
  \* history variables, which no action of the code reads
  passed,        \* <<service, address>> whose latest check succeeded
  unsettled      \* <<service, address>> moved by a sort since its latest check

vars == <<address, availableSeq, onSecondary, nextSequence, dual, lastAddr,
          aliased, monitor, pending, notified, caller, passed, unsettled>>

Endpoint == Addr \X {"primary", "secondary"}

Configured(s) == address[s] # <<>>
AddressesOf(s) == {address[s][i] : i \in DOMAIN address[s]}

\* The orders in which a slice may list a set of addresses. The callback builds
\* its slices itself, so any order is possible; a list without duplicates is
\* what ChangeServiceHealth maintains (IsExisted) and what it is given here.
Listings(S) ==
  {q \in [1 .. Cardinality(S) -> S] :
     /\ \A i, j \in 1 .. Cardinality(S) : q[i] = q[j] => i = j
     /\ \A a \in S : \E i \in 1 .. Cardinality(S) : q[i] = a}

Task(a, s, path) == [addr |-> a, name |-> s, path |-> path]
Tasks == [addr : Addr, name : Service, path : {"primary", "secondary"}]

Idle == [pc |-> "idle"]

-----------------------------------------------------------------------------
(* RegisterServiceHealth: the first reply is taken over as it is, and the   *)
(* mesh keeps the reply's own slices.                                       *)
RegisterServiceHealth(m) ==
  /\ address \in [Service -> UNION {Listings(S) : S \in SUBSET Addr}]
  /\ \A s \in Service : address[s] \in Listings(m.services[s])
  /\ lastAddr = m.services
  /\ dual = m.dual
  /\ aliased = {s \in Service : m.services[s] # {}}

Init ==
  /\ \E m \in Reply : RegisterServiceHealth(m)
  /\ availableSeq = [s \in Service |-> {}]
  /\ onSecondary = [s \in Service |-> {}]
  /\ nextSequence = [s \in Service |-> 1]
  /\ monitor = Idle
  /\ pending = [r \in Round |-> {}]
  /\ notified = FALSE
  /\ caller = [c \in Caller |-> Idle]
  /\ passed = {}
  /\ unsettled = {}

-----------------------------------------------------------------------------
(* The configuration monitor.                                              *)

meshVars == <<address, availableSeq, onSecondary, nextSequence>>

\* _checkServiceHealthConfig asks the callback and replaces the map of secondary
\* addresses; isServiceHealthConfigChanged answers at once when the number of
\* services differs, and otherwise starts to sort the slices of lastServiceAddr.
NumServices(services) == Cardinality({s \in Service : services[s] # {}})

FetchConfig ==
  /\ monitor = Idle
  /\ \E m \in Reply :
       /\ dual' = m.dual
       /\ monitor' =
            IF NumServices(m.services) # NumServices(lastAddr)
            THEN [pc |-> "change", services |-> m.services]
            ELSE [pc |-> "sort", services |-> m.services,
                  todo |-> {s \in Service : lastAddr[s] # {}}]
  /\ UNCHANGED <<meshVars, lastAddr, aliased, pending, notified, caller,
                 passed, unsettled>>

\* sort.Strings on a slice of lastServiceAddr, under no lock: up to 12 elements
\* it is an insertion sort, a sequence of swaps of neighbours. Where the slice
\* is also the mesh's, each swap moves two addresses away from the indexes
\* AvailableSeq knows them by.
SortSwap(s, i) ==
  /\ monitor.pc = "sort"
  /\ s \in monitor.todo \cap aliased
  /\ i \in DOMAIN address[s] /\ i + 1 \in DOMAIN address[s]
  /\ address[s][i] > address[s][i + 1]
  /\ address' = [address EXCEPT ![s] =
                   [@ EXCEPT ![i] = address[s][i + 1], ![i + 1] = address[s][i]]]
  /\ unsettled' = unsettled \cup {<<s, address[s][i]>>, <<s, address[s][i + 1]>>}
  /\ UNCHANGED <<availableSeq, onSecondary, nextSequence, dual, lastAddr, aliased,
                 monitor, pending, notified, caller, passed>>

IsSorted(q) == \A i \in 1 .. Len(q) - 1 : q[i] < q[i + 1]

\* One slice is sorted. A service that left the configuration ends the comparison.
SortDone(s) ==
  /\ monitor.pc = "sort"
  /\ s \in monitor.todo
  /\ s \in aliased => IsSorted(address[s])
  /\ monitor' = IF monitor.services[s] = {}
                THEN [pc |-> "change", services |-> monitor.services]
                ELSE [monitor EXCEPT !.todo = @ \ {s}]
  /\ UNCHANGED <<meshVars, dual, lastAddr, aliased, pending, notified, caller,
                 passed, unsettled>>

\* All slices are sorted: the lists are compared, as sets now.
CompareConfig ==
  /\ monitor.pc = "sort"
  /\ monitor.todo = {}
  /\ monitor' = IF monitor.services = lastAddr
                THEN Idle
                ELSE [pc |-> "change", services |-> monitor.services]
  /\ UNCHANGED <<meshVars, dual, lastAddr, aliased, pending, notified, caller,
                 passed, unsettled>>

\* A mutated form of Extended: known services are taken as already complete.
ExtendedNewOnly(s, services) ==
  IF Configured(s) THEN {address[s]} ELSE Listings(services[s])

\* ChangeServiceHealth: addresses are appended and services added, nothing is
\* ever removed. An append leaves the old slice to lastServiceAddr, which is then
\* replaced, so only the slices of new services are shared afterwards.
Extended(s, services) ==
  {address[s] \o q : q \in Listings(services[s] \ AddressesOf(s))}

ChangeServiceHealth ==
  /\ monitor.pc = "change"
  /\ \E extended \in [Service -> UNION {Extended(s, monitor.services) : s \in Service}] :
       /\ \A s \in Service : extended[s] \in Extended(s, monitor.services)
       /\ address' = extended
  /\ lastAddr' = monitor.services
  /\ aliased' = {s \in Service : ~Configured(s) /\ monitor.services[s] # {}}
  /\ monitor' = Idle
  /\ UNCHANGED <<availableSeq, onSecondary, nextSequence, dual, pending,
                 notified, caller, passed, unsettled>>

\* DoHealthCheck: a request that names two addresses of its sender enters them
\* into the same map, until the next reply replaces it.
LearnSecondary(a) ==
  /\ a \notin dual
  /\ dual' = dual \cup {a}
  /\ UNCHANGED <<meshVars, lastAddr, aliased, monitor, pending, notified, caller,
                 passed, unsettled>>

-----------------------------------------------------------------------------
(* Health checking.                                                        *)

\* The checks of one round: the map address -> name is filled service by
\* service, so of two services that list an address only one is checked there.
\*
\* A mutated form of Assignments: the addresses known to be ready are not checked.
AssignmentsNotReady ==
  LET down == UNION {{address[s][i] : i \in DOMAIN address[s] \ availableSeq[s]} : s \in Service}
  IN  {own \in [down -> Service] : \A a \in down : a \in AddressesOf(own[a])}

Assignments ==
  {own \in [UNION {AddressesOf(s) : s \in Service} -> Service] :
     \A a \in DOMAIN own : a \in AddressesOf(own[a])}

StartRound(r) ==
  /\ pending[r] = {}
  /\ \E own \in Assignments :
       pending' = [pending EXCEPT ![r] =
                     {Task(a, own[a], "primary") : a \in DOMAIN own}]

\* StartHealthChecking: one round at a time, for as long as the process lives.
StartPeriodicRound ==
  /\ "periodic" \in Round
  /\ \E s \in Service : Configured(s)
  /\ StartRound("periodic")
  /\ UNCHANGED <<meshVars, dual, lastAddr, aliased, monitor, notified, caller,
                 passed, unsettled>>

\* NotifyCheckerShutdown: once, beside the periodic round in progress.
NotifyCheckerShutdown ==
  /\ "shutdown" \in Round /\ ~notified
  /\ notified' = TRUE
  /\ StartRound("shutdown")
  /\ UNCHANGED <<meshVars, dual, lastAddr, aliased, monitor, caller, passed, unsettled>>

\* _updateServerHealthStatus. It keys HealthOnSecondary by the address it is
\* given, and marks the first index whose address is the one checked.
\*
\* A mutated form: a failed check does not take the index out of AvailableSeq.
UpdateServerHealthStatusKeepReady(s, e, ok) ==
  LET hits == {i \in DOMAIN address[s] : e = <<address[s][i], "primary">>}
  IN  /\ availableSeq' = [availableSeq EXCEPT ![s] = IF ok THEN @ \cup hits ELSE @]
      /\ UNCHANGED onSecondary

UpdateServerHealthStatus(s, e, ok) ==
  LET primaryAddr == IF e[2] = "secondary" /\ e[1] \in dual
                     THEN <<e[1], "primary">> ELSE e
      hits == {i \in DOMAIN address[s] : e = <<address[s][i], "primary">>}
  IN  /\ onSecondary' = [onSecondary EXCEPT ![s] =
                           IF primaryAddr # e THEN @ \cup {e}
                           ELSE IF ok THEN @ \ {e} ELSE @]
      /\ availableSeq' = [availableSeq EXCEPT ![s] = IF ok THEN @ \cup hits ELSE @ \ hits]

\* A check of a primary address answers ok, or fails: a failure is recorded, and
\* is followed by a check of the secondary address if the mesh knows one.
CheckPrimary(r, t, ok) ==
  LET e == <<t.addr, "primary">>
      next == IF ~ok /\ t.addr \in dual
              THEN {Task(t.addr, t.name, "secondary")} ELSE {}
  IN  /\ t \in pending[r] /\ t.path = "primary"
      /\ UpdateServerHealthStatus(t.name, e, ok)
      /\ pending' = [pending EXCEPT ![r] = (@ \ {t}) \cup next]
      /\ passed' = IF ok THEN passed \cup {<<t.name, t.addr>>}
                         ELSE passed \ {<<t.name, t.addr>>}
      /\ unsettled' = unsettled \ {<<t.name, t.addr>>}
      /\ UNCHANGED <<address, nextSequence, dual, lastAddr, aliased, monitor,
                     notified, caller>>

\* A check of a secondary address: only success is recorded.
CheckSecondary(r, t, ok) ==
  LET e == <<t.addr, "secondary">>
  IN  /\ t \in pending[r] /\ t.path = "secondary"
      /\ pending' = [pending EXCEPT ![r] = @ \ {t}]
      /\ IF ok THEN UpdateServerHealthStatus(t.name, e, TRUE)
               ELSE UNCHANGED <<onSecondary, availableSeq>>
      /\ UNCHANGED <<address, nextSequence, dual, lastAddr, aliased, monitor,
                     notified, caller, passed, unsettled>>

-----------------------------------------------------------------------------
(* GetServiceAddrByName for a configured service.                          *)

Wrap(i, n) == IF i > n THEN i - n ELSE i

\* The index the read-locked part chooses: the first address when nothing is
\* ready or there is no choice, else the first ready index from NextSequence on.
\*
\* A mutated form: the scan ends at the first index it looks at.
UsingSequenceUnscanned(s) ==
  IF availableSeq[s] = {} \/ nextSequence[s] > Len(address[s]) THEN 1 ELSE nextSequence[s]

UsingSequence(s) ==
  LET n == Len(address[s])
      start == IF nextSequence[s] > n THEN 1 ELSE nextSequence[s]
      Ready(k) == Wrap(start + k, n) \in availableSeq[s]
  IN  IF availableSeq[s] = {} \/ n = 1 THEN 1
      ELSE LET k == CHOOSE k \in 0 .. n - 1 :
                      Ready(k) /\ \A j \in 0 .. k - 1 : ~Ready(j)
           IN  Wrap(start + k, n)

\* Whether the secondary address replaces the primary one a lookup chose.
ViaSecondary(s, a) == <<a, "primary">> \in onSecondary[s] /\ a \in dual

Lookup(c, s) ==
  LET using == UsingSequence(s)
      a == address[s][using]
  IN  /\ caller[c] = Idle
      /\ Configured(s)
      /\ caller' = [caller EXCEPT ![c] =
                      [pc |-> "increment", name |-> s, using |-> using,
                       addr |-> <<a, IF ViaSecondary(s, a) THEN "secondary" ELSE "primary">>]]
      /\ UNCHANGED <<address, availableSeq, onSecondary, nextSequence, dual, lastAddr,
                     aliased, monitor, pending, notified, passed, unsettled>>

\* The second critical section: NextSequence is set from the index read earlier,
\* whatever other callers have set in between.
\*
\* Mutated forms: NextSequence stays at the index just used; it is one too far.
IncrementInPlace(c) ==
  /\ caller[c].pc = "increment"
  /\ nextSequence' = [nextSequence EXCEPT ![caller[c].name] = caller[c].using]
  /\ caller' = [caller EXCEPT ![c] = Idle]
  /\ UNCHANGED <<address, availableSeq, onSecondary, dual, lastAddr, aliased,
                 monitor, pending, notified, passed, unsettled>>

IncrementTwice(c) ==
  /\ caller[c].pc = "increment"
  /\ nextSequence' = [nextSequence EXCEPT ![caller[c].name] = caller[c].using + 2]
  /\ caller' = [caller EXCEPT ![c] = Idle]
  /\ UNCHANGED <<address, availableSeq, onSecondary, dual, lastAddr, aliased,
                 monitor, pending, notified, passed, unsettled>>

Increment(c) ==
  /\ caller[c].pc = "increment"
  /\ nextSequence' = [nextSequence EXCEPT ![caller[c].name] = caller[c].using + 1]
  /\ caller' = [caller EXCEPT ![c] = Idle]
  /\ UNCHANGED <<address, availableSeq, onSecondary, dual, lastAddr, aliased,
                 monitor, pending, notified, passed, unsettled>>

-----------------------------------------------------------------------------
Next ==
  \/ FetchConfig
  \/ \E s \in Service, i \in 1 .. Cardinality(Addr) : SortSwap(s, i)
  \/ \E s \in Service : SortDone(s)
  \/ CompareConfig
  \/ ChangeServiceHealth
  \/ \E a \in Announcing : LearnSecondary(a)
  \/ StartPeriodicRound
  \/ NotifyCheckerShutdown
  \/ \E r \in Round : \E t \in pending[r], ok \in BOOLEAN : CheckPrimary(r, t, ok)
  \/ \E r \in Round : \E t \in pending[r], ok \in BOOLEAN : CheckSecondary(r, t, ok)
  \/ \E c \in Caller, s \in Service : Lookup(c, s)
  \/ \E c \in Caller : Increment(c)

Spec == Init /\ [][Next]_vars

\* The ticker starts a round whenever the last one is over, and every check ends,
\* with an answer or at HealthCheckTimeout; a caller leaves its critical section.
\* Nothing is assumed of the configuration, of the answers or of the callers.
CheckTask(t) ==
  \E r \in Round, ok \in BOOLEAN : CheckPrimary(r, t, ok) \/ CheckSecondary(r, t, ok)

FairSpec ==
  /\ Spec
  /\ WF_vars(StartPeriodicRound)
  /\ \A t \in Tasks : WF_vars(CheckTask(t))
  /\ \A c \in Caller : WF_vars(Increment(c))

-----------------------------------------------------------------------------
(* Properties.                                                             *)

MonitorState ==
  {Idle}
  \cup [pc : {"change"}, services : [Service -> SUBSET Addr]]
  \cup [pc : {"sort"}, services : [Service -> SUBSET Addr], todo : SUBSET Service]

CallerState ==
  {Idle}
  \cup [pc : {"increment"}, name : Service, using : Nat, addr : Endpoint]

\* Types, with the two facts every index into Address rests on: AvailableSeq and
\* NextSequence never leave the list (NextSequence by more than the one position
\* that GetServiceAddrByName wraps).
TypeOK ==
  /\ address \in [Service -> Seq(Addr)]
  /\ availableSeq \in [Service -> SUBSET Nat]
  /\ onSecondary \in [Service -> SUBSET Endpoint]
  /\ nextSequence \in [Service -> Nat]
  /\ dual \in SUBSET Addr
  /\ lastAddr \in [Service -> SUBSET Addr]
  /\ aliased \in SUBSET Service
  /\ monitor \in MonitorState
  /\ pending \in [Round -> SUBSET Tasks]
  /\ notified \in BOOLEAN
  /\ caller \in [Caller -> CallerState]
  /\ passed \in SUBSET (Service \X Addr)
  /\ unsettled \in SUBSET (Service \X Addr)
  /\ \A s \in Service : /\ availableSeq[s] \subseteq DOMAIN address[s]
                        /\ nextSequence[s] \in 1 .. Len(address[s]) + 1

\* An index is in AvailableSeq exactly when the address it stands for passed its
\* latest check: whatever the rounds, the appends to the list and the lookups do,
\* only an address that a sort has moved since its latest check may be misjudged.
ReadyIsPassed ==
  \A s \in Service : \A i \in DOMAIN address[s] :
    <<s, address[s][i]>> \notin unsettled =>
      (i \in availableSeq[s] <=> <<s, address[s][i]>> \in passed)

\* GetServiceAddrByName routes around failures: while some address of the service
\* passed its latest check, a lookup does not choose one that failed it, unless a
\* sort has moved one of the two in between.
RoutesAroundFailures ==
  [][\A c \in Caller :
       caller[c] = Idle /\ caller'[c].pc = "increment" =>
         LET s == caller'[c].name
             a == caller'[c].addr[1]
             Settled(x) == <<s, x>> \notin unsettled
         IN  Settled(a) /\ (\E x \in AddressesOf(s) : Settled(x) /\ <<s, x>> \in passed)
               => <<s, a>> \in passed]_vars

\* _checkServiceHealthConfig: once it has dealt with a reply, every address of the
\* last reply it adopted is in the mesh, next to those that have been there before.
ConfigApplied ==
  monitor = Idle => \A s \in Service : lastAddr[s] \subseteq AddressesOf(s)

\* The reordering of a shared slice is repaired: an address that a sort has moved
\* is checked again, and from then on AvailableSeq is right about it. The exception is
\* an address that another service lists too: a round checks it for one of them, and
\* nothing makes that the same one as before or another one the next time.
Shared(s, a) == \E t \in Service \ {s} : a \in AddressesOf(t)

MovedAddressSettles ==
  \A s \in Service, a \in Addr :
    <<s, a>> \in unsettled ~> <<s, a>> \notin unsettled \/ Shared(s, a)

\* The rotation starves no one: an index that stays in AvailableSeq is chosen
\* again and again as long as lookups go on, although NextSequence is read in one
\* critical section and written in another, with other callers in between.
Chosen(s, i) == \E c \in Caller : caller[c] # Idle /\ caller[c].name = s /\ caller[c].using = i

RotationFair ==
  \A s \in Service : \A i \in 1 .. Cardinality(Addr) :
    /\ <>[](i \in availableSeq[s])
    /\ []<><<\E c \in Caller : Lookup(c, s)>>_vars
    => []<>Chosen(s, i)

\* HealthOnSecondary, "health =1 using secondary address" (service_keepalive.go:23):
\* once the mesh has recorded that an address is healthy on its secondary address,
\* calls routed to it use that address, if the mapping is still known.
SecondaryIsUsed ==
  \A s \in Service : \A e \in onSecondary[s] : e[1] \in dual => ViaSecondary(s, e[1])
=============================================================================
