-------------------------- MODULE HealthMeshProofs --------------------------
(***************************************************************************)
(* Proofs about HealthMesh: for any services, addresses, callers, replies  *)
(* of the configuration callback and rounds of checks.                     *)
(***************************************************************************)
EXTENDS HealthMesh, FiniteSetTheorems, SequenceTheorems, TLAPS

\* A service lists no address twice.
Distinct ==
  \A s \in Service : \A i, j \in DOMAIN address[s] : address[s][i] = address[s][j] => i = j

\* What is to be checked, what has been checked and what callers use is listed.
AllListed ==
  /\ \A r \in Round : \A t \in pending[r] : t.addr \in AddressesOf(t.name)
  /\ \A p \in passed : p[2] \in AddressesOf(p[1])
  /\ \A c \in Caller : caller[c] # Idle => caller[c].using \in DOMAIN address[caller[c].name]

\* The last configuration adopted is part of the mesh at any time.
Adopted == \A s \in Service : lastAddr[s] \subseteq AddressesOf(s)

IInv == TypeOK /\ Distinct /\ AllListed /\ Adopted /\ ReadyIsPassed

-----------------------------------------------------------------------------
(* The operators.                                                          *)

LEMMA FiniteAddresses == \A S \in SUBSET Addr : IsFiniteSet(S) /\ Cardinality(S) \in Nat
  BY ServiceAssumption, FS_Subset, FS_CardinalityType

\* A listing of a set is a sequence that has each element of the set once.
LEMMA ListingFacts ==
  ASSUME NEW S \in SUBSET Addr, NEW q \in Listings(S)
  PROVE  /\ q \in Seq(Addr)
         /\ \A i, j \in DOMAIN q : q[i] = q[j] => i = j
         /\ {q[i] : i \in DOMAIN q} = S
<1>1. Cardinality(S) \in Nat /\ q \in [1 .. Cardinality(S) -> S]
  BY FiniteAddresses DEF Listings
<1>2. q \in Seq(Addr) /\ DOMAIN q = 1 .. Cardinality(S)
  BY <1>1
<1> QED
  BY <1>1, <1>2 DEF Listings

\* ChangeServiceHealth keeps the indexes of the listed addresses and lists those of
\* the configuration that are new behind them.
LEMMA ExtendedFacts ==
  ASSUME TypeOK, Distinct, NEW s \in Service, NEW services \in [Service -> SUBSET Addr],
         NEW q \in Extended(s, services)
  PROVE  /\ q \in Seq(Addr)
         /\ DOMAIN address[s] \subseteq DOMAIN q
         /\ \A i \in DOMAIN address[s] : q[i] = address[s][i]
         /\ \A i \in DOMAIN q \ DOMAIN address[s] : q[i] \notin AddressesOf(s)
         /\ \A i, j \in DOMAIN q : q[i] = q[j] => i = j
         /\ {q[i] : i \in DOMAIN q} = AddressesOf(s) \cup services[s]
<1> DEFINE old == address[s]
           S == services[s] \ AddressesOf(s)
<1>1. PICK r \in Listings(S) : q = old \o r
  BY DEF Extended
<1>2. old \in Seq(Addr) /\ S \in SUBSET Addr
  BY DEF TypeOK
<1>3. /\ r \in Seq(Addr)
      /\ \A i, j \in DOMAIN r : r[i] = r[j] => i = j
      /\ {r[i] : i \in DOMAIN r} = S
  BY <1>2, ListingFacts
<1>4. /\ Len(old) \in Nat /\ DOMAIN old = 1 .. Len(old)
      /\ Len(r) \in Nat /\ DOMAIN r = 1 .. Len(r)
  BY <1>2, <1>3, LenProperties
<1>5. /\ q \in Seq(Addr) /\ DOMAIN q = 1 .. Len(old) + Len(r)
      /\ \A i \in 1 .. Len(old) : q[i] = old[i]
      /\ \A i \in 1 .. Len(old) + Len(r) : i > Len(old) => q[i] = r[i - Len(old)]
  BY <1>1, <1>2, <1>3, <1>4, ConcatProperties
\* What is appended has not been listed.
<1>6. \A i \in DOMAIN q \ DOMAIN old : i - Len(old) \in DOMAIN r /\ q[i] = r[i - Len(old)]
  BY <1>4, <1>5
<1>7. \A i \in DOMAIN q \ DOMAIN old : q[i] \in S
  BY <1>3, <1>6
<1>8. \A i, j \in DOMAIN q : q[i] = q[j] => i = j
  <2> SUFFICES ASSUME NEW i \in DOMAIN q, NEW j \in DOMAIN q, q[i] = q[j] PROVE i = j
    OBVIOUS
  <2>1. CASE i \in DOMAIN old /\ j \in DOMAIN old
    BY <1>4, <1>5, <2>1 DEF Distinct
  <2>2. CASE i \notin DOMAIN old /\ j \notin DOMAIN old
    <3>1. i - Len(old) = j - Len(old)
      BY <1>3, <1>6, <2>2
    <3> QED
      BY <1>4, <1>5, <3>1
  <2>3. CASE i \in DOMAIN old /\ j \notin DOMAIN old
    BY <1>4, <1>5, <1>7, <2>3 DEF AddressesOf
  <2>4. CASE i \notin DOMAIN old /\ j \in DOMAIN old
    BY <1>4, <1>5, <1>7, <2>4 DEF AddressesOf
  <2> QED
    BY <2>1, <2>2, <2>3, <2>4
<1>9. {q[i] : i \in DOMAIN q} = AddressesOf(s) \cup services[s]
  <2>1. ASSUME NEW a \in AddressesOf(s) PROVE \E i \in DOMAIN q : q[i] = a
    BY <1>4, <1>5 DEF AddressesOf
  <2>2. ASSUME NEW a \in S PROVE \E i \in DOMAIN q : q[i] = a
    <3>1. PICK k \in DOMAIN r : r[k] = a
      BY <1>3
    <3>2. /\ k + Len(old) \in 1 .. Len(old) + Len(r)
          /\ k + Len(old) > Len(old)
          /\ (k + Len(old)) - Len(old) = k
      <4>1. k \in 1 .. Len(r)
        BY <1>4
      <4> QED
        BY <4>1, <1>4
    <3>3. q[k + Len(old)] = r[(k + Len(old)) - Len(old)]
      BY <3>2, <1>5
    <3> QED
      BY <3>1, <3>2, <3>3, <1>5
  <2>3. ASSUME NEW i \in DOMAIN q PROVE q[i] \in AddressesOf(s) \cup services[s]
    BY <1>4, <1>5, <1>7 DEF AddressesOf
  <2> QED
    BY <2>1, <2>2, <2>3
<1> QED
  BY <1>4, <1>5, <1>7, <1>8, <1>9

\* A swap of two neighbours lists the same addresses and moves no other one.
LEMMA SwapFacts ==
  ASSUME TypeOK, Distinct, NEW s \in Service, NEW i \in Nat, SortSwap(s, i)
  PROVE  /\ address'[s] \in Seq(Addr)
         /\ DOMAIN address'[s] = DOMAIN address[s]
         /\ \A j, k \in DOMAIN address'[s] : address'[s][j] = address'[s][k] => j = k
         /\ AddressesOf(s)' = AddressesOf(s)
         /\ \A j \in DOMAIN address[s] : <<s, address'[s][j]>> \notin unsettled'
                                           => address'[s][j] = address[s][j]
<1> DEFINE old == address[s]
           new == [old EXCEPT ![i] = old[i + 1], ![i + 1] = old[i]]
<1>1. /\ old \in Seq(Addr) /\ i \in DOMAIN old /\ i + 1 \in DOMAIN old
      /\ address' = [address EXCEPT ![s] = new]
      /\ unsettled' = unsettled \cup {<<s, old[i]>>, <<s, old[i + 1]>>}
  BY DEF SortSwap, TypeOK
<1>2. address'[s] = new
  BY <1>1 DEF TypeOK
<1>3. /\ new \in Seq(Addr) /\ DOMAIN new = DOMAIN old
      /\ new[i] = old[i + 1] /\ new[i + 1] = old[i]
      /\ \A j \in DOMAIN old \ {i, i + 1} : new[j] = old[j]
  BY <1>1
<1>4. \A j, k \in DOMAIN new : new[j] = new[k] => j = k
  BY <1>1, <1>3 DEF Distinct
<1>5. {new[j] : j \in DOMAIN new} = AddressesOf(s)
  <2>1. \A j \in DOMAIN new : \E k \in DOMAIN old : new[j] = old[k]
    BY <1>1, <1>3
  <2>2. \A k \in DOMAIN old : \E j \in DOMAIN new : new[j] = old[k]
    BY <1>1, <1>3
  <2>3. AddressesOf(s) = {old[k] : k \in DOMAIN old}
    BY DEF AddressesOf
  <2> HIDE DEF old, new
  <2> QED
    BY <2>1, <2>2, <2>3
<1>6. \A j \in DOMAIN old : <<s, new[j]>> \notin unsettled' => new[j] = old[j]
  BY <1>1, <1>3
<1>7. AddressesOf(s)' = {new[j] : j \in DOMAIN new}
  BY <1>2 DEF AddressesOf
<1> HIDE DEF new
<1> QED
  BY <1>2, <1>3, <1>4, <1>5, <1>6, <1>7

-----------------------------------------------------------------------------
(* What a step does to the lists.                                          *)

LEMMA MonitorFacts ==
  ASSUME TypeOK
  PROVE  /\ monitor.pc = "change" => monitor.services \in [Service -> SUBSET Addr]
         /\ monitor.pc = "sort" => /\ monitor.services \in [Service -> SUBSET Addr]
                                   /\ monitor.todo \in SUBSET Service
                                   /\ monitor.pc # "change"
                                   /\ monitor = [pc |-> "sort", services |-> monitor.services,
                                                 todo |-> monitor.todo]
  BY DEF TypeOK, MonitorState, Idle

LEMMA CallerFacts ==
  ASSUME TypeOK, NEW c \in Caller
  PROVE  /\ caller[c] \in CallerState
         /\ caller[c].pc = "increment" <=> caller[c] # Idle
         /\ caller[c] # Idle => /\ caller[c].name \in Service
                                /\ caller[c].using \in Nat
                                /\ caller[c].addr \in Endpoint
  BY DEF TypeOK, CallerState, Idle

LEMMA ChangeFacts ==
  ASSUME TypeOK, ChangeServiceHealth
  PROVE  /\ monitor.services \in [Service -> SUBSET Addr]
         /\ \A s \in Service : address'[s] \in Extended(s, monitor.services)
         /\ DOMAIN address' = Service
<1>1. monitor.services \in [Service -> SUBSET Addr]
  BY MonitorFacts DEF ChangeServiceHealth
<1>2. PICK extended \in [Service -> UNION {Extended(s, monitor.services) : s \in Service}] :
         /\ \A s \in Service : extended[s] \in Extended(s, monitor.services)
         /\ address' = extended
  BY DEF ChangeServiceHealth
<1> QED
  BY <1>1, <1>2

\* The addresses are the ones there were, and more: no list is shortened, nothing
\* gets out of the mesh, and what has changed its place is known to be unsettled.
ListsGrow ==
  /\ address' \in [Service -> Seq(Addr)]
  /\ Distinct'
  /\ \A s \in Service :
       /\ DOMAIN address[s] \subseteq DOMAIN address'[s]
       /\ AddressesOf(s) \subseteq AddressesOf(s)'

LEMMA SameListsGrow ==
  ASSUME TypeOK, Distinct, UNCHANGED address
  PROVE  ListsGrow
  BY DEF ListsGrow, TypeOK, Distinct, AddressesOf

LEMMA SwapGrows ==
  ASSUME TypeOK, Distinct, NEW s \in Service, NEW i \in Nat, SortSwap(s, i)
  PROVE  ListsGrow
<1>1. /\ DOMAIN address' = Service
      /\ \A x \in Service \ {s} : address'[x] = address[x]
  BY DEF SortSwap, TypeOK
<1>2. \A x \in Service \ {s} : AddressesOf(x)' = AddressesOf(x)
  BY <1>1 DEF AddressesOf
<1>3. /\ address'[s] \in Seq(Addr)
      /\ DOMAIN address'[s] = DOMAIN address[s]
      /\ \A j, k \in DOMAIN address'[s] : address'[s][j] = address'[s][k] => j = k
      /\ AddressesOf(s)' = AddressesOf(s)
  BY SwapFacts
<1>4. address' \in [Service -> Seq(Addr)]
  <2>1. \A x \in Service : address'[x] \in Seq(Addr)
    BY <1>1, <1>3 DEF TypeOK
  <2>2. address' = [x \in Service |-> address'[x]]
    BY <1>1 DEF SortSwap
  <2> QED
    BY <2>1, <2>2
<1>5. Distinct'
  BY <1>1, <1>3 DEF Distinct
<1> QED
  BY <1>1, <1>2, <1>3, <1>4, <1>5 DEF ListsGrow

LEMMA ChangeGrows ==
  ASSUME TypeOK, Distinct, ChangeServiceHealth
  PROVE  /\ ListsGrow
         /\ \A s \in Service :
              /\ \A i \in DOMAIN address[s] : address'[s][i] = address[s][i]
              /\ \A i \in DOMAIN address'[s] \ DOMAIN address[s] :
                   address'[s][i] \notin AddressesOf(s)
              /\ AddressesOf(s)' = AddressesOf(s) \cup monitor.services[s]
<1>1. /\ monitor.services \in [Service -> SUBSET Addr]
      /\ \A s \in Service : address'[s] \in Extended(s, monitor.services)
      /\ DOMAIN address' = Service
  BY ChangeFacts
<1>2. \A s \in Service :
        /\ address'[s] \in Seq(Addr)
        /\ DOMAIN address[s] \subseteq DOMAIN address'[s]
        /\ \A i \in DOMAIN address[s] : address'[s][i] = address[s][i]
        /\ \A i \in DOMAIN address'[s] \ DOMAIN address[s] :
             address'[s][i] \notin AddressesOf(s)
        /\ \A i, j \in DOMAIN address'[s] : address'[s][i] = address'[s][j] => i = j
        /\ {address'[s][i] : i \in DOMAIN address'[s]} = AddressesOf(s) \cup monitor.services[s]
  <2> SUFFICES ASSUME NEW s \in Service
               PROVE  /\ address'[s] \in Seq(Addr)
                      /\ DOMAIN address[s] \subseteq DOMAIN address'[s]
                      /\ \A i \in DOMAIN address[s] : address'[s][i] = address[s][i]
                      /\ \A i \in DOMAIN address'[s] \ DOMAIN address[s] :
                           address'[s][i] \notin AddressesOf(s)
                      /\ \A i, j \in DOMAIN address'[s] :
                           address'[s][i] = address'[s][j] => i = j
                      /\ {address'[s][i] : i \in DOMAIN address'[s]}
                           = AddressesOf(s) \cup monitor.services[s]
    OBVIOUS
  <2>1. address'[s] \in Extended(s, monitor.services)
    BY <1>1
  <2> QED
    BY <1>1, <2>1, ExtendedFacts
<1>3. \A s \in Service : AddressesOf(s)' = AddressesOf(s) \cup monitor.services[s]
  BY <1>2 DEF AddressesOf
<1>4. address' \in [Service -> Seq(Addr)]
  <2>1. PICK extended \in [Service -> UNION {Extended(s, monitor.services) : s \in Service}] :
           address' = extended
    BY DEF ChangeServiceHealth
  <2> QED
    BY <1>2, <2>1
<1>5. Distinct'
  BY <1>2 DEF Distinct
<1> QED
  BY <1>2, <1>3, <1>4, <1>5 DEF ListsGrow

-----------------------------------------------------------------------------
(* What a lookup chooses.                                                  *)

LEMMA LeastNumber ==
  ASSUME NEW T \in SUBSET Nat, T # {}
  PROVE  \E n \in T : \A m \in T : n <= m
<1> DEFINE Initial == {0 .. n : n \in T}
<1>1. \A n \in T : 0 .. n \in FiniteSubsetsOf(Nat)
  <2> TAKE n \in T
  <2>1. IsFiniteSet(0 .. n)
    BY FS_Interval
  <2> QED
    BY <2>1 DEF FiniteSubsetsOf
<1>2. Initial \subseteq FiniteSubsetsOf(Nat) /\ Initial # {}
  BY <1>1
<1>3. PICK S \in Initial : \A X \in Initial : <<X, S>> \notin StrictSubsetOrdering(Nat)
  BY <1>2, FS_StrictSubsetOrderingWellFounded, WFMin
<1>4. PICK n \in T : S = 0 .. n
  BY <1>3
<1>5. ASSUME NEW m \in T, m < n PROVE FALSE
  <2>1. <<0 .. m, 0 .. n>> \notin StrictSubsetOrdering(Nat)
    BY <1>3, <1>4
  <2>2. 0 .. m \in SUBSET Nat /\ 0 .. n \in SUBSET Nat /\ 0 .. m \subseteq 0 .. n
    BY <1>5
  <2>3. n \in 0 .. n /\ n \notin 0 .. m
    BY <1>5
  <2> QED
    BY <2>1, <2>2, <2>3 DEF StrictSubsetOrdering
<1> QED
  BY <1>5

\* The scan stays in the list, and finds a ready index if there is one.
LEMMA UsingSequenceFacts ==
  ASSUME TypeOK, NEW s \in Service, Configured(s)
  PROVE  /\ UsingSequence(s) \in DOMAIN address[s]
         /\ availableSeq[s] # {} => UsingSequence(s) \in availableSeq[s]
<1> DEFINE n == Len(address[s])
           start == IF nextSequence[s] > n THEN 1 ELSE nextSequence[s]
           Ready(k) == Wrap(start + k, n) \in availableSeq[s]
           Steps == {k \in 0 .. n - 1 : Ready(k)}
<1>1. /\ n \in Nat /\ n > 0 /\ DOMAIN address[s] = 1 .. n
      /\ availableSeq[s] \subseteq 1 .. n
      /\ nextSequence[s] \in 1 .. n + 1
  <2>1. address[s] \in Seq(Addr) /\ address[s] # <<>>
    BY DEF TypeOK, Configured
  <2>2. n \in Nat /\ DOMAIN address[s] = 1 .. n /\ n # 0
    BY <2>1, LenProperties, EmptySeq
  <2> QED
    BY <2>2 DEF TypeOK
<1>2. CASE availableSeq[s] = {} \/ n = 1
  <2>1. UsingSequence(s) = 1
    BY <1>2 DEF UsingSequence
  <2>2. 1 \in 1 .. n
    BY <1>1
  <2>3. ASSUME NEW i \in availableSeq[s] PROVE 1 \in availableSeq[s]
    <3>1. n = 1 /\ i \in 1 .. n
      BY <1>1, <1>2
    <3>2. i = 1
      BY <3>1
    <3> QED
      BY <3>2
  <2> QED
    BY <1>1, <2>1, <2>2, <2>3
<1>3. CASE ~(availableSeq[s] = {} \/ n = 1)
  <2>1. start \in 1 .. n
    BY <1>1
  <2> HIDE DEF start, n
  <2>2. PICK i \in 1 .. n : i \in availableSeq[s]
    BY <1>1, <1>3
  <2>3. \E k \in 0 .. n - 1 : Wrap(start + k, n) = i
    <3>1. CASE i >= start
      <4>1. i - start \in 0 .. n - 1 /\ Wrap(start + (i - start), n) = i
        BY <1>1, <2>1, <2>2, <3>1 DEF Wrap
      <4> QED
        BY <4>1
    <3>2. CASE i < start
      <4>1. (i + n) - start \in 0 .. n - 1 /\ Wrap(start + ((i + n) - start), n) = i
        BY <1>1, <2>1, <2>2, <3>2 DEF Wrap
      <4> QED
        BY <4>1
    <3> QED
      BY <1>1, <2>1, <2>2, <3>1, <3>2
  <2>4. Steps \in SUBSET Nat /\ Steps # {}
    BY <1>1, <2>2, <2>3
  <2>5. PICK least \in Steps : \A m \in Steps : least <= m
    BY <2>4, LeastNumber
  <2>6. least \in 0 .. n - 1 /\ Ready(least) /\ \A j \in 0 .. least - 1 : ~Ready(j)
    <3>1. ASSUME NEW j \in 0 .. least - 1, Ready(j) PROVE FALSE
      <4>1. j \in 0 .. n - 1 /\ j < least
        BY <1>1, <2>4, <2>5
      <4>2. j \in Steps
        BY <3>1, <4>1
      <4> QED
        BY <2>4, <2>5, <4>1, <4>2
    <3> QED
      BY <2>5, <3>1
  <2>7. PICK k \in 0 .. n - 1 : Ready(k) /\ UsingSequence(s) = Wrap(start + k, n)
    <3> DEFINE k == CHOOSE k \in 0 .. n - 1 : Ready(k) /\ \A j \in 0 .. k - 1 : ~Ready(j)
    <3> HIDE DEF Ready
    <3>1. k \in 0 .. n - 1 /\ Ready(k)
      BY <2>6
    <3>2. UsingSequence(s) = Wrap(start + k, n)
      BY <1>3 DEF UsingSequence, start, n, Ready
    <3> QED
      BY <3>1, <3>2
  <2>8. UsingSequence(s) \in availableSeq[s]
    BY <2>7
  <2> QED
    BY <1>1, <2>8
<1> QED
  BY <1>2, <1>3

-----------------------------------------------------------------------------
(* The steps of the invariant.                                             *)

\* The part of TypeOK that relates AvailableSeq and NextSequence to the lists.
Indexes ==
  \A s \in Service : /\ availableSeq[s] \subseteq DOMAIN address[s]
                     /\ nextSequence[s] \in 1 .. Len(address[s]) + 1

LEMMA IndexesStay ==
  ASSUME TypeOK, ListsGrow, UNCHANGED <<availableSeq, nextSequence>>
  PROVE  Indexes'
<1> SUFFICES ASSUME NEW s \in Service
             PROVE  /\ availableSeq[s] \subseteq DOMAIN address'[s]
                    /\ nextSequence[s] \in 1 .. Len(address'[s]) + 1
  BY DEF Indexes
<1>1. address[s] \in Seq(Addr) /\ address'[s] \in Seq(Addr)
  BY DEF TypeOK, ListsGrow
<1>2. /\ Len(address[s]) \in Nat /\ DOMAIN address[s] = 1 .. Len(address[s])
      /\ Len(address'[s]) \in Nat /\ DOMAIN address'[s] = 1 .. Len(address'[s])
  BY <1>1, LenProperties
<1>3. 1 .. Len(address[s]) \subseteq 1 .. Len(address'[s])
  BY <1>2 DEF ListsGrow
<1>4. Len(address[s]) <= Len(address'[s])
  BY <1>2, <1>3
<1> QED
  BY <1>2, <1>3, <1>4 DEF TypeOK

LEMMA StatusFacts ==
  ASSUME TypeOK, NEW s \in Service, NEW e \in Endpoint, NEW ok \in BOOLEAN,
         UpdateServerHealthStatus(s, e, ok)
  PROVE  /\ onSecondary' \in [Service -> SUBSET Endpoint]
         /\ availableSeq' \in [Service -> SUBSET Nat]
         /\ \A x \in Service \ {s} : availableSeq'[x] = availableSeq[x]
         /\ \A i \in DOMAIN address[s] :
              i \in availableSeq'[s] <=>
                IF e = <<address[s][i], "primary">> THEN ok ELSE i \in availableSeq[s]
         /\ availableSeq'[s] \subseteq DOMAIN address[s]
<1> DEFINE hits == {i \in DOMAIN address[s] : e = <<address[s][i], "primary">>}
<1>1. /\ availableSeq' = [availableSeq EXCEPT ![s] = IF ok THEN @ \cup hits ELSE @ \ hits]
      /\ \E p \in Endpoint : onSecondary' = [onSecondary EXCEPT ![s] =
              IF p # e THEN @ \cup {e} ELSE IF ok THEN @ \ {e} ELSE @]
  BY DEF UpdateServerHealthStatus, Endpoint
<1>2. hits \subseteq DOMAIN address[s] /\ availableSeq[s] \subseteq DOMAIN address[s]
  BY DEF TypeOK
<1>3. address[s] \in Seq(Addr) /\ DOMAIN address[s] \subseteq Nat
  <2>1. address[s] \in Seq(Addr)
    BY DEF TypeOK
  <2> QED
    BY <2>1, LenProperties
<1>4. /\ availableSeq'[s] = IF ok THEN availableSeq[s] \cup hits ELSE availableSeq[s] \ hits
      /\ \A x \in Service \ {s} : availableSeq'[x] = availableSeq[x]
  BY <1>1 DEF TypeOK
<1>5. onSecondary' \in [Service -> SUBSET Endpoint]
  BY <1>1 DEF TypeOK
<1>6. \A i \in DOMAIN address[s] : i \in hits <=> e = <<address[s][i], "primary">>
  OBVIOUS
<1> HIDE DEF hits
<1>7. availableSeq' \in [Service -> SUBSET Nat]
  BY <1>1, <1>2, <1>3, <1>4 DEF TypeOK
<1> QED
  BY <1>2, <1>4, <1>5, <1>6, <1>7

\* A step of the monitor that leaves the mesh alone.
LEMMA MonitorOnly ==
  ASSUME IInv, dual' \in SUBSET Addr, monitor' \in MonitorState,
         UNCHANGED <<meshVars, lastAddr, aliased, pending, notified, caller,
                     passed, unsettled>>
  PROVE  IInv'
<1> USE DEF meshVars
<1>1. TypeOK'
  BY DEF IInv, TypeOK
<1>2. Distinct' /\ Adopted' /\ ReadyIsPassed'
  BY DEF IInv, Distinct, Adopted, ReadyIsPassed, AddressesOf
<1>3. AllListed'
  BY DEF IInv, AllListed, AddressesOf
<1> QED
  BY <1>1, <1>2, <1>3 DEF IInv

LEMMA FetchConfigStep == ASSUME IInv, FetchConfig PROVE IInv'
<1>1. PICK m \in Reply :
        /\ dual' = m.dual
        /\ monitor' =
             IF NumServices(m.services) # NumServices(lastAddr)
             THEN [pc |-> "change", services |-> m.services]
             ELSE [pc |-> "sort", services |-> m.services,
                   todo |-> {s \in Service : lastAddr[s] # {}}]
  BY DEF FetchConfig
<1>2. m.services \in [Service -> SUBSET Addr] /\ m.dual \in SUBSET Addr
  BY ReplyAssumption
<1>3. monitor' \in MonitorState
  BY <1>1, <1>2 DEF MonitorState
<1> QED
  BY <1>1, <1>2, <1>3, MonitorOnly DEF FetchConfig

LEMMA SortDoneStep == ASSUME IInv, NEW s \in Service, SortDone(s) PROVE IInv'
<1>1. monitor.services \in [Service -> SUBSET Addr] /\ monitor.todo \in SUBSET Service
  BY MonitorFacts DEF SortDone, IInv
<1>2. monitor' \in MonitorState
  <2>1. CASE monitor.services[s] = {}
    <3>1. monitor' = [pc |-> "change", services |-> monitor.services]
      BY <2>1 DEF SortDone
    <3> QED
      BY <1>1, <3>1 DEF MonitorState
  <2>2. CASE monitor.services[s] # {}
    <3>1. monitor = [pc |-> "sort", services |-> monitor.services, todo |-> monitor.todo]
      BY MonitorFacts DEF SortDone, IInv
    <3>2. monitor' = [pc |-> "sort", services |-> monitor.services,
                      todo |-> monitor.todo \ {s}]
      BY <2>2, <3>1 DEF SortDone
    <3> QED
      BY <1>1, <3>2 DEF MonitorState
  <2> QED
    BY <2>1, <2>2
<1>3. dual' \in SUBSET Addr
  BY DEF SortDone, IInv, TypeOK
<1> QED
  BY <1>2, <1>3, MonitorOnly DEF SortDone

LEMMA CompareConfigStep == ASSUME IInv, CompareConfig PROVE IInv'
<1>1. monitor.services \in [Service -> SUBSET Addr]
  BY MonitorFacts DEF CompareConfig, IInv
<1>2. monitor' \in MonitorState
  BY <1>1 DEF CompareConfig, MonitorState
<1>3. dual' \in SUBSET Addr
  BY DEF CompareConfig, IInv, TypeOK
<1> QED
  BY <1>2, <1>3, MonitorOnly DEF CompareConfig

LEMMA LearnSecondaryStep ==
  ASSUME IInv, NEW a \in Announcing, LearnSecondary(a) PROVE IInv'
<1>1. dual' \in SUBSET Addr /\ monitor' \in MonitorState
  BY AnnouncingAssumption DEF LearnSecondary, IInv, TypeOK
<1> QED
  BY <1>1, MonitorOnly DEF LearnSecondary

\* What is known of listed addresses stays listed while the lists grow.
LEMMA ListedStay ==
  ASSUME IInv, ListsGrow, UNCHANGED <<pending, passed, caller>>
  PROVE  AllListed'
<1>1. \A r \in Round : \A t \in pending[r] : t.addr \in AddressesOf(t.name)'
  BY DEF IInv, TypeOK, Tasks, AllListed, ListsGrow
<1>2. \A p \in passed : p[2] \in AddressesOf(p[1])'
  BY DEF IInv, TypeOK, AllListed, ListsGrow
<1>3. \A c \in Caller : caller[c] # Idle => caller[c].using \in DOMAIN address'[caller[c].name]
  <2> SUFFICES ASSUME NEW c \in Caller, caller[c] # Idle
               PROVE  caller[c].using \in DOMAIN address'[caller[c].name]
    OBVIOUS
  <2>1. caller[c].name \in Service
    BY CallerFacts DEF IInv
  <2> QED
    BY <2>1 DEF IInv, AllListed, ListsGrow
<1> QED
  BY <1>1, <1>2, <1>3 DEF AllListed

LEMMA SortSwapStep ==
  ASSUME IInv, NEW s \in Service, NEW i \in Nat, SortSwap(s, i) PROVE IInv'
<1>1. TypeOK /\ Distinct /\ ReadyIsPassed /\ Adopted
  BY DEF IInv
<1>2. ListsGrow
  BY <1>1, SwapGrows
<1>3. TypeOK'
  <2>1. Indexes'
    BY <1>1, <1>2, IndexesStay DEF SortSwap
  <2>2. unsettled' \in SUBSET (Service \X Addr)
    <3>1. address[s] \in Seq(Addr) /\ i \in DOMAIN address[s] /\ i + 1 \in DOMAIN address[s]
      BY <1>1 DEF SortSwap, TypeOK
    <3>2. address[s][i] \in Addr /\ address[s][i + 1] \in Addr
      BY <3>1
    <3> QED
      BY <1>1, <3>2 DEF SortSwap, TypeOK
  <2> QED
    BY <1>1, <1>2, <2>1, <2>2 DEF SortSwap, TypeOK, ListsGrow, Indexes
<1>4. AllListed'
  BY <1>2, ListedStay DEF SortSwap
<1>5. Adopted'
  BY <1>1, <1>2 DEF SortSwap, Adopted, ListsGrow
<1>6. ReadyIsPassed'
  <2> SUFFICES ASSUME NEW x \in Service, NEW j \in DOMAIN address'[x],
                      <<x, address'[x][j]>> \notin unsettled'
               PROVE  j \in availableSeq[x] <=> <<x, address'[x][j]>> \in passed
    BY DEF ReadyIsPassed, SortSwap
  <2>1. unsettled \subseteq unsettled'
    BY DEF SortSwap
  <2>2. j \in DOMAIN address[x] /\ address'[x][j] = address[x][j]
    <3>1. CASE x = s
      BY <1>1, <3>1, SwapFacts
    <3>2. CASE x # s
      BY <1>1, <3>2 DEF SortSwap, TypeOK
    <3> QED
      BY <3>1, <3>2
  <2> QED
    BY <1>1, <2>1, <2>2 DEF ReadyIsPassed
<1> QED
  BY <1>2, <1>3, <1>4, <1>5, <1>6 DEF IInv, ListsGrow

LEMMA ChangeServiceHealthStep == ASSUME IInv, ChangeServiceHealth PROVE IInv'
<1>1. TypeOK /\ Distinct /\ ReadyIsPassed /\ AllListed
  BY DEF IInv
<1>2. /\ ListsGrow
      /\ \A s \in Service :
           /\ \A i \in DOMAIN address[s] : address'[s][i] = address[s][i]
           /\ \A i \in DOMAIN address'[s] \ DOMAIN address[s] :
                address'[s][i] \notin AddressesOf(s)
           /\ AddressesOf(s)' = AddressesOf(s) \cup monitor.services[s]
  BY <1>1, ChangeGrows
<1>3. TypeOK'
  <2>1. Indexes'
    BY <1>1, <1>2, IndexesStay DEF ChangeServiceHealth
  <2>2. lastAddr' \in [Service -> SUBSET Addr]
    BY <1>1, ChangeFacts DEF ChangeServiceHealth
  <2>3. aliased' \in SUBSET Service
    BY DEF ChangeServiceHealth
  <2>4. monitor' \in MonitorState
    BY DEF ChangeServiceHealth, MonitorState
  <2> QED
    BY <1>1, <1>2, <2>1, <2>2, <2>3, <2>4 DEF ChangeServiceHealth, TypeOK, ListsGrow, Indexes
<1>4. AllListed'
  BY <1>2, ListedStay DEF ChangeServiceHealth
<1>5. Adopted'
  BY <1>2 DEF ChangeServiceHealth, Adopted
<1>6. ReadyIsPassed'
  <2> SUFFICES ASSUME NEW s \in Service, NEW i \in DOMAIN address'[s],
                      <<s, address'[s][i]>> \notin unsettled
               PROVE  i \in availableSeq[s] <=> <<s, address'[s][i]>> \in passed
    BY DEF ReadyIsPassed, ChangeServiceHealth
  <2>1. CASE i \in DOMAIN address[s]
    BY <1>1, <1>2, <2>1 DEF ReadyIsPassed
  <2>2. CASE i \notin DOMAIN address[s]
    <3>1. i \notin availableSeq[s]
      BY <1>1, <2>2 DEF TypeOK
    <3>2. <<s, address'[s][i]>> \notin passed
      BY <1>1, <1>2, <2>2 DEF AllListed
    <3> QED
      BY <3>1, <3>2
  <2> QED
    BY <2>1, <2>2
<1> QED
  BY <1>2, <1>3, <1>4, <1>5, <1>6 DEF IInv, ListsGrow

\* A new round has one check for each listed address.
LEMMA RoundStep ==
  ASSUME IInv, NEW r \in Round, StartRound(r), notified' \in BOOLEAN,
         UNCHANGED <<meshVars, dual, lastAddr, aliased, monitor, caller, passed, unsettled>>
  PROVE  IInv'
<1> USE DEF meshVars
<1>1. PICK own \in Assignments :
        pending' = [pending EXCEPT ![r] = {Task(a, own[a], "primary") : a \in DOMAIN own}]
  BY DEF StartRound
<1>2. \A a \in DOMAIN own : own[a] \in Service /\ a \in AddressesOf(own[a])
  BY <1>1 DEF Assignments
<1>3. \A s \in Service : AddressesOf(s) \subseteq Addr
  <2> SUFFICES ASSUME NEW s \in Service PROVE AddressesOf(s) \subseteq Addr
    OBVIOUS
  <2>1. address[s] \in Seq(Addr)
    BY DEF IInv, TypeOK
  <2> QED
    BY <2>1 DEF AddressesOf
<1>4. \A t \in pending'[r] : t \in Tasks /\ t.addr \in AddressesOf(t.name)
  <2> SUFFICES ASSUME NEW t \in pending'[r]
               PROVE  t \in Tasks /\ t.addr \in AddressesOf(t.name)
    OBVIOUS
  <2>1. PICK a \in DOMAIN own : t = Task(a, own[a], "primary")
    BY <1>1 DEF IInv, TypeOK
  <2> QED
    BY <1>2, <1>3, <2>1 DEF Task, Tasks
<1>5. /\ pending' \in [Round -> SUBSET Tasks]
      /\ \A x \in Round \ {r} : pending'[x] = pending[x]
  <2>1. pending \in [Round -> SUBSET Tasks]
    BY DEF IInv, TypeOK
  <2>2. pending'[r] \subseteq Tasks
    BY <1>4
  <2> QED
    BY <1>1, <2>1, <2>2
<1>6. TypeOK'
  BY <1>5 DEF IInv, TypeOK
<1>7. Distinct' /\ Adopted' /\ ReadyIsPassed'
  BY DEF IInv, Distinct, Adopted, ReadyIsPassed, AddressesOf
<1>8. AllListed'
  <2>1. \A x \in Round : \A t \in pending'[x] : t.addr \in AddressesOf(t.name)
    BY <1>4, <1>5 DEF IInv, AllListed
  <2> QED
    BY <2>1 DEF IInv, AllListed, AddressesOf
<1> QED
  BY <1>6, <1>7, <1>8 DEF IInv

LEMMA CheckPrimaryStep ==
  ASSUME IInv, NEW r \in Round, NEW t \in pending[r], NEW ok \in BOOLEAN,
         CheckPrimary(r, t, ok)
  PROVE  IInv'
<1> DEFINE s == t.name
           a == t.addr
           e == <<a, "primary">>
<1>1. /\ t \in Tasks /\ s \in Service /\ a \in Addr /\ e \in Endpoint
      /\ a \in AddressesOf(s)
  BY DEF IInv, TypeOK, Tasks, AllListed, Endpoint
<1>2. /\ UpdateServerHealthStatus(s, e, ok)
      /\ passed' = IF ok THEN passed \cup {<<s, a>>} ELSE passed \ {<<s, a>>}
      /\ unsettled' = unsettled \ {<<s, a>>}
      /\ UNCHANGED <<address, nextSequence, dual, lastAddr, aliased, monitor,
                     notified, caller>>
  BY DEF CheckPrimary
<1>3. TypeOK
  BY DEF IInv
<1>4. /\ onSecondary' \in [Service -> SUBSET Endpoint]
      /\ availableSeq' \in [Service -> SUBSET Nat]
      /\ \A x \in Service \ {s} : availableSeq'[x] = availableSeq[x]
      /\ \A i \in DOMAIN address[s] :
           i \in availableSeq'[s] <=>
             IF e = <<address[s][i], "primary">> THEN ok ELSE i \in availableSeq[s]
      /\ availableSeq'[s] \subseteq DOMAIN address[s]
  BY <1>1, <1>2, <1>3, StatusFacts
<1>5. PICK next \in SUBSET Tasks :
        /\ \A u \in next : u.addr = a /\ u.name = s
        /\ pending' = [pending EXCEPT ![r] = (@ \ {t}) \cup next]
  <2>1. Task(a, s, "secondary") \in Tasks /\ Task(a, s, "secondary").addr = a
        /\ Task(a, s, "secondary").name = s
    BY <1>1 DEF Task, Tasks
  <2> DEFINE N == IF ~ok /\ a \in dual THEN {Task(a, s, "secondary")} ELSE {}
  <2>2. pending' = [pending EXCEPT ![r] = (@ \ {t}) \cup N]
    BY DEF CheckPrimary
  <2>3. N \in SUBSET Tasks /\ \A u \in N : u.addr = a /\ u.name = s
    BY <2>1
  <2> HIDE DEF N
  <2> QED
    BY <2>2, <2>3
<1>6. /\ pending' \in [Round -> SUBSET Tasks]
      /\ \A x \in Round : \A u \in pending'[x] : u.addr \in AddressesOf(u.name)
  <2>1. pending \in [Round -> SUBSET Tasks]
    BY <1>3 DEF TypeOK
  <2>2. /\ pending'[r] = (pending[r] \ {t}) \cup next
        /\ \A x \in Round \ {r} : pending'[x] = pending[x]
    BY <1>5, <2>1
  <2>3. \A u \in next : u.addr \in AddressesOf(u.name)
    BY <1>1, <1>5
  <2>4. \A x \in Round : \A u \in pending[x] : u.addr \in AddressesOf(u.name)
    BY DEF IInv, AllListed
  <2> QED
    BY <1>5, <2>1, <2>2, <2>3, <2>4
<1>7. TypeOK'
  <2>1. passed' \in SUBSET (Service \X Addr) /\ unsettled' \in SUBSET (Service \X Addr)
    BY <1>1, <1>2, <1>3 DEF TypeOK
  <2>2. \A x \in Service : availableSeq'[x] \subseteq DOMAIN address[x]
    BY <1>3, <1>4 DEF TypeOK
  <2> QED
    BY <1>2, <1>3, <1>4, <1>6, <2>1, <2>2 DEF TypeOK
<1>8. Distinct' /\ Adopted'
  BY <1>2 DEF IInv, Distinct, Adopted, AddressesOf
<1>9. AllListed'
  <2>1. \A x \in Round : \A u \in pending'[x] : u.addr \in AddressesOf(u.name)'
    BY <1>2, <1>6 DEF AddressesOf
  <2>2. \A p \in passed' : p[2] \in AddressesOf(p[1])'
    BY <1>1, <1>2 DEF IInv, AllListed, AddressesOf
  <2> QED
    BY <1>2, <2>1, <2>2 DEF IInv, AllListed
<1>10. ReadyIsPassed'
  <2> SUFFICES ASSUME NEW x \in Service, NEW i \in DOMAIN address[x],
                      <<x, address[x][i]>> \notin unsettled'
               PROVE  i \in availableSeq'[x] <=> <<x, address[x][i]>> \in passed'
    BY <1>2 DEF ReadyIsPassed
  <2>1. CASE x = s /\ address[x][i] = a
    <3>1. i \in availableSeq'[x] <=> ok
      BY <1>4, <2>1
    <3>2. <<x, address[x][i]>> \in passed' <=> ok
      BY <1>2, <2>1
    <3> QED
      BY <3>1, <3>2
  <2>2. CASE ~(x = s /\ address[x][i] = a)
    <3>1. <<x, address[x][i]>> # <<s, a>>
      BY <2>2
    <3>2. /\ <<x, address[x][i]>> \notin unsettled
          /\ <<x, address[x][i]>> \in passed' <=> <<x, address[x][i]>> \in passed
      BY <1>2, <3>1
    <3>3. i \in availableSeq'[x] <=> i \in availableSeq[x]
      <4>1. CASE x = s
        <5>1. e # <<address[x][i], "primary">>
          BY <2>2, <4>1
        <5> QED
          BY <1>4, <4>1, <5>1
      <4>2. CASE x # s
        BY <1>4, <4>2
      <4> QED
        BY <4>1, <4>2
    <3>4. i \in availableSeq[x] <=> <<x, address[x][i]>> \in passed
      BY <3>2 DEF IInv, ReadyIsPassed
    <3> QED
      BY <3>2, <3>3, <3>4
  <2> QED
    BY <2>1, <2>2
<1> QED
  BY <1>7, <1>8, <1>9, <1>10 DEF IInv

LEMMA CheckSecondaryStep ==
  ASSUME IInv, NEW r \in Round, NEW t \in pending[r], NEW ok \in BOOLEAN,
         CheckSecondary(r, t, ok)
  PROVE  IInv'
<1> DEFINE s == t.name
           e == <<t.addr, "secondary">>
<1>1. TypeOK /\ s \in Service /\ e \in Endpoint
  BY DEF IInv, TypeOK, Tasks, Endpoint
<1>2. /\ pending' = [pending EXCEPT ![r] = @ \ {t}]
      /\ IF ok THEN UpdateServerHealthStatus(s, e, TRUE)
               ELSE UNCHANGED <<onSecondary, availableSeq>>
      /\ UNCHANGED <<address, nextSequence, dual, lastAddr, aliased, monitor,
                     notified, caller, passed, unsettled>>
  BY DEF CheckSecondary
<1>3. /\ pending' \in [Round -> SUBSET Tasks]
      /\ \A x \in Round : pending'[x] \subseteq pending[x]
  BY <1>1, <1>2 DEF TypeOK
<1>4. /\ onSecondary' \in [Service -> SUBSET Endpoint]
      /\ availableSeq' \in [Service -> SUBSET Nat]
      /\ \A x \in Service : /\ availableSeq'[x] \subseteq DOMAIN address[x]
                            /\ \A i \in DOMAIN address[x] :
                                 i \in availableSeq'[x] <=> i \in availableSeq[x]
  <2>1. CASE ok
    <3>1. /\ onSecondary' \in [Service -> SUBSET Endpoint]
          /\ availableSeq' \in [Service -> SUBSET Nat]
          /\ \A x \in Service \ {s} : availableSeq'[x] = availableSeq[x]
          /\ \A i \in DOMAIN address[s] :
               i \in availableSeq'[s] <=>
                 IF e = <<address[s][i], "primary">> THEN TRUE ELSE i \in availableSeq[s]
          /\ availableSeq'[s] \subseteq DOMAIN address[s]
      BY <1>1, <1>2, <2>1, StatusFacts
    <3>2. \A i \in DOMAIN address[s] : e # <<address[s][i], "primary">>
      OBVIOUS
    <3>3. \A x \in Service \ {s} : availableSeq'[x] \subseteq DOMAIN address[x]
      BY <1>1, <3>1 DEF TypeOK
    <3>4. \A i \in DOMAIN address[s] : i \in availableSeq'[s] <=> i \in availableSeq[s]
      BY <3>1, <3>2
    <3> QED
      BY <3>1, <3>3, <3>4
  <2>2. CASE ~ok
    BY <1>1, <1>2, <2>2 DEF TypeOK
  <2> QED
    BY <2>1, <2>2
<1>5. TypeOK'
  BY <1>1, <1>2, <1>3, <1>4 DEF TypeOK
<1>6. Distinct' /\ Adopted'
  BY <1>2 DEF IInv, Distinct, Adopted, AddressesOf
<1>7. AllListed'
  BY <1>2, <1>3 DEF IInv, AllListed, AddressesOf
<1>8. ReadyIsPassed'
  BY <1>2, <1>4 DEF IInv, ReadyIsPassed
<1> QED
  BY <1>5, <1>6, <1>7, <1>8 DEF IInv

\* A caller enters or leaves the gap between its lookup and its Increment.
LEMMA CallerOnly ==
  ASSUME IInv, caller' \in [Caller -> CallerState],
         nextSequence' \in [Service -> Nat],
         \A s \in Service : nextSequence'[s] \in 1 .. Len(address[s]) + 1,
         \A c \in Caller : caller'[c] # Idle =>
           caller'[c].using \in DOMAIN address[caller'[c].name],
         UNCHANGED <<address, availableSeq, onSecondary, dual, lastAddr, aliased,
                     monitor, pending, notified, passed, unsettled>>
  PROVE  IInv'
<1>1. TypeOK'
  <2>1. TypeOK
    BY DEF IInv
  <2>2. \A s \in Service : /\ availableSeq'[s] \subseteq DOMAIN address'[s]
                           /\ nextSequence'[s] \in 1 .. Len(address'[s]) + 1
    BY <2>1 DEF TypeOK
  <2>3. /\ address' \in [Service -> Seq(Addr)]
        /\ availableSeq' \in [Service -> SUBSET Nat]
        /\ onSecondary' \in [Service -> SUBSET Endpoint]
        /\ dual' \in SUBSET Addr
        /\ lastAddr' \in [Service -> SUBSET Addr]
        /\ aliased' \in SUBSET Service
    BY <2>1 DEF TypeOK
  <2>4. /\ monitor' \in MonitorState
        /\ pending' \in [Round -> SUBSET Tasks]
        /\ notified' \in BOOLEAN
        /\ passed' \in SUBSET (Service \X Addr)
        /\ unsettled' \in SUBSET (Service \X Addr)
    BY <2>1 DEF TypeOK
  <2> QED
    BY <2>2, <2>3, <2>4 DEF TypeOK
<1>2. Distinct' /\ Adopted' /\ ReadyIsPassed'
  <2>1. Distinct'
    BY DEF IInv, Distinct
  <2>2. Adopted'
    BY DEF IInv, Adopted, AddressesOf
  <2>3. ReadyIsPassed'
    BY DEF IInv, ReadyIsPassed
  <2> QED
    BY <2>1, <2>2, <2>3
<1>3. AllListed'
  BY DEF IInv, AllListed, AddressesOf
<1> QED
  BY <1>1, <1>2, <1>3 DEF IInv

\* What a lookup leaves behind in the caller.
LEMMA LookupFacts ==
  ASSUME TypeOK, NEW c \in Caller, NEW s \in Service, Lookup(c, s)
  PROVE  /\ caller'[c] \in CallerState
         /\ caller'[c].name = s
         /\ caller'[c].using = UsingSequence(s)
         /\ caller'[c].addr[1] = address[s][UsingSequence(s)]
         /\ UsingSequence(s) \in DOMAIN address[s]
         /\ \A x \in Caller \ {c} : caller'[x] = caller[x]
         /\ caller' = [caller EXCEPT ![c] = caller'[c]]
<1> DEFINE using == UsingSequence(s)
           a == address[s][using]
           via == IF ViaSecondary(s, a) THEN "secondary" ELSE "primary"
<1>1. /\ caller' = [caller EXCEPT ![c] =
              [pc |-> "increment", name |-> s, using |-> using, addr |-> <<a, via>>]]
      /\ Configured(s)
  BY DEF Lookup
<1>2. using \in DOMAIN address[s]
  BY <1>1, UsingSequenceFacts
<1>3. address[s] \in Seq(Addr)
  BY DEF TypeOK
<1> HIDE DEF using
<1>4. using \in Nat /\ a \in Addr
  BY <1>2, <1>3, LenProperties
<1>5. <<a, via>> \in Endpoint
  BY <1>4 DEF Endpoint
<1> HIDE DEF a, via
<1>6. caller'[c] = [pc |-> "increment", name |-> s, using |-> using, addr |-> <<a, via>>]
  BY <1>1 DEF TypeOK
<1>7. caller'[c] \in CallerState
  BY <1>4, <1>5, <1>6 DEF CallerState
<1>8. \A x \in Caller \ {c} : caller'[x] = caller[x]
  BY <1>1 DEF TypeOK
<1>9. caller' = [caller EXCEPT ![c] = caller'[c]]
  BY <1>1, <1>6
<1>10. caller'[c].name = s /\ caller'[c].using = using /\ caller'[c].addr[1] = a
  BY <1>6
<1>11. using = UsingSequence(s) /\ a = address[s][UsingSequence(s)]
  BY DEF using, a
<1> QED
  BY <1>2, <1>7, <1>8, <1>9, <1>10, <1>11

LEMMA LookupStep ==
  ASSUME IInv, NEW c \in Caller, NEW s \in Service, Lookup(c, s) PROVE IInv'
<1>1. TypeOK
  BY DEF IInv
<1>2. /\ caller'[c] \in CallerState
      /\ caller'[c].name = s
      /\ caller'[c].using \in DOMAIN address[s]
      /\ \A x \in Caller \ {c} : caller'[x] = caller[x]
      /\ caller' = [caller EXCEPT ![c] = caller'[c]]
  BY <1>1, LookupFacts
<1>3. caller' \in [Caller -> CallerState]
  BY <1>1, <1>2 DEF TypeOK
<1>4. \A x \in Caller : caller'[x] # Idle =>
        caller'[x].using \in DOMAIN address[caller'[x].name]
  BY <1>2 DEF IInv, AllListed
<1>5. /\ nextSequence' \in [Service -> Nat]
      /\ \A x \in Service : nextSequence'[x] \in 1 .. Len(address[x]) + 1
  BY <1>1 DEF Lookup, TypeOK
<1> QED
  BY <1>3, <1>4, <1>5, CallerOnly DEF Lookup

LEMMA IncrementStep == ASSUME IInv, NEW c \in Caller, Increment(c) PROVE IInv'
<1> DEFINE s == caller[c].name
<1>1. TypeOK
  BY DEF IInv
<1>2. s \in Service /\ caller[c].using \in DOMAIN address[s]
  BY <1>1, CallerFacts DEF Increment, IInv, AllListed
<1>3. /\ caller' \in [Caller -> CallerState]
      /\ \A x \in Caller : caller'[x] # Idle =>
           caller'[x].using \in DOMAIN address[caller'[x].name]
  BY <1>1 DEF Increment, TypeOK, CallerState, IInv, AllListed
<1>4. caller[c].using + 1 \in 1 .. Len(address[s]) + 1
  <2>1. address[s] \in Seq(Addr)
    BY <1>1, <1>2 DEF TypeOK
  <2>2. Len(address[s]) \in Nat /\ DOMAIN address[s] = 1 .. Len(address[s])
    BY <2>1, LenProperties
  <2> QED
    BY <1>2, <2>2
<1>5. /\ nextSequence' \in [Service -> Nat]
      /\ \A x \in Service : nextSequence'[x] \in 1 .. Len(address[x]) + 1
  BY <1>1, <1>2, <1>4 DEF Increment, TypeOK
<1> QED
  BY <1>3, <1>5, CallerOnly DEF Increment

LEMMA StutterStep == ASSUME IInv, UNCHANGED vars PROVE IInv'
<1>1. TypeOK'
  BY DEF IInv, TypeOK, vars
<1>2. Distinct' /\ AllListed' /\ Adopted' /\ ReadyIsPassed'
  BY DEF IInv, Distinct, AllListed, Adopted, ReadyIsPassed, AddressesOf, vars
<1> QED
  BY <1>1, <1>2 DEF IInv

-----------------------------------------------------------------------------
(* The theorems.                                                           *)

LEMMA InitIInv == ASSUME Init PROVE IInv
<1>1. PICK m \in Reply : RegisterServiceHealth(m)
  BY DEF Init
<1>2. m.services \in [Service -> SUBSET Addr] /\ m.dual \in SUBSET Addr
  BY <1>1, ReplyAssumption
<1>3. \A s \in Service : /\ address[s] \in Seq(Addr)
                         /\ \A i, j \in DOMAIN address[s] :
                              address[s][i] = address[s][j] => i = j
                         /\ AddressesOf(s) = m.services[s]
  <2> SUFFICES ASSUME NEW s \in Service
               PROVE  /\ address[s] \in Seq(Addr)
                      /\ \A i, j \in DOMAIN address[s] :
                           address[s][i] = address[s][j] => i = j
                      /\ AddressesOf(s) = m.services[s]
    OBVIOUS
  <2>1. m.services[s] \in SUBSET Addr /\ address[s] \in Listings(m.services[s])
    BY <1>1, <1>2 DEF RegisterServiceHealth
  <2> QED
    BY <2>1, ListingFacts DEF AddressesOf
<1>4. address \in [Service -> Seq(Addr)]
  BY <1>1, <1>3 DEF RegisterServiceHealth
<1>5. \A s \in Service : /\ availableSeq[s] \subseteq DOMAIN address[s]
                         /\ nextSequence[s] \in 1 .. Len(address[s]) + 1
  <2> SUFFICES ASSUME NEW s \in Service
               PROVE  /\ availableSeq[s] \subseteq DOMAIN address[s]
                      /\ nextSequence[s] \in 1 .. Len(address[s]) + 1
    OBVIOUS
  <2>1. availableSeq[s] = {} /\ nextSequence[s] = 1
    BY DEF Init
  <2>2. Len(address[s]) \in Nat
    BY <1>3, LenProperties
  <2> QED
    BY <2>1, <2>2
<1>6. TypeOK
  <2>1. /\ availableSeq \in [Service -> SUBSET Nat]
        /\ onSecondary \in [Service -> SUBSET Endpoint]
        /\ nextSequence \in [Service -> Nat]
    BY DEF Init
  <2>2. dual \in SUBSET Addr /\ lastAddr \in [Service -> SUBSET Addr]
        /\ aliased \in SUBSET Service
    BY <1>1, <1>2 DEF RegisterServiceHealth
  <2>3. /\ monitor \in MonitorState
        /\ pending \in [Round -> SUBSET Tasks]
        /\ notified \in BOOLEAN
        /\ caller \in [Caller -> CallerState]
        /\ passed \in SUBSET (Service \X Addr)
        /\ unsettled \in SUBSET (Service \X Addr)
    BY DEF Init, MonitorState, CallerState
  <2> QED
    BY <1>4, <1>5, <2>1, <2>2, <2>3 DEF TypeOK
<1>7. Distinct /\ Adopted
  BY <1>1, <1>3 DEF Distinct, Adopted, RegisterServiceHealth
<1>8. AllListed /\ ReadyIsPassed
  BY DEF Init, AllListed, ReadyIsPassed
<1> QED
  BY <1>6, <1>7, <1>8 DEF IInv

LEMMA NextIInv == ASSUME IInv, [Next]_vars PROVE IInv'
<1>1. CASE FetchConfig
  BY <1>1, FetchConfigStep
<1>2. ASSUME NEW s \in Service, NEW i \in 1 .. Cardinality(Addr), SortSwap(s, i) PROVE IInv'
  <2>1. i \in Nat
    BY FiniteAddresses
  <2> QED
    BY <1>2, <2>1, SortSwapStep
<1>3. ASSUME NEW s \in Service, SortDone(s) PROVE IInv'
  BY <1>3, SortDoneStep
<1>4. CASE CompareConfig
  BY <1>4, CompareConfigStep
<1>5. CASE ChangeServiceHealth
  BY <1>5, ChangeServiceHealthStep
<1>6. ASSUME NEW a \in Announcing, LearnSecondary(a) PROVE IInv'
  BY <1>6, LearnSecondaryStep
<1>7. CASE StartPeriodicRound
  <2>1. notified' \in BOOLEAN
    BY <1>7 DEF StartPeriodicRound, IInv, TypeOK
  <2> QED
    BY <1>7, <2>1, RoundStep DEF StartPeriodicRound
<1>8. CASE NotifyCheckerShutdown
  <2>1. notified' \in BOOLEAN
    BY <1>8 DEF NotifyCheckerShutdown
  <2> QED
    BY <1>8, <2>1, RoundStep DEF NotifyCheckerShutdown
<1>9. ASSUME NEW r \in Round, NEW t \in pending[r], NEW ok \in BOOLEAN,
             CheckPrimary(r, t, ok) \/ CheckSecondary(r, t, ok)
      PROVE  IInv'
  BY <1>9, CheckPrimaryStep, CheckSecondaryStep
<1>10. ASSUME NEW c \in Caller, NEW s \in Service, Lookup(c, s) PROVE IInv'
  BY <1>10, LookupStep
<1>11. ASSUME NEW c \in Caller, Increment(c) PROVE IInv'
  BY <1>11, IncrementStep
<1>12. CASE UNCHANGED vars
  BY <1>12, StutterStep
<1> QED
  BY <1>1, <1>2, <1>3, <1>4, <1>5, <1>6, <1>7, <1>8, <1>9, <1>10, <1>11, <1>12 DEF Next

LEMMA Invariant == Spec => []IInv
  BY InitIInv, NextIInv, PTL DEF Spec

\* AvailableSeq and NextSequence never leave the list of addresses, whatever the
\* configuration, the rounds and the lookups do in between.
THEOREM TypeCorrect == Spec => []TypeOK
<1>1. IInv => TypeOK
  BY DEF IInv
<1> QED
  BY Invariant, <1>1, PTL

\* AvailableSeq is right about every address no sort has moved since it was checked.
THEOREM ReadyIsPassedHolds == Spec => []ReadyIsPassed
<1>1. IInv => ReadyIsPassed
  BY DEF IInv
<1> QED
  BY Invariant, <1>1, PTL

\* The mesh has every address of the configuration the monitor adopted last.
THEOREM ConfigAppliedHolds == Spec => []ConfigApplied
<1>1. IInv => ConfigApplied
  BY DEF IInv, Adopted, ConfigApplied
<1> QED
  BY Invariant, <1>1, PTL

\* A lookup does not choose an address that failed while one that passed is listed.
LEMMA LookupRoutes ==
  ASSUME IInv, NEW c \in Caller, NEW s \in Service, Lookup(c, s),
         <<s, caller'[c].addr[1]>> \notin unsettled,
         NEW x \in AddressesOf(s), <<s, x>> \notin unsettled, <<s, x>> \in passed
  PROVE  <<s, caller'[c].addr[1]>> \in passed
<1> DEFINE using == UsingSequence(s)
<1>1. TypeOK /\ ReadyIsPassed
  BY DEF IInv
<1>2. caller'[c].addr[1] = address[s][using] /\ using \in DOMAIN address[s]
  BY <1>1, LookupFacts
<1>3. PICK i \in DOMAIN address[s] : x = address[s][i]
  BY DEF AddressesOf
<1>4. i \in availableSeq[s]
  BY <1>1, <1>3 DEF ReadyIsPassed
<1>5. using \in availableSeq[s]
  BY <1>1, <1>4, UsingSequenceFacts DEF Lookup
<1> QED
  BY <1>1, <1>2, <1>5 DEF ReadyIsPassed

\* Only its own lookup takes a caller out of Idle.
LEMMA OnlyLookupChooses ==
  ASSUME IInv, Next, NEW c \in Caller, caller[c] = Idle, caller'[c].pc = "increment"
  PROVE  \E s \in Service : Lookup(c, s)
<1>1. caller \in [Caller -> CallerState] /\ caller[c].pc = "idle"
  BY DEF IInv, TypeOK, Idle
<1>2. ASSUME NEW d \in Caller, Increment(d) PROVE FALSE
  <2>1. caller'[c] = Idle
    BY <1>1, <1>2 DEF Increment
  <2> QED
    BY <2>1 DEF Idle
<1>3. ASSUME NEW d \in Caller, NEW s \in Service, Lookup(d, s) PROVE d = c
  <2>1. d # c => caller'[c] = Idle
    BY <1>1, <1>3 DEF Lookup
  <2> QED
    BY <2>1 DEF Idle
<1>4. caller' # caller
  BY <1>1
<1> QED
  BY <1>2, <1>3, <1>4
     DEF Next, FetchConfig, SortSwap, SortDone, CompareConfig, ChangeServiceHealth,
         LearnSecondary, StartPeriodicRound, NotifyCheckerShutdown, CheckPrimary,
         CheckSecondary

\* GetServiceAddrByName routes around failures in every step of every behaviour.
THEOREM RoutesAroundFailuresHolds == Spec => RoutesAroundFailures
<1> DEFINE Routes ==
      \A c \in Caller :
        caller[c] = Idle /\ caller'[c].pc = "increment" =>
          LET s == caller'[c].name
              a == caller'[c].addr[1]
              Settled(x) == <<s, x>> \notin unsettled
          IN  Settled(a) /\ (\E x \in AddressesOf(s) : Settled(x) /\ <<s, x>> \in passed)
                => <<s, a>> \in passed
<1>1. ASSUME IInv, Next PROVE Routes
  <2> SUFFICES ASSUME NEW c \in Caller, caller[c] = Idle, caller'[c].pc = "increment",
                      <<caller'[c].name, caller'[c].addr[1]>> \notin unsettled,
                      NEW x \in AddressesOf(caller'[c].name),
                      <<caller'[c].name, x>> \notin unsettled,
                      <<caller'[c].name, x>> \in passed
               PROVE  <<caller'[c].name, caller'[c].addr[1]>> \in passed
    OBVIOUS
  <2>1. PICK s \in Service : Lookup(c, s)
    BY <1>1, OnlyLookupChooses
  <2>2. caller'[c].name = s
    BY <1>1, <2>1, LookupFacts DEF IInv
  <2> QED
    BY <1>1, <2>1, <2>2, LookupRoutes
<1>2. IInv /\ [Next]_vars => [Routes]_vars
  BY <1>1
<1> HIDE DEF Routes
<1>3. Spec => [][Routes]_vars
  BY Invariant, <1>2, PTL DEF Spec
<1> QED
  BY <1>3 DEF RoutesAroundFailures, Routes
=============================================================================
