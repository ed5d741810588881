--------------------------- MODULE DatabaseProofs ---------------------------
(***************************************************************************)
(* What DbBreaker, DbTx, LazyPool, TxRows and SqlText guarantee for any    *)
(* workers, connections, calls, pools and texts: once it is disabled, the  *)
(* breaker blocks nobody but for errors that were late, and it leaves a    *)
(* blocked database to the pings, a transaction keeps TxPromise and reads  *)
(* rows field by field, the race of the first callers of GetDB opens a     *)
(* bounded number of pools, the limit of idle connections follows the      *)
(* setting, and the server reads the SQL text that is built in the process *)
(* as it was meant.                                                        *)
(***************************************************************************)
EXTENDS DbBreaker, DbTx, LazyPool, TxRows, SqlText, FiniteSetTheorems, SequenceTheorems,
        WellFoundedInduction, TLAPS

-----------------------------------------------------------------------------
(* The circuit breaker.                                                    *)

\* What the goroutine in SetEnableOptimizeConnection leaves behind at each place.
AdminOK ==
  /\ admin = "idle" => enabled = running
  /\ admin = "start" => enabled
  /\ admin = "stop" => ~enabled
  /\ admin = "reset" => ~enabled /\ ~running

\* Once the map has been emptied for a disabled breaker, a connection's counter can
\* only be raised by the calls that saw the flag before, each of them once.
LateReportsBounded ==
  ~enabled /\ ~running /\ admin # "reset" =>
    \A c \in Conn : count[c] + Cardinality(Reporting(c)) <= late[c]

\* The bar below which an unblocked connection's counter stays.
Bar(n) == n \in BadCount /\ \A m \in BadCount : m <= n

CountBounded ==
  \A n \in BadCount : Bar(n) =>
    \A c \in Conn :
      /\ c \notin blocked => count[c] < n
      /\ c \in blocked => count[c] + Cardinality(Busy(c)) < n + Cardinality(Worker)

IInv == TypeOK /\ AdminOK /\ LateReportsBounded /\ CountBounded /\ SomeonePings

-----------------------------------------------------------------------------
(* Types.                                                                  *)

LEMMA DropTypes ==
  ASSUME TypeOK, NEW S, Drop(S)
  PROVE  /\ count' \in [Conn -> Nat]
         /\ blocked' \in SUBSET Conn
         /\ pinged' \in [Conn -> Pinger \cup {NoPinger}]
         /\ \A c \in blocked' : count'[c] >= MinBadCount
  BY DEF TypeOK, Drop, MinBadCount

LEMMA TypeInit == Init => TypeOK
<1> SUFFICES ASSUME Init PROVE TypeOK
  OBVIOUS
<1> USE DEF Init
<1>1. worker \in [Worker -> WorkerState]
  BY DEF WorkerState
<1>2. pinger \in [Pinger -> PingerState]
  BY DEF PingerState
<1>3. count \in [Conn -> Nat] /\ pinged \in [Conn -> Pinger \cup {NoPinger}]
  OBVIOUS
<1>4. blocked \in SUBSET Conn /\ \A c \in blocked : count[c] >= MinBadCount
  OBVIOUS
<1> QED
  BY <1>1, <1>2, <1>3, <1>4 DEF TypeOK

LEMMA TypeStep == TypeOK /\ [Next]_vars => TypeOK'
<1> SUFFICES ASSUME TypeOK, [Next]_vars PROVE TypeOK'
  OBVIOUS
<1> USE DEF TypeOK, entries
<1>1. ASSUME NEW enable \in BOOLEAN, SetFlag(enable) PROVE TypeOK'
  BY <1>1 DEF SetFlag
<1>2. CASE StartPingCheck
  <2>1. [pc |-> "collect"] \in PingerState
    BY DEF PingerState
  <2>2. pinger' \in [Pinger -> PingerState] /\ running' \in BOOLEAN
    BY <1>2, <2>1 DEF StartPingCheck
  <2> QED
    BY <1>2, <2>2 DEF StartPingCheck
<1>3. CASE StopPingCheck
  BY <1>3 DEF StopPingCheck
<1>4. CASE ResetEntries
  <2>1. \A c \in Conn : Cardinality(Reporting(c)) \in Nat
    BY WorkerAssumption, FS_Subset, FS_CardinalityType DEF Reporting
  <2>2. late' \in [Conn -> Nat]
    BY <1>4, <2>1 DEF ResetEntries
  <2> QED
    BY <1>4, <2>2, DropTypes DEF ResetEntries
<1>5. ASSUME NEW n \in BadCount, SetBadConnectionCount(n) PROVE TypeOK'
  BY <1>5 DEF SetBadConnectionCount
<1>6. ASSUME NEW w \in Worker, NEW c \in Conn, Access(w, c) PROVE TypeOK'
  BY <1>6 DEF Access, WorkerState
<1>7. ASSUME NEW w \in Worker, Return(w) PROVE TypeOK'
  BY <1>7 DEF Return, WorkerState, Idle
<1>8. ASSUME NEW w \in Worker, Record(w) PROVE TypeOK'
  BY <1>8, BadCountAssumption DEF Record, WorkerState, Idle, MinBadCount
<1>9. ASSUME NEW g \in Pinger, Collect(g) PROVE TypeOK'
  BY <1>9 DEF Collect, PingerState, HasEntry
<1>10. ASSUME NEW g \in Pinger, NEW c \in Conn, Ping(g, c) PROVE TypeOK'
  BY <1>10 DEF Ping, PingerState, Off
<1>11. ASSUME NEW g \in Pinger, Resume(g) PROVE TypeOK'
  BY <1>11, DropTypes DEF Resume, PingerState
<1>12. ASSUME NEW g \in Pinger, Wake(g) PROVE TypeOK'
  BY <1>12 DEF Wake, PingerState, Off
<1>13. ASSUME NEW c \in Conn, Flip(c) PROVE TypeOK'
  BY <1>13 DEF Flip
<1>14. CASE UNCHANGED vars
  BY <1>14 DEF vars
<1> QED
  BY <1>1, <1>2, <1>3, <1>4, <1>5, <1>6, <1>7, <1>8, <1>9, <1>10, <1>11, <1>12,
     <1>13, <1>14 DEF Next

-----------------------------------------------------------------------------
(* The parts of the invariant.                                             *)

LEMMA AdminStep == TypeOK /\ AdminOK /\ [Next]_vars => AdminOK'
<1> SUFFICES ASSUME TypeOK, AdminOK, [Next]_vars PROVE AdminOK'
  OBVIOUS
<1> USE DEF AdminOK
<1>0. enabled \in BOOLEAN /\ running \in BOOLEAN /\ running' \in BOOLEAN
  BY TypeStep DEF TypeOK
<1>1. CASE UNCHANGED <<enabled, running, admin>>
  BY <1>1
<1>2. ASSUME NEW enable \in BOOLEAN, SetFlag(enable) PROVE AdminOK'
  BY <1>2 DEF SetFlag
<1>3. CASE StartPingCheck
  BY <1>0, <1>3 DEF StartPingCheck
<1>4. CASE StopPingCheck
  <2>1. ~enabled' /\ ~running' /\ enabled' = running'
    BY <1>0, <1>4 DEF StopPingCheck
  <2>2. admin' \in {"reset", "idle"}
    BY <1>4 DEF StopPingCheck
  <2> QED
    BY <2>1, <2>2
<1>5. CASE ResetEntries
  BY <1>0, <1>5 DEF ResetEntries
<1> QED
  BY <1>1, <1>2, <1>3, <1>4, <1>5
     DEF Next, SetBadConnectionCount, Access, Return, Record, Collect, Ping, Resume,
         Wake, Flip, vars

LEMMA SomeonePingsStep == TypeOK /\ SomeonePings /\ [Next]_vars => SomeonePings'
<1> SUFFICES ASSUME TypeOK, SomeonePings, [Next]_vars, running' PROVE SomeonePings'
  BY DEF SomeonePings
<1> USE DEF SomeonePings
<1>0. /\ pinger \in [Pinger -> PingerState]
      /\ running \in BOOLEAN /\ running' \in BOOLEAN
  BY TypeStep DEF TypeOK
<1>1. CASE UNCHANGED <<running, pinger>>
  BY <1>0, <1>1
<1>2. CASE StartPingCheck
  <2>1. CASE running
    BY <1>0, <1>1, <1>2, <2>1 DEF StartPingCheck
  <2>2. CASE ~running
    <3>1. PICK g \in Pinger : pinger' = [pinger EXCEPT ![g] = [pc |-> "collect"]]
      BY <1>2, <2>2 DEF StartPingCheck
    <3> QED
      BY <1>0, <3>1 DEF Off
  <2> QED
    BY <2>1, <2>2
<1>3. CASE StopPingCheck
  BY <1>0, <1>3 DEF StopPingCheck
\* A step of a goroutine that pings leaves the others as they are, and is itself
\* not its end while pingCheckRunning is set.
<1>4. ASSUME NEW g \in Pinger, running, pinger'[g] # Off,
             \A h \in Pinger \ {g} : pinger'[h] = pinger[h]
      PROVE  SomeonePings'
  BY <1>4
<1>5. ASSUME NEW g \in Pinger, Collect(g) PROVE SomeonePings'
  BY <1>0, <1>4, <1>5 DEF Collect, Off
<1>6. ASSUME NEW g \in Pinger, NEW c \in Conn, Ping(g, c) PROVE SomeonePings'
  BY <1>0, <1>4, <1>6 DEF Ping, Off
<1>7. ASSUME NEW g \in Pinger, Resume(g) PROVE SomeonePings'
  BY <1>0, <1>4, <1>7 DEF Resume, Off
<1>8. ASSUME NEW g \in Pinger, Wake(g) PROVE SomeonePings'
  BY <1>0, <1>4, <1>8 DEF Wake, Off
<1> QED
  BY <1>1, <1>2, <1>3, <1>5, <1>6, <1>7, <1>8
     DEF Next, SetFlag, ResetEntries, SetBadConnectionCount, Access, Return, Record,
         Flip, vars

\* Busy and Reporting are sets of workers, so they can be counted.
LEMMA SubsetsOfWorker ==
  ASSUME NEW S \in SUBSET Worker
  PROVE  IsFiniteSet(S) /\ Cardinality(S) \in Nat /\ Cardinality(S) <= Cardinality(Worker)
  BY WorkerAssumption, FS_Subset, FS_CardinalityType

LEMMA LeavesSubset ==
  ASSUME NEW S \in SUBSET Worker, NEW T \in SUBSET S, NEW w \in S, w \notin T
  PROVE  Cardinality(T) + 1 <= Cardinality(S)
<1>1. IsFiniteSet(S) /\ Cardinality(S \ {w}) = Cardinality(S) - 1
  BY SubsetsOfWorker, FS_RemoveElement
<1>2. Cardinality(T) <= Cardinality(S \ {w})
  BY <1>1, FS_Subset, FS_RemoveElement
<1>3. Cardinality(T) \in Nat /\ Cardinality(S) \in Nat
  BY SubsetsOfWorker
<1> QED
  BY <1>1, <1>2, <1>3

LEMMA StaysSubset ==
  ASSUME NEW S \in SUBSET Worker, NEW T \in SUBSET S
  PROVE  Cardinality(T) <= Cardinality(S)
  BY SubsetsOfWorker, FS_Subset

LEMMA LateReportsStep ==
  TypeOK /\ AdminOK /\ LateReportsBounded /\ [Next]_vars => LateReportsBounded'
<1> SUFFICES ASSUME TypeOK, AdminOK, LateReportsBounded, [Next]_vars,
                    ~enabled', ~running', admin' # "reset",
                    NEW c \in Conn
             PROVE  count'[c] + Cardinality(Reporting(c)') <= late'[c]
  BY DEF LateReportsBounded
<1>0. /\ worker \in [Worker -> WorkerState] /\ worker' \in [Worker -> WorkerState]
      /\ count \in [Conn -> Nat] /\ count' \in [Conn -> Nat]
      /\ running \in BOOLEAN /\ enabled \in BOOLEAN
      /\ running' \in BOOLEAN /\ enabled' \in BOOLEAN
  BY TypeStep DEF TypeOK
<1>a. Reporting(c) \in SUBSET Worker /\ Reporting(c)' \in SUBSET Worker
  BY DEF Reporting
<1>b. /\ Cardinality(Reporting(c)) \in Nat /\ Cardinality(Reporting(c)') \in Nat
      /\ late[c] \in Nat /\ late'[c] \in Nat
  BY <1>a, TypeStep, SubsetsOfWorker DEF TypeOK
\* As long as the map is not emptied, the bound of the state before applies.
<1>c. ~enabled /\ ~running /\ admin # "reset"
        => count[c] + Cardinality(Reporting(c)) <= late[c]
  BY DEF LateReportsBounded
\* No call of the connection starts to be recorded, and its counter does not grow.
<1>d. ASSUME ~enabled, ~running, admin # "reset", late' = late, count'[c] <= count[c],
             Reporting(c)' \subseteq Reporting(c)
      PROVE  count'[c] + Cardinality(Reporting(c)') <= late'[c]
  <2>1. Cardinality(Reporting(c)') <= Cardinality(Reporting(c))
    BY <1>a, <1>d, StaysSubset
  <2> QED
    BY <1>0, <1>b, <1>c, <1>d, <2>1
<1>1. ASSUME NEW enable \in BOOLEAN, SetFlag(enable)
      PROVE  count'[c] + Cardinality(Reporting(c)') <= late'[c]
  <2>1. ~enabled /\ ~running /\ admin # "reset"
    BY <1>0, <1>1 DEF SetFlag, AdminOK
  <2> QED
    BY <1>0, <1>d, <1>1, <2>1 DEF SetFlag, entries, Reporting
<1>2. CASE StartPingCheck
  BY <1>0, <1>2 DEF StartPingCheck, AdminOK
<1>3. CASE StopPingCheck
  <2>1. ~enabled /\ ~running /\ admin # "reset"
    BY <1>0, <1>3 DEF StopPingCheck, AdminOK
  <2> QED
    BY <1>0, <1>d, <1>3, <2>1 DEF StopPingCheck, entries, Reporting
<1>4. CASE ResetEntries
  <2>1. count'[c] = 0 /\ worker' = worker /\ late'[c] = Cardinality(Reporting(c))
    BY <1>4 DEF ResetEntries, Drop
  <2>2. Reporting(c)' = Reporting(c)
    BY <2>1 DEF Reporting
  <2> QED
    BY <1>b, <2>1, <2>2
\* Every other step leaves the switches alone.
<1>5. ASSUME UNCHANGED <<enabled, running, admin>>
      PROVE  ~enabled /\ ~running /\ admin # "reset"
  BY <1>5
<1>6. ASSUME NEW n \in BadCount, SetBadConnectionCount(n)
      PROVE  count'[c] + Cardinality(Reporting(c)') <= late'[c]
  BY <1>0, <1>d, <1>5, <1>6 DEF SetBadConnectionCount, entries, Reporting
<1>7. ASSUME NEW w \in Worker, NEW d \in Conn, Access(w, d)
      PROVE  count'[c] + Cardinality(Reporting(c)') <= late'[c]
  <2>1. Reporting(c)' \subseteq Reporting(c)
    BY <1>0, <1>7 DEF Access, Reporting
  <2> QED
    BY <1>0, <1>d, <1>5, <1>7, <2>1 DEF Access, entries
<1>8. ASSUME NEW w \in Worker, Return(w)
      PROVE  count'[c] + Cardinality(Reporting(c)') <= late'[c]
  <2>1. ~enabled
    BY <1>5, <1>8 DEF Return
  <2>2. worker' = [worker EXCEPT ![w] = Idle]
    BY <1>8, <2>1 DEF Return
  <2>3. Reporting(c)' \subseteq Reporting(c)
    BY <1>0, <2>2 DEF Reporting, Idle
  <2> QED
    BY <1>0, <1>d, <1>5, <1>8, <2>3 DEF Return, entries
<1>9. ASSUME NEW w \in Worker, Record(w)
      PROVE  count'[c] + Cardinality(Reporting(c)') <= late'[c]
  <2>1. Reporting(c)' \subseteq Reporting(c) /\ w \notin Reporting(c)'
    BY <1>0, <1>9 DEF Record, Reporting, Idle
  <2>2. CASE worker[w].conn = c
    <3>1. w \in Reporting(c)
      BY <1>9, <2>2 DEF Record, Reporting
    <3>2. Cardinality(Reporting(c)') + 1 <= Cardinality(Reporting(c))
      BY <1>a, <2>1, <3>1, LeavesSubset
    <3>3. count'[c] = count[c] + 1
      BY <1>0, <1>9, <2>2 DEF Record
    <3> QED
      BY <1>0, <1>b, <1>c, <1>5, <1>9, <3>2, <3>3 DEF Record
  <2>3. CASE worker[w].conn # c
    <3>1. count'[c] = count[c]
      BY <1>0, <1>9, <2>3 DEF Record
    <3> QED
      BY <1>0, <1>d, <1>5, <1>9, <2>1, <3>1 DEF Record
  <2> QED
    BY <2>2, <2>3
<1>10. ASSUME NEW g \in Pinger, Collect(g)
       PROVE  count'[c] + Cardinality(Reporting(c)') <= late'[c]
  BY <1>0, <1>d, <1>5, <1>10 DEF Collect, Reporting
<1>11. ASSUME NEW g \in Pinger, NEW d \in Conn, Ping(g, d)
       PROVE  count'[c] + Cardinality(Reporting(c)') <= late'[c]
  BY <1>0, <1>d, <1>5, <1>11 DEF Ping, entries, Reporting
<1>12. ASSUME NEW g \in Pinger, Resume(g)
       PROVE  count'[c] + Cardinality(Reporting(c)') <= late'[c]
  BY <1>0, <1>d, <1>5, <1>12 DEF Resume, Drop, Reporting
<1>13. ASSUME NEW g \in Pinger, Wake(g)
       PROVE  count'[c] + Cardinality(Reporting(c)') <= late'[c]
  BY <1>0, <1>d, <1>5, <1>13 DEF Wake, Reporting
<1>14. ASSUME NEW d \in Conn, Flip(d)
       PROVE  count'[c] + Cardinality(Reporting(c)') <= late'[c]
  BY <1>0, <1>d, <1>5, <1>14 DEF Flip, entries, Reporting
<1>15. CASE UNCHANGED vars
  BY <1>0, <1>d, <1>5, <1>15 DEF vars, Reporting
<1> QED
  BY <1>1, <1>2, <1>3, <1>4, <1>6, <1>7, <1>8, <1>9, <1>10, <1>11, <1>12, <1>13,
     <1>14, <1>15 DEF Next

LEMMA CountStep == TypeOK /\ CountBounded /\ [Next]_vars => CountBounded'
<1> SUFFICES ASSUME TypeOK, CountBounded, [Next]_vars,
                    NEW n \in BadCount, Bar(n), NEW c \in Conn
             PROVE  /\ c \notin blocked' => count'[c] < n
                    /\ c \in blocked' =>
                         count'[c] + Cardinality(Busy(c)') < n + Cardinality(Worker)
  BY DEF CountBounded, Bar
<1> DEFINE Bounded == /\ c \notin blocked' => count'[c] < n
                      /\ c \in blocked' =>
                           count'[c] + Cardinality(Busy(c)') < n + Cardinality(Worker)
<1>0. /\ worker \in [Worker -> WorkerState] /\ worker' \in [Worker -> WorkerState]
      /\ count \in [Conn -> Nat] /\ count' \in [Conn -> Nat]
      /\ n \in Nat /\ n >= MinBadCount /\ threshold \in Nat /\ threshold <= n
  BY TypeStep, BadCountAssumption DEF TypeOK, Bar, MinBadCount
<1>a. Busy(c) \in SUBSET Worker /\ Busy(c)' \in SUBSET Worker
  BY DEF Busy
<1>b. /\ Cardinality(Busy(c)) \in Nat /\ Cardinality(Busy(c)') \in Nat
      /\ Cardinality(Worker) \in Nat
  BY <1>a, SubsetsOfWorker, WorkerAssumption, FS_CardinalityType
<1>c. /\ c \notin blocked => count[c] < n
      /\ c \in blocked => count[c] + Cardinality(Busy(c)) < n + Cardinality(Worker)
  BY DEF CountBounded
\* The counter of the connection stays, and a blocked one sees no new call.
<1>d. ASSUME count'[c] = count[c], c \in blocked' <=> c \in blocked,
             c \in blocked => Busy(c)' \subseteq Busy(c)
      PROVE  Bounded
  <2>1. CASE c \in blocked
    <3>1. Cardinality(Busy(c)') <= Cardinality(Busy(c))
      BY <1>a, <1>d, <2>1, StaysSubset
    <3> QED
      BY <1>0, <1>b, <1>c, <1>d, <2>1, <3>1
  <2> QED
    BY <1>c, <1>d, <2>1
\* The entry of the connection is dropped.
<1>e. ASSUME count'[c] = 0, c \notin blocked' PROVE Bounded
  BY <1>0, <1>e DEF MinBadCount
<1>1. ASSUME NEW enable \in BOOLEAN, SetFlag(enable) PROVE Bounded
  BY <1>d, <1>1 DEF SetFlag, entries, Busy
<1>2. CASE StartPingCheck
  BY <1>d, <1>2 DEF StartPingCheck, entries, Busy
<1>3. CASE StopPingCheck
  BY <1>d, <1>3 DEF StopPingCheck, entries, Busy
<1>4. CASE ResetEntries
  BY <1>e, <1>4 DEF ResetEntries, Drop
<1>5. ASSUME NEW m \in BadCount, SetBadConnectionCount(m) PROVE Bounded
  BY <1>d, <1>5 DEF SetBadConnectionCount, entries, Busy
<1>6. ASSUME NEW w \in Worker, NEW d \in Conn, Access(w, d) PROVE Bounded
  <2>1. c \in blocked => Busy(c)' \subseteq Busy(c)
    BY <1>0, <1>6 DEF Access, Busy
  <2> QED
    BY <1>d, <1>6, <2>1 DEF Access, entries
<1>7. ASSUME NEW w \in Worker, Return(w) PROVE Bounded
  <2>1. Busy(c)' \subseteq Busy(c)
    BY <1>0, <1>7 DEF Return, Busy, Idle
  <2> QED
    BY <1>d, <1>7, <2>1 DEF Return, entries
<1>8. ASSUME NEW w \in Worker, Record(w) PROVE Bounded
  <2>1. Busy(c)' \subseteq Busy(c) /\ w \notin Busy(c)'
    BY <1>0, <1>8 DEF Record, Busy, Idle
  <2>2. CASE worker[w].conn # c
    <3>1. count'[c] = count[c] /\ (c \in blocked' <=> c \in blocked)
      BY <1>0, <1>8, <2>2 DEF Record
    <3> QED
      BY <1>d, <2>1, <3>1
  <2>3. CASE worker[w].conn = c
    <3>1. count'[c] = count[c] + 1
      BY <1>0, <1>8, <2>3 DEF Record
    <3>2. w \in Busy(c)
      BY <1>8, <2>3 DEF Record, Busy, Idle
    <3>3. Cardinality(Busy(c)') + 1 <= Cardinality(Busy(c))
      BY <1>a, <2>1, <3>2, LeavesSubset
    <3>4. CASE c \in blocked
      BY <1>0, <1>b, <1>c, <1>8, <3>1, <3>3, <3>4 DEF Record
    <3>5. CASE c \notin blocked
      \* The call that blocks the connection is not busy with it any more.
      <4>1. c \notin blocked' => count'[c] < n
        BY <1>0, <1>8, <2>3, <3>1 DEF Record, MinBadCount
      <4>2. Cardinality(Busy(c)) <= Cardinality(Worker)
        BY <1>a, SubsetsOfWorker
      <4> QED
        BY <1>0, <1>b, <1>c, <3>1, <3>3, <3>5, <4>1, <4>2
    <3> QED
      BY <3>4, <3>5
  <2> QED
    BY <2>2, <2>3
<1>9. ASSUME NEW g \in Pinger, Collect(g) PROVE Bounded
  BY <1>d, <1>9 DEF Collect, Busy
<1>10. ASSUME NEW g \in Pinger, NEW d \in Conn, Ping(g, d) PROVE Bounded
  BY <1>d, <1>10 DEF Ping, entries, Busy
<1>11. ASSUME NEW g \in Pinger, Resume(g) PROVE Bounded
  <2>1. CASE c \in pinger[g].ok
    BY <1>e, <1>11, <2>1 DEF Resume, Drop
  <2>2. CASE c \notin pinger[g].ok
    BY <1>d, <1>11, <2>2 DEF Resume, Drop, Busy
  <2> QED
    BY <2>1, <2>2
<1>12. ASSUME NEW g \in Pinger, Wake(g) PROVE Bounded
  BY <1>d, <1>12 DEF Wake, Busy
<1>13. ASSUME NEW d \in Conn, Flip(d) PROVE Bounded
  BY <1>d, <1>13 DEF Flip, entries, Busy
<1>14. CASE UNCHANGED vars
  BY <1>d, <1>14 DEF vars, Busy
<1> QED
  BY <1>1, <1>2, <1>3, <1>4, <1>5, <1>6, <1>7, <1>8, <1>9, <1>10, <1>11, <1>12,
     <1>13, <1>14 DEF Next

-----------------------------------------------------------------------------
(* The theorems.                                                           *)

LEMMA InitInvariant == Init => IInv
<1> SUFFICES ASSUME Init PROVE IInv
  OBVIOUS
<1>1. TypeOK
  BY TypeInit
<1>2. AdminOK /\ SomeonePings
  BY DEF Init, AdminOK, SomeonePings
<1>3. ASSUME NEW c \in Conn
      PROVE  Reporting(c) = {} /\ Cardinality(Reporting(c)) = 0
  BY FS_EmptySet DEF Init, Reporting, Idle
<1>4. LateReportsBounded
  BY <1>3 DEF Init, LateReportsBounded
<1>5. CountBounded
  <2> SUFFICES ASSUME NEW n \in BadCount, Bar(n), NEW c \in Conn
               PROVE  c \notin blocked /\ count[c] < n
    BY DEF CountBounded
  <2>1. n \in Nat /\ n >= MinBadCount
    BY BadCountAssumption DEF Bar, MinBadCount
  <2> QED
    BY <2>1 DEF Init, MinBadCount
<1> QED
  BY <1>1, <1>2, <1>4, <1>5 DEF IInv

LEMMA Invariant == Spec => []IInv
<1>1. IInv /\ [Next]_vars => IInv'
  BY TypeStep, AdminStep, LateReportsStep, CountStep, SomeonePingsStep DEF IInv
<1> QED
  BY InitInvariant, <1>1, PTL DEF Spec

\* The breaker's state is well typed: its threshold never goes below the minimum of
\* SetBadConnectionCount, and no connection is blocked on fewer errors than that.
THEOREM TypeCorrect == Spec => []TypeOK
<1>1. IInv => TypeOK
  BY DEF IInv
<1> QED
  BY Invariant, <1>1, PTL

\* SetEnableOptimizeConnection(false), for any number of calls at once: a breaker that
\* is switched off blocks a connection only if at least MinBadCount of its calls had
\* looked at the flag when the map was emptied and reported their error after that.
THEOREM DisabledBlocksNobodyHolds == Spec => []DisabledBlocksNobody
<1>1. IInv => DisabledBlocksNobody
  <2> SUFFICES ASSUME IInv, admin = "idle", ~enabled, NEW c \in blocked
               PROVE  late[c] >= MinBadCount
    BY DEF DisabledBlocksNobody
  <2>1. c \in Conn /\ count[c] \in Nat /\ count[c] >= MinBadCount /\ late[c] \in Nat
    BY DEF IInv, TypeOK
  <2>2. ~running
    BY DEF IInv, AdminOK
  <2>3. count[c] + Cardinality(Reporting(c)) <= late[c]
    BY <2>1, <2>2 DEF IInv, LateReportsBounded
  <2>4. Reporting(c) \in SUBSET Worker
    BY DEF Reporting
  <2>5. Cardinality(Reporting(c)) \in Nat
    BY <2>4, SubsetsOfWorker
  <2> QED
    BY <2>1, <2>3, <2>5 DEF MinBadCount
<1> QED
  BY Invariant, <1>1, PTL

\* A blocked connection is left alone by new calls: its counter passes the largest
\* threshold by less than the number of calls that can be under way.
THEOREM BlockedIsLeftAloneHolds == Spec => []BlockedIsLeftAlone
<1>1. IInv => BlockedIsLeftAlone
  BY DEF IInv, TypeOK, CountBounded, Bar, BlockedIsLeftAlone
<1> QED
  BY Invariant, <1>1, PTL

\* While pingCheckRunning is set, some dbPingCheck goroutine is alive.
THEOREM SomeonePingsHolds == Spec => []SomeonePings
<1>1. IInv => SomeonePings
  BY DEF IInv
<1> QED
  BY Invariant, <1>1, PTL

-----------------------------------------------------------------------------
(* Transactions.                                                           *)

\* The verdict and the result of a call go with its phase.
PhaseTells ==
  \A c \in Call :
    /\ phase[c] \in {"idle", "begin", "body", "outside", "after"} => verdict[c] = "none"
    /\ phase[c] = "commit" => verdict[c] = "nil"
    /\ phase[c] = "rollback" => verdict[c] \in {"biz", "panic"}
    /\ phase[c] # "done" => result[c] = "none"

TxInv == TxTypeOK /\ PhaseTells

LEMMA InitTx == TxInit => TxInv
<1> SUFFICES ASSUME TxInit PROVE TxInv
  OBVIOUS
<1>1. \A c \in Call : MaxStatements[c] \in Nat
  BY MaxStatementsAssumption
<1>2. TxTypeOK
  BY <1>1 DEF TxInit, TxTypeOK, StatementsOf
<1>3. PhaseTells
  BY DEF TxInit, PhaseTells
<1> QED
  BY <1>2, <1>3 DEF TxInv

LEMMA StepTx == TxInv /\ [TxNext]_txVars => TxInv'
<1> SUFFICES ASSUME TxInv, [TxNext]_txVars PROVE TxInv'
  OBVIOUS
<1>0. TxTypeOK /\ PhaseTells /\ \A c \in Call : MaxStatements[c] \in Nat
  BY MaxStatementsAssumption DEF TxInv
<1>1. CASE UNCHANGED txVars
  BY <1>0, <1>1 DEF txVars, TxInv, TxTypeOK, PhaseTells
<1>2. ASSUME NEW c \in Call, Refuse(c) \/ ExecTx(c) \/ BeginTx(c) \/ BeginFails(c) PROVE TxInv'
  BY <1>0, <1>2 DEF Refuse, ExecTx, BeginTx, BeginFails, Finish, TxInv, TxTypeOK, PhaseTells
<1>3. ASSUME NEW c \in Call, Exec(c) PROVE TxInv'
  <2>1. /\ sequence' = [sequence EXCEPT ![c] = @ + 1] /\ sequence[c] \in 1 .. MaxStatements[c]
        /\ \/ written' = [written EXCEPT ![c] = @ \union {sequence[c]}]
           \/ written' = written
        /\ UNCHANGED <<phase, verdict, pinned, open, durable, result>>
    BY <1>3 DEF Exec, StatementsOf
  <2>2. \A d \in Call : /\ sequence'[d] \in 1 .. MaxStatements[d] + 1
                        /\ written'[d] \subseteq StatementsOf(d)
    BY <1>0, <2>1 DEF TxTypeOK, StatementsOf
  <2> QED
    BY <1>0, <2>1, <2>2 DEF TxInv, TxTypeOK, PhaseTells
<1>4. ASSUME NEW c \in Call, CallOutside(c) \/ OutsideServed(c) \/ Lose(c) PROVE TxInv'
  BY <1>0, <1>4 DEF CallOutside, OutsideServed, Lose, TxInv, TxTypeOK, PhaseTells
<1>5. ASSUME NEW c \in Call, CallbackEnds(c) PROVE TxInv'
  <2>1. PICK v \in {"nil", "biz", "panic"} :
          /\ verdict' = [verdict EXCEPT ![c] = v]
          /\ phase' = [phase EXCEPT ![c] = IF v = "nil" THEN "commit" ELSE "rollback"]
    BY <1>5 DEF CallbackEnds
  <2>2. phase[c] \in InBody /\ UNCHANGED <<pinned, open, sequence, written, durable, result>>
    BY <1>5 DEF CallbackEnds
  <2> QED
    BY <1>0, <2>1, <2>2 DEF InBody, TxInv, TxTypeOK, PhaseTells
<1>6. ASSUME NEW c \in Call, CallbackVanishes(c) PROVE TxInv'
  BY <1>0, <1>6 DEF CallbackVanishes, InBody, Finish, TxInv, TxTypeOK, PhaseTells
<1>7. ASSUME NEW c \in Call, Commit(c) PROVE TxInv'
  <2>1. /\ \E r \in {"nil", "db"} : Finish(c, r)
        /\ pinned' = pinned \ {c} /\ open' = open \ {c}
        /\ durable' = [durable EXCEPT ![c] = written[c]] \/ durable' = durable
        /\ UNCHANGED <<verdict, sequence, written>>
    BY <1>7 DEF Commit, Release
  <2>2. \A d \in Call : durable'[d] \subseteq StatementsOf(d)
    BY <1>0, <2>1 DEF TxTypeOK
  <2>3. TxTypeOK'
    BY <1>0, <2>1, <2>2 DEF Finish, TxTypeOK
  <2>4. PhaseTells'
    BY <1>0, <2>1 DEF Finish, PhaseTells, TxTypeOK
  <2> QED
    BY <2>3, <2>4 DEF TxInv
<1>8. ASSUME NEW c \in Call, Rollback(c) PROVE TxInv'
  BY <1>0, <1>8 DEF Rollback, Release, Finish, TxInv, TxTypeOK, PhaseTells
<1> QED
  BY <1>1, <1>2, <1>3, <1>4, <1>5, <1>6, <1>7, <1>8 DEF TxNext

LEMMA TxInvHolds == TxSpec => []TxInv
BY InitTx, StepTx, PTL DEF TxSpec

\* Connections, statements and results stay of their types: a transaction is open at the
\* server only on a connection that it has.
THEOREM TxTypeCorrect == TxSpec => []TxTypeOK
BY TxInvHolds, PTL DEF TxInv

LEMMA PromiseInits == TxInit => Promise!Init
BY DEF TxInit, Promise!Init

LEMMA PromiseSteps ==
  ASSUME TxInv, NEW c \in Call,
         \/ Refuse(c) \/ ExecTx(c) \/ BeginTx(c) \/ BeginFails(c)
         \/ Exec(c) \/ CallOutside(c) \/ OutsideServed(c)
         \/ CallbackEnds(c) \/ CallbackVanishes(c)
         \/ Commit(c) \/ Rollback(c) \/ Lose(c)
  PROVE  Promise!Next \/ UNCHANGED Promise!promise
<1>0. TxTypeOK /\ PhaseTells
  BY DEF TxInv
<1>1. CASE ExecTx(c) \/ BeginTx(c) \/ CallOutside(c) \/ OutsideServed(c) \/ Lose(c)
  BY <1>1 DEF ExecTx, BeginTx, CallOutside, OutsideServed, Lose, Promise!promise
<1>2. CASE Refuse(c) \/ BeginFails(c) \/ Rollback(c)
  <2>1. Promise!Drop(c)
    BY <1>0, <1>2 DEF Refuse, BeginFails, Rollback, Finish, PhaseTells, TxTypeOK, Promise!Drop
  <2> QED
    BY <2>1 DEF Promise!Next
<1>3. CASE Exec(c)
  <2>1. /\ verdict[c] = "none" /\ result[c] = "none"
        /\ sequence[c] \in UNION {StatementsOf(d) : d \in Call}
        /\ \/ written' = [written EXCEPT ![c] = @ \union {sequence[c]}]
           \/ written' = written
        /\ UNCHANGED <<verdict, durable, result>>
    BY <1>0, <1>3 DEF Exec, InBody, PhaseTells
  <2>2. Promise!Execute(c) \/ UNCHANGED Promise!promise
    BY <2>1 DEF Promise!Execute, Promise!promise
  <2> QED
    BY <2>2 DEF Promise!Next
<1>4. CASE CallbackEnds(c)
  <2>1. Promise!Decide(c)
    BY <1>0, <1>4 DEF CallbackEnds, InBody, PhaseTells, Promise!Decide
  <2> QED
    BY <2>1 DEF Promise!Next
<1>5. CASE CallbackVanishes(c)
  <2>1. Promise!Abandon(c)
    BY <1>0, <1>5 DEF CallbackVanishes, InBody, Finish, PhaseTells, Promise!Abandon
  <2> QED
    BY <2>1 DEF Promise!Next
<1>6. CASE Commit(c)
  <2>1. verdict[c] = "nil" /\ result[c] = "none" /\ UNCHANGED <<written, verdict>>
    BY <1>0, <1>6 DEF Commit, PhaseTells
  <2>2. CASE \E r \in {"nil", "db"} : durable' = [durable EXCEPT ![c] = written[c]] /\ Finish(c, r)
    <3>1. Promise!Keep(c)
      BY <2>1, <2>2 DEF Finish, Promise!Keep
    <3> QED
      BY <3>1 DEF Promise!Next
  <2>3. CASE Finish(c, "db") /\ UNCHANGED durable
    <3>1. Promise!Drop(c)
      BY <2>1, <2>3 DEF Finish, Promise!Drop
    <3> QED
      BY <3>1 DEF Promise!Next
  <2> QED
    BY <1>6, <2>2, <2>3 DEF Commit
<1> QED
  BY <1>1, <1>2, <1>3, <1>4, <1>5, <1>6

\* ExecTx keeps its promise for any number of calls and connections: nil means that every
\* statement the callback saw succeed is committed, an error of the callback or a
\* panic that none is.
THEOREM KeepsPromiseHolds == TxSpec => KeepsPromise
<1>1. TxInv /\ [TxNext]_txVars => [Promise!Next]_(Promise!promise)
  <2> SUFFICES ASSUME TxInv, [TxNext]_txVars PROVE [Promise!Next]_(Promise!promise)
    OBVIOUS
  <2>1. CASE UNCHANGED txVars
    BY <2>1 DEF txVars, Promise!promise
  <2>2. CASE TxNext
    BY <2>2, PromiseSteps DEF TxNext
  <2> QED
    BY <2>1, <2>2
<1> QED
  BY PromiseInits, TxInvHolds, <1>1, PTL DEF TxSpec, KeepsPromise, Promise!Spec

-----------------------------------------------------------------------------
(* The pools.                                                              *)

\* Who has opened a pool or uses one has it; who has not yet begun has none.
GetterSane ==
  \A g \in Getter :
    /\ getter[g].pc \in {"compare", "limit", "set", "remember", "store"} => getter[g].pool \in Pool
    /\ getter[g].pc \in {"idle", "compare", "open"} => ~getter[g].fresh
    /\ getter[g].pc \in {"idle", "open"} => getter[g].pool = NoPool
    /\ getter[g].pc = "store" => getter[g].fresh

\* Before a pool is stored each opened one is in the hands of its own caller; after that
\* only those who had missed it already may open another.
Fresh == {g \in Getter : getter[g].fresh}
Openers == {g \in Getter : getter[g].pc = "open"}
OpenedCounted ==
  /\ IsFiniteSet(opened)
  /\ stored = NoPool => Cardinality(opened) <= Cardinality(Fresh)
  /\ stored # NoPool => Cardinality(opened) + Cardinality(Openers) <= Cardinality(Getter)

\* Unless a call has been overtaken: all who work on a limit know the present setting,
\* and the limit in use is the one remembered, or about to be.
LimitsCurrent ==
  ~overtaken =>
    /\ \A g \in Getter :
         /\ getter[g].pc = "set" => getter[g].limit = LimitFor(keepAll)
         /\ getter[g].pc \in {"remember", "store"} => idleLimit[getter[g].pool] = LimitFor(keepAll)
         /\ getter[g].pc = "store" => lastKept = keepAll
    /\ stored # NoPool =>
         /\ \/ idleLimit[stored] = LimitFor(lastKept)
            \/ /\ idleLimit[stored] = LimitFor(keepAll)
               /\ \E g \in Getter : getter[g].pc = "remember"
         /\ \A g \in Getter :
              \/ getter[g].pc = "open" \/ getter[g].fresh
              \/ getter[g].pool \notin {NoPool, stored}
              => idleLimit[stored] = LimitFor(keepAll)

PoolInv == PoolTypeOK /\ GetterSane /\ OpenedCounted /\ LimitsCurrent

GetterStates ==
  [pc : {"idle", "compare", "open", "limit", "set", "remember", "store"},
   pool : Pool \union {NoPool}, fresh : BOOLEAN, limit : {"max", "all"}]

LEMMA AtRestType == AtRest \in GetterStates
BY DEF AtRest, GetterStates

\* The step of g makes this of its record, and leaves the others alone.
Moved(g, pc, pool, fresh, limit) ==
  /\ getter' \in [Getter -> GetterStates]
  /\ \A h \in Getter \ {g} : getter'[h] = getter[h]
  /\ getter'[g].pc = pc /\ getter'[g].pool = pool /\ getter'[g].fresh = fresh /\ getter'[g].limit = limit

LEMMA Moves ==
  ASSUME getter \in [Getter -> GetterStates], NEW g \in Getter,
         NEW r \in GetterStates, getter' = [getter EXCEPT ![g] = r]
  PROVE  Moved(g, r.pc, r.pool, r.fresh, r.limit)
BY DEF Moved

Rests(g) == Moved(g, "idle", NoPool, FALSE, "max")

LEMMA RestMoves ==
  ASSUME getter \in [Getter -> GetterStates], NEW g \in Getter, getter' = [getter EXCEPT ![g] = AtRest]
  PROVE  Rests(g)
BY Moves, AtRestType DEF AtRest, Rests

LEMMA GotoMoves ==
  ASSUME getter \in [Getter -> GetterStates], NEW g \in Getter,
         NEW pc \in {"open", "limit", "remember", "store"}, Goto(g, pc)
  PROVE  Moved(g, pc, getter[g].pool, getter[g].fresh, getter[g].limit)
<1> DEFINE r == [getter[g] EXCEPT !.pc = pc]
<1>1. getter[g] \in GetterStates
  OBVIOUS
<1>2. /\ r \in GetterStates
      /\ r.pc = pc /\ r.pool = getter[g].pool /\ r.fresh = getter[g].fresh /\ r.limit = getter[g].limit
  BY <1>1 DEF GetterStates
<1>3. getter' = [getter EXCEPT ![g] = r]
  BY DEF Goto
<1> HIDE DEF r
<1> QED
  BY <1>2, <1>3, Moves

\* How each step of GetDB moves its caller on.
LEMMA GetterMoves ==
  ASSUME PoolTypeOK, NEW g \in Getter, GetterStep(g)
  PROVE  \/ Load(g) /\ stored # NoPool /\ Moved(g, "compare", stored, getter[g].fresh, getter[g].limit)
         \/ Load(g) /\ stored = NoPool /\ Moved(g, "open", getter[g].pool, getter[g].fresh, getter[g].limit)
         \/ Compare(g) /\ Rests(g)
         \/ Compare(g) /\ Moved(g, "limit", getter[g].pool, getter[g].fresh, getter[g].limit)
         \/ Open(g) /\ \E p \in Pool \ opened : /\ opened' = opened \union {p}
                                              /\ Moved(g, "limit", p, TRUE, getter[g].limit)
         \/ Open(g) /\ Rests(g) /\ opened' = opened
         \/ ComputeLimit(g) /\ Moved(g, "set", getter[g].pool, getter[g].fresh, LimitFor(keepAll))
         \/ SetMaxIdleConns(g) /\ Moved(g, "remember", getter[g].pool, getter[g].fresh, getter[g].limit)
         \/ Remember(g) /\ getter[g].fresh /\ Moved(g, "store", getter[g].pool, getter[g].fresh, getter[g].limit)
         \/ Remember(g) /\ ~getter[g].fresh /\ Rests(g)
         \/ Store(g) /\ Rests(g)
<1>0. getter \in [Getter -> GetterStates] /\ getter[g] \in GetterStates /\ stored \in Pool \union {NoPool}
  BY DEF PoolTypeOK, GetterStates
<1>1. CASE Load(g)
  <2>1. CASE stored # NoPool
    <3> DEFINE r == [getter[g] EXCEPT !.pc = "compare", !.pool = stored]
    <3>1. /\ r \in GetterStates
          /\ r.pc = "compare" /\ r.pool = stored /\ r.fresh = getter[g].fresh /\ r.limit = getter[g].limit
      BY <1>0 DEF GetterStates
    <3>2. getter' = [getter EXCEPT ![g] = r]
      BY <1>1, <2>1 DEF Load
    <3> HIDE DEF r
    <3> QED
      BY <1>0, <1>1, <2>1, <3>1, <3>2, Moves
  <2>2. CASE stored = NoPool
    BY <1>0, <1>1, <2>2, GotoMoves DEF Load
  <2> QED
    BY <2>1, <2>2
<1>2. CASE Compare(g)
  BY <1>0, <1>2, GotoMoves, RestMoves DEF Compare
<1>3. CASE Open(g)
  <2>1. ASSUME NEW p \in Pool \ opened, opened' = opened \union {p},
               getter' = [getter EXCEPT ![g] = [@ EXCEPT !.pc = "limit", !.pool = p, !.fresh = TRUE]]
        PROVE  Moved(g, "limit", p, TRUE, getter[g].limit)
    <3> DEFINE r == [getter[g] EXCEPT !.pc = "limit", !.pool = p, !.fresh = TRUE]
    <3>1. /\ r \in GetterStates
          /\ r.pc = "limit" /\ r.pool = p /\ r.fresh = TRUE /\ r.limit = getter[g].limit
      BY <1>0 DEF GetterStates
    <3>2. getter' = [getter EXCEPT ![g] = r]
      BY <2>1
    <3> HIDE DEF r
    <3> QED
      BY <1>0, <3>1, <3>2, Moves
  <2> QED
    BY <1>0, <1>3, <2>1, RestMoves DEF Open
<1>4. CASE ComputeLimit(g)
  <2> DEFINE r == [getter[g] EXCEPT !.pc = "set", !.limit = LimitFor(keepAll)]
  <2>1. LimitFor(keepAll) \in {"max", "all"}
    BY DEF LimitFor
  <2>2. /\ r \in GetterStates
        /\ r.pc = "set" /\ r.pool = getter[g].pool /\ r.fresh = getter[g].fresh /\ r.limit = LimitFor(keepAll)
    BY <1>0, <2>1 DEF GetterStates
  <2>3. getter' = [getter EXCEPT ![g] = r]
    BY <1>4 DEF ComputeLimit
  <2> HIDE DEF r
  <2> QED
    BY <1>0, <1>4, <2>2, <2>3, Moves
<1>5. CASE SetMaxIdleConns(g)
  BY <1>0, <1>5, GotoMoves DEF SetMaxIdleConns
<1>6. CASE Remember(g)
  BY <1>0, <1>6, GotoMoves, RestMoves DEF Remember
<1>7. CASE Store(g)
  BY <1>0, <1>7, RestMoves DEF Store
<1> QED
  BY <1>1, <1>2, <1>3, <1>4, <1>5, <1>6, <1>7 DEF GetterStep

LEMMA PoolStepType ==
  ASSUME PoolTypeOK, GetterSane, NEW g \in Getter, GetterStep(g)
  PROVE  PoolTypeOK'
<1>0. getter \in [Getter -> GetterStates]
  BY DEF PoolTypeOK, GetterStates
<1>2. getter' \in [Getter -> GetterStates]
  BY GetterMoves DEF Moved, Rests
<1>3. idleLimit' \in [Pool -> {"max", "all"}]
  BY <1>0 DEF GetterStep, Load, Compare, Open, ComputeLimit, SetMaxIdleConns, Remember, Store,
              PoolTypeOK, GetterStates
<1>4. stored' \in Pool \union {NoPool} /\ opened' \subseteq Pool
  BY <1>0 DEF GetterStep, Load, Compare, Open, ComputeLimit, SetMaxIdleConns, Remember, Store,
              PoolTypeOK, GetterStates
<1>5. overtaken' \in BOOLEAN
  BY DEF GetterStep, Load, Compare, Open, ComputeLimit, SetMaxIdleConns, Remember, Store, PoolTypeOK
<1>6. keepAll' \in BOOLEAN /\ lastKept' \in BOOLEAN
  BY DEF GetterStep, Load, Compare, Open, ComputeLimit, SetMaxIdleConns, Remember, Store, PoolTypeOK
<1> QED
  BY <1>2, <1>3, <1>4, <1>5, <1>6 DEF PoolTypeOK, GetterStates

LEMMA SaneStep ==
  ASSUME PoolTypeOK, GetterSane, NEW g \in Getter, GetterStep(g)
  PROVE  GetterSane'
<1>1. \A h \in Getter \ {g} : getter'[h] = getter[h]
  BY GetterMoves DEF Moved, Rests
<1>2. SUFFICES /\ getter'[g].pc \in {"compare", "limit", "set", "remember", "store"} => getter'[g].pool \in Pool
               /\ getter'[g].pc \in {"idle", "compare", "open"} => ~getter'[g].fresh
               /\ getter'[g].pc \in {"idle", "open"} => getter'[g].pool = NoPool
               /\ getter'[g].pc = "store" => getter'[g].fresh
  BY <1>1 DEF GetterSane
<1>3. stored \in Pool \union {NoPool}
  BY DEF PoolTypeOK
<1> QED
  BY <1>3, GetterMoves DEF Moved, Rests, GetterSane, Load, Compare, Open, ComputeLimit,
                           SetMaxIdleConns, Remember, Store

LEMMA CountedStep ==
  ASSUME PoolTypeOK, GetterSane, OpenedCounted, NEW g \in Getter, GetterStep(g)
  PROVE  OpenedCounted'
<1>0. \A S \in SUBSET Getter : IsFiniteSet(S) /\ Cardinality(S) \in Nat
  BY GetterAssumption, FS_Subset, FS_CardinalityType
<1>1. /\ Fresh \in SUBSET Getter /\ Fresh' \in SUBSET Getter
      /\ Openers \in SUBSET Getter /\ Openers' \in SUBSET Getter
  BY DEF Fresh, Openers
<1>2. /\ IsFiniteSet(opened) /\ Cardinality(opened) \in Nat /\ Cardinality(Getter) \in Nat
      /\ Cardinality(Fresh) \in Nat /\ Cardinality(Openers) \in Nat
      /\ Cardinality(Fresh') \in Nat /\ Cardinality(Openers') \in Nat
  BY <1>0, <1>1, FS_CardinalityType DEF OpenedCounted
<1>3. \A h \in Getter \ {g} : getter'[h] = getter[h]
  BY GetterMoves DEF Moved, Rests
<1>4. CASE Open(g) /\ opened' # opened
  <2>1. PICK p \in Pool \ opened : opened' = opened \union {p} /\ Moved(g, "limit", p, TRUE, getter[g].limit)
    BY <1>4, GetterMoves DEF Open, Load, Compare, ComputeLimit, SetMaxIdleConns, Remember, Store
  <2>2. IsFiniteSet(opened') /\ Cardinality(opened') = Cardinality(opened) + 1
    BY <1>2, <2>1, FS_AddElement
  <2>3. stored' = stored /\ g \in Openers /\ g \notin Fresh
    BY <1>4 DEF Open, Openers, Fresh, GetterSane
  <2>4. Fresh' = Fresh \union {g} /\ Openers' = Openers \ {g}
    BY <1>3, <2>1 DEF Moved, Fresh, Openers
  <2>5. Cardinality(Fresh') = Cardinality(Fresh) + 1
    BY <1>0, <1>1, <2>3, <2>4, FS_AddElement
  <2>6. Cardinality(Openers') = Cardinality(Openers) - 1
    BY <1>0, <1>1, <2>3, <2>4, FS_RemoveElement
  <2> QED
    BY <1>2, <2>2, <2>3, <2>5, <2>6 DEF OpenedCounted
<1>5. CASE Store(g)
  <2>1. opened' = opened /\ stored' \in Pool /\ stored' # NoPool /\ Rests(g)
    BY <1>5, GetterMoves, PoolAssumption
       DEF Store, Open, Load, Compare, ComputeLimit, SetMaxIdleConns, Remember, GetterSane
  <2>2. Openers' = Openers
    BY <1>3, <1>5, <2>1 DEF Store, Openers, Rests, Moved
  <2>3. CASE stored = NoPool
    <3>1. Fresh \cap Openers = {}
      BY DEF GetterSane, Fresh, Openers
    <3>2. Cardinality(Fresh \union Openers) = Cardinality(Fresh) + Cardinality(Openers)
      <4>1. Cardinality(Fresh \union Openers)
              = Cardinality(Fresh) + Cardinality(Openers) - Cardinality(Fresh \cap Openers)
        BY <1>0, <1>1, FS_Union
      <4>2. Cardinality(Fresh \cap Openers) = 0
        BY <3>1, FS_EmptySet
      <4> QED
        BY <1>2, <4>1, <4>2
    <3>3. Cardinality(Fresh \union Openers) <= Cardinality(Getter)
      BY <1>1, GetterAssumption, FS_Subset
    <3> QED
      BY <1>2, <2>1, <2>2, <2>3, <3>2, <3>3 DEF OpenedCounted
  <2> QED
    BY <1>2, <2>1, <2>2, <2>3 DEF OpenedCounted
<1>6. CASE ~Store(g) /\ opened' = opened
  <2>1. stored' = stored
    BY <1>6 DEF GetterStep, Load, Compare, Open, ComputeLimit, SetMaxIdleConns, Remember
  <2>2. getter[g].fresh => getter'[g].fresh
    BY <1>6, GetterMoves DEF Moved, Rests, GetterSane, Load, Compare, Open, ComputeLimit,
                             SetMaxIdleConns, Remember
  <2>3. Fresh \subseteq Fresh'
    BY <1>3, <2>2 DEF Fresh
  <2>4. stored # NoPool => Openers' \subseteq Openers
    BY <1>3, GetterMoves DEF Moved, Rests, Openers
  <2>5. /\ Cardinality(Fresh) <= Cardinality(Fresh')
        /\ stored # NoPool => Cardinality(Openers') <= Cardinality(Openers)
    BY <1>0, <1>1, <2>3, <2>4, FS_Subset
  <2> QED
    BY <1>2, <1>6, <2>1, <2>5 DEF OpenedCounted
<1> QED
  BY <1>4, <1>5, <1>6 DEF GetterStep, Load, Compare, Open, ComputeLimit, SetMaxIdleConns, Remember

LEMMA LimitsStep ==
  ASSUME PoolTypeOK, GetterSane, LimitsCurrent, NEW g \in Getter, GetterStep(g), ~overtaken'
  PROVE  LimitsCurrent'
<1> DEFINE Knows(h) ==
      /\ getter[h].pc = "set" => getter[h].limit = LimitFor(keepAll)
      /\ getter[h].pc \in {"remember", "store"} => idleLimit[getter[h].pool] = LimitFor(keepAll)
      /\ getter[h].pc = "store" => lastKept = keepAll
    Races(h) == \/ getter[h].pc = "open" \/ getter[h].fresh
                \/ getter[h].pool \notin {NoPool, stored}
    InUse == stored # NoPool =>
      /\ \/ idleLimit[stored] = LimitFor(lastKept)
         \/ idleLimit[stored] = LimitFor(keepAll) /\ \E h \in Getter : getter[h].pc = "remember"
      /\ \A h \in Getter : Races(h) => idleLimit[stored] = LimitFor(keepAll)
<1>1. \A h \in Getter \ {g} : getter'[h] = getter[h]
  BY GetterMoves DEF Moved, Rests
<1>2. SUFFICES (\A h \in Getter : Knows(h)') /\ InUse'
  BY DEF LimitsCurrent
<1>3. keepAll' = keepAll
  BY DEF GetterStep, Load, Compare, Open, ComputeLimit, SetMaxIdleConns, Remember, Store
<1>4. ~Remember(g) => (\A h \in Getter : Knows(h)) /\ InUse
  BY DEF LimitsCurrent, GetterStep, Load, Compare, Open, ComputeLimit, SetMaxIdleConns, Store
<1>5. /\ stored \in Pool \union {NoPool} /\ idleLimit \in [Pool -> {"max", "all"}]
      /\ \A h \in Getter : getter[h].pc \in {"set", "remember", "store"} => getter[h].pool \in Pool
  BY DEF PoolTypeOK, GetterSane
<1>6. CASE Load(g)
  <2>1. UNCHANGED <<stored, idleLimit, keepAll, lastKept>> /\ ~Remember(g)
    BY <1>6 DEF Load, Remember
  <2>2. /\ getter[g].pc = "idle" /\ ~getter[g].fresh
        /\ \/ getter'[g].pc = "compare" /\ getter'[g].pool = stored /\ ~getter'[g].fresh
           \/ getter'[g].pc = "open" /\ stored = NoPool
    BY <1>6, GetterMoves DEF Moved, Rests, GetterSane, Load, Compare, Open, ComputeLimit,
                             SetMaxIdleConns, Remember, Store
  <2> QED
    BY <1>1, <1>4, <2>1, <2>2
<1>7. CASE Compare(g)
  <2>1. UNCHANGED <<stored, idleLimit, keepAll, lastKept>> /\ ~Remember(g)
    BY <1>7 DEF Compare, Remember
  <2>2. /\ getter[g].pc = "compare" /\ ~getter[g].fresh
        /\ \/ getter'[g].pc = "idle" /\ getter'[g].pool = NoPool /\ ~getter'[g].fresh
           \/ getter'[g].pc = "limit" /\ getter'[g].pool = getter[g].pool /\ ~getter'[g].fresh
    BY <1>7, GetterMoves DEF Moved, Rests, GetterSane, Load, Compare, Open, ComputeLimit,
                             SetMaxIdleConns, Remember, Store
  <2> QED
    BY <1>1, <1>4, <2>1, <2>2
<1>8. CASE Open(g)
  <2>1. UNCHANGED <<stored, idleLimit, keepAll, lastKept>> /\ ~Remember(g)
    BY <1>8 DEF Open, Remember
  <2>2. /\ getter[g].pc = "open"
        /\ \/ getter'[g].pc = "idle" /\ getter'[g].pool = NoPool /\ ~getter'[g].fresh
           \/ getter'[g].pc = "limit"
    BY <1>8, GetterMoves DEF Moved, Rests, GetterSane, Load, Compare, Open, ComputeLimit,
                             SetMaxIdleConns, Remember, Store
  <2> QED
    BY <1>1, <1>4, <2>1, <2>2
<1>9. CASE ComputeLimit(g)
  <2>1. UNCHANGED <<stored, idleLimit, keepAll, lastKept>> /\ ~Remember(g)
    BY <1>9 DEF ComputeLimit, Remember
  <2>2. /\ getter[g].pc = "limit"
        /\ getter'[g].pc = "set" /\ getter'[g].limit = LimitFor(keepAll)
        /\ getter'[g].pool = getter[g].pool /\ getter'[g].fresh = getter[g].fresh
    BY <1>9, GetterMoves DEF Moved, Rests, Load, Compare, Open, ComputeLimit,
                             SetMaxIdleConns, Remember, Store
  <2> QED
    BY <1>1, <1>3, <1>4, <2>1, <2>2
<1>10. CASE SetMaxIdleConns(g)
  <2>1. UNCHANGED <<stored, keepAll, lastKept>> /\ ~Remember(g)
    BY <1>10 DEF SetMaxIdleConns, Remember
  <2>2. /\ getter[g].pc = "set" /\ getter[g].pool \in Pool
        /\ getter'[g].pc = "remember"
        /\ getter'[g].pool = getter[g].pool /\ getter'[g].fresh = getter[g].fresh
    BY <1>5, <1>10, GetterMoves DEF Moved, Rests, Load, Compare, Open, ComputeLimit,
                                    SetMaxIdleConns, Remember, Store
  <2>3. \A p \in Pool : idleLimit'[p] = IF p = getter[g].pool THEN LimitFor(keepAll) ELSE idleLimit[p]
    BY <1>4, <1>5, <1>10, <2>1, <2>2 DEF SetMaxIdleConns
  <2>4. \A h \in Getter : Knows(h)'
    BY <1>1, <1>3, <1>4, <1>5, <2>1, <2>2, <2>3 DEF LimitFor
  <2>5. InUse'
    BY <1>1, <1>3, <1>4, <1>5, <2>1, <2>2, <2>3 DEF LimitFor
  <2> QED
    BY <2>4, <2>5
<1>11. CASE Remember(g)
  <2>1. UNCHANGED <<stored, idleLimit, keepAll>> /\ lastKept' = keepAll
    BY <1>11 DEF Remember
  <2>2. /\ getter[g].pc = "remember" /\ getter[g].pool \in Pool
        /\ \/ getter'[g].pc = "idle" /\ getter'[g].pool = NoPool /\ ~getter'[g].fresh
           \/ getter'[g].pc = "store" /\ getter'[g].pool = getter[g].pool /\ getter[g].fresh
    BY <1>5, <1>11, GetterMoves DEF Moved, Rests, Load, Compare, Open, ComputeLimit,
                                    SetMaxIdleConns, Remember, Store
  <2>3. CASE ~overtaken
    <3>1. (\A h \in Getter : Knows(h)) /\ InUse
      BY <2>3 DEF LimitsCurrent
    <3>2. stored # NoPool => idleLimit[stored] = LimitFor(keepAll)
      BY <2>2, <3>1, PoolAssumption
    <3> QED
      BY <1>1, <2>1, <2>2, <3>1, <3>2
  <2>4. CASE overtaken
    <3>1. Undisturbed(g)
      BY <1>11, <2>4 DEF Remember
    <3>2. /\ getter[g].pool = stored /\ idleLimit[stored] = LimitFor(keepAll)
          /\ \A h \in Getter \ {g} : getter[h].pc = "idle"
      BY <3>1 DEF Undisturbed
    <3>3. \A h \in Getter \ {g} : ~getter[h].fresh /\ getter[h].pool = NoPool
      BY <3>2 DEF GetterSane
    <3> QED
      BY <1>1, <2>1, <2>2, <3>2, <3>3
  <2> QED
    BY <2>3, <2>4
<1>12. CASE Store(g)
  <2>1. UNCHANGED <<idleLimit, keepAll, lastKept>> /\ ~Remember(g) /\ stored' = getter[g].pool
    BY <1>12 DEF Store, Remember
  <2>2. /\ getter[g].pc = "store" /\ getter[g].pool \in Pool
        /\ getter'[g].pc = "idle" /\ getter'[g].pool = NoPool /\ ~getter'[g].fresh
    BY <1>5, <1>12, GetterMoves DEF Moved, Rests, Load, Compare, Open, ComputeLimit,
                                    SetMaxIdleConns, Remember, Store
  <2>3. idleLimit[getter[g].pool] = LimitFor(keepAll) /\ lastKept = keepAll
    BY <1>4, <2>1, <2>2
  <2> QED
    BY <1>1, <1>4, <2>1, <2>2, <2>3
<1> QED
  BY <1>6, <1>7, <1>8, <1>9, <1>10, <1>11, <1>12 DEF GetterStep

LEMMA SettingStep ==
  ASSUME PoolInv, NEW all \in BOOLEAN, SetKeepAllIdleConn(all)
  PROVE  PoolInv'
<1>1. keepAll' = all /\ UNCHANGED <<stored, opened, idleLimit, lastKept, getter>>
      /\ overtaken' = (overtaken \/ (~Quiet /\ all # keepAll))
  BY DEF SetKeepAllIdleConn
<1>2. PoolTypeOK' /\ GetterSane' /\ OpenedCounted'
  BY <1>1 DEF PoolInv, PoolTypeOK, GetterSane, OpenedCounted, Fresh, Openers
<1>3. ASSUME ~overtaken' PROVE LimitsCurrent'
  <2>1. CASE all = keepAll
    BY <1>1, <2>1 DEF PoolInv, LimitsCurrent
  <2>2. CASE Quiet
    <3>1. \A g \in Getter : getter[g].pc = "idle" /\ ~getter[g].fresh /\ getter[g].pool = NoPool
      BY <2>2 DEF Quiet, PoolInv, GetterSane
    <3>2. stored # NoPool => idleLimit[stored] = LimitFor(lastKept)
      BY <1>1, <1>3, <3>1 DEF PoolInv, LimitsCurrent
    <3> QED
      BY <1>1, <3>1, <3>2 DEF LimitsCurrent
  <2> QED
    BY <1>1, <1>3, <2>1, <2>2
<1> QED
  BY <1>2, <1>3 DEF PoolInv, LimitsCurrent

LEMMA InitPool == PoolInit => PoolInv
<1> SUFFICES ASSUME PoolInit PROVE PoolInv
  OBVIOUS
<1>1. PoolTypeOK
  BY AtRestType DEF PoolInit, PoolTypeOK, GetterStates
<1>2. GetterSane /\ LimitsCurrent
  BY DEF PoolInit, GetterSane, LimitsCurrent, AtRest
<1>3. IsFiniteSet(Fresh) /\ Cardinality(Fresh) \in Nat
  BY GetterAssumption, FS_Subset, FS_CardinalityType DEF Fresh
<1>4. IsFiniteSet(opened) /\ Cardinality(opened) = 0
  BY FS_EmptySet DEF PoolInit
<1>5. OpenedCounted
  BY <1>3, <1>4 DEF PoolInit, OpenedCounted
<1> QED
  BY <1>1, <1>2, <1>5 DEF PoolInv

LEMMA StepPool == PoolInv /\ [PoolNext]_poolVars => PoolInv'
<1> SUFFICES ASSUME PoolInv, [PoolNext]_poolVars PROVE PoolInv'
  OBVIOUS
<1>1. CASE UNCHANGED poolVars
  BY <1>1 DEF poolVars, PoolInv, PoolTypeOK, GetterSane, OpenedCounted, Fresh, Openers, LimitsCurrent
<1>2. ASSUME NEW g \in Getter, GetterStep(g) PROVE PoolInv'
  <2>1. PoolTypeOK' /\ GetterSane' /\ OpenedCounted'
    BY <1>2, PoolStepType, SaneStep, CountedStep DEF PoolInv
  <2>2. ~overtaken' => LimitsCurrent'
    BY <1>2, LimitsStep DEF PoolInv
  <2> QED
    BY <2>1, <2>2 DEF PoolInv, LimitsCurrent
<1> QED
  BY <1>1, <1>2, SettingStep DEF PoolNext

LEMMA PoolInvHolds == PoolSpec => []PoolInv
BY InitPool, StepPool, PTL DEF PoolSpec

LEMMA PoolInvBounds == PoolInv => LeakBounded
<1> SUFFICES ASSUME PoolInv PROVE LeakBounded
  OBVIOUS
<1>1. /\ Cardinality(Fresh) \in Nat /\ Cardinality(Openers) \in Nat
      /\ Cardinality(Fresh) <= Cardinality(Getter) /\ Cardinality(Getter) \in Nat
  BY GetterAssumption, FS_Subset, FS_CardinalityType DEF Fresh, Openers
<1>2. Cardinality(opened) \in Nat
  BY FS_CardinalityType DEF PoolInv, OpenedCounted
<1> QED
  BY <1>1, <1>2 DEF PoolInv, OpenedCounted, LeakBounded

LEMMA PoolInvFollows == PoolInv => IdleFollowsSetting
BY DEF PoolInv, LimitsCurrent, IdleFollowsSetting, Quiet

\* Limits, settings and the records of callers stay of their types, whatever the race.
THEOREM PoolTypeCorrect == PoolSpec => []PoolTypeOK
BY PoolInvHolds, PTL DEF PoolInv

\* Callers of GetDB who race open no more pools than they are, however many there are.
THEOREM LeakBoundedHolds == PoolSpec => []LeakBounded
BY PoolInvHolds, PoolInvBounds, PTL

\* Unless the setting changed under a call of GetDB, the next call follows it, however
\* many callers race.
THEOREM IdleFollowsSettingHolds == PoolSpec => []IdleFollowsSetting
BY PoolInvHolds, PoolInvFollows, PTL

-----------------------------------------------------------------------------
(* Queries inside a transaction.                                           *)

\* Sequences of anything.
IsSeq(s) == \E S : s \in Seq(S)

\* What Gets has appended so far, and what a query has before its first row.
RowsInv ==
  /\ method \in {"none", "ScanGet", "Get", "Gets"}
  /\ queryErr \in {"none", "nil", "error"}
  /\ method = "none" => queryErr = "none" /\ seen = <<>>
  /\ method # "none" => columns \in Columns
  /\ method \in {"ScanGet", "Get"} /\ queryErr = "none" => seen = <<>>
  /\ method = "Get" /\ queryErr = "none" => dest = <<prior>>
  /\ method = "Gets" /\ queryErr # "error" =>
       /\ IsSeq(seen) /\ IsSeq(dest)
       /\ rowCounts = Len(dest) /\ Len(seen) = Len(dest)
       /\ \A i \in 1 .. Len(dest) : FromRow(Zeroes, seen[i], dest[i])
  /\ RowsAreRead

LEMMA AppendAnything ==
  ASSUME NEW s, IsSeq(s), NEW x
  PROVE  /\ IsSeq(Append(s, x)) /\ Len(s) \in Nat /\ Len(Append(s, x)) = Len(s) + 1
         /\ Append(s, x)[Len(s) + 1] = x
         /\ \A i \in 1 .. Len(s) : Append(s, x)[i] = s[i]
<1>1. PICK S : s \in Seq(S)
  BY DEF IsSeq
<1>2. s \in Seq(S \union {x}) /\ x \in S \union {x}
  BY <1>1
<1> QED
  BY <1>2 DEF IsSeq

\* Of some natural numbers one is the least.
LEMMA LeastNatural ==
  ASSUME NEW T, T \subseteq Nat, T # {}
  PROVE  \E d \in T : \A e \in T : d <= e
<1>1. PICK d \in T : \A e \in T : <<e, d>> \notin OpToRel(<, Nat)
  BY NatLessThanWellFounded, WFMin, Zenon
<1>2. \A e \in T : ~(e < d)
  BY <1>1, Zenon DEF OpToRel
<1> QED
  BY <1>2

\* Of several columns with one name there is a last.
LEMMA LastColumn ==
  ASSUME columns \in Seq(STRING), NEW name, \E i \in DOMAIN columns : columns[i] = name
  PROVE  /\ ColumnIndex(name) \in DOMAIN columns /\ columns[ColumnIndex(name)] = name
         /\ \A j \in DOMAIN columns : columns[j] = name => j <= ColumnIndex(name)
<1> DEFINE n == Len(columns)
           T == {d \in Nat : n - d \in DOMAIN columns /\ columns[n - d] = name}
<1>1. n \in Nat /\ DOMAIN columns = 1 .. n
  OBVIOUS
<1>2. T \subseteq Nat /\ T # {}
  <2>1. PICK i \in DOMAIN columns : columns[i] = name
    OBVIOUS
  <2>2. i \in Int /\ n - i \in Nat /\ n - (n - i) = i
    BY <1>1, <2>1
  <2> QED
    BY <2>1, <2>2
<1> HIDE DEF T
<1>4. PICK d \in T : \A e \in T : d <= e
  BY <1>2, LeastNatural
<1> USE DEF T
<1>5. ASSUME NEW j \in DOMAIN columns, columns[j] = name PROVE j <= n - d
  <2>1. n - j \in T
    BY <1>1, <1>5
  <2> QED
    BY <1>1, <1>4, <2>1
<1>6. /\ n - d \in DOMAIN columns /\ columns[n - d] = name
      /\ \A j \in DOMAIN columns : columns[j] = name => j <= n - d
  BY <1>5
<1> HIDE DEF n, T
<1> QED
  BY <1>6 DEF ColumnIndex

\* Division by a positive number.
LEMMA Division ==
  ASSUME NEW m \in Nat \ {0}, NEW a \in Int
  PROVE  /\ (a % m) \in 0 .. m - 1 /\ (a \div m) \in Int
         /\ a = m * (a \div m) + (a % m)
<1>1. (a % m) \in 0 .. m - 1
  OBVIOUS
<1>2. (a \div m) \in Int
  OBVIOUS
<1>3. a = m * (a \div m) + (a % m)
  OBVIOUS
<1> QED
  BY <1>1, <1>2, <1>3

LEMMA Distributes ==
  ASSUME NEW m \in Int, NEW a \in Int, NEW q \in Int
  PROVE  m * a - m * q = m * (a - q)
OBVIOUS

LEMMA NoSmallMultiple ==
  ASSUME NEW m \in Nat \ {0}, NEW k \in Int, m * k \in 0 .. m - 1
  PROVE  m * k = 0
<1>1. CASE k >= 1
  <2>1. m * k >= m
    BY <1>1
  <2> QED
    BY <2>1
<1>2. CASE k <= -1
  <2>1. m * k <= -m
    BY <1>2
  <2> QED
    BY <2>1
<1>3. CASE k = 0
  BY <1>3
<1> QED
  BY <1>1, <1>2, <1>3

LEMMA Multiple ==
  ASSUME NEW m \in Nat \ {0}, NEW a \in Int, NEW b, b = m * a
  PROVE  b % m = 0
<1> DEFINE r == b % m
           q == b \div m
<1>1. b \in Int
  OBVIOUS
<1>2. r \in 0 .. m - 1 /\ q \in Int /\ b = m * q + r
  BY <1>1, Division
<1> HIDE DEF r, q
<1>3. r = m * a - m * q
  <2> DEFINE x == m * q
             y == m * a
  <2>1. x \in Int /\ y \in Int
    BY <1>2
  <2>2. y = x + r
    BY <1>2
  <2> HIDE DEF x, y
  <2>3. r = y - x
    BY <1>2, <2>1, <2>2
  <2> QED
    BY <2>3 DEF x, y
<1>4. r = m * (a - q) /\ a - q \in Int
  BY <1>2, <1>3, Distributes
<1>5. r = 0
  BY <1>2, <1>4, NoSmallMultiple
<1> QED
  BY <1>5 DEF r

LEMMA WithoutRest ==
  ASSUME NEW m \in Nat \ {0}, NEW a \in Int
  PROVE  (a - (a % m)) % m = 0
<1> DEFINE r == a % m
           q == a \div m
           x == m * q
<1>1. r \in 0 .. m - 1 /\ q \in Int /\ a = x + r
  BY Division
<1> HIDE DEF r, q
<1>2. x \in Int
  BY <1>1
<1>3. a - r = x
  <2> HIDE DEF x
  <2> QED
    BY <1>1, <1>2
<1>4. (a - r) % m = 0
  BY <1>1, <1>3, Multiple
<1> QED
  BY <1>4 DEF r

\* SetInt and SetUint keep the low bits.
LEMMA CutLowBits ==
  ASSUME NEW kind, NEW n \in Int
  PROVE  LowBits(kind, Cut(kind, n), n)
<1> DEFINE m == 2 * Half
           r == n % m
           s == (n + Half) % m
<1>0. Half \in Nat /\ m \in Nat \ {0} /\ m = Half + Half /\ n + Half \in Int
  BY HalfAssumption
<1> HIDE DEF m
<1>1. r \in 0 .. m - 1 /\ s \in 0 .. m - 1
  BY <1>0, Division
<1>2. (n - r) % m = 0 /\ ((n + Half) - s) % m = 0
  BY <1>0, WithoutRest
<1> HIDE DEF r, s
<1>3. (n + Half) - s = n - (s - Half) /\ s - Half \in -Half .. Half - 1
  BY <1>0, <1>1
<1>4. (n - (s - Half)) % m = 0
  BY <1>2, <1>3
<1> QED
  BY <1>0, <1>1, <1>2, <1>3, <1>4 DEF LowBits, Cut, m, r, s

\* A struct set from a row says what the row says.
LEMMA ScannedFromRow ==
  ASSUME columns \in Seq(STRING), NEW old, NEW row
  PROVE  FromRow(old, row, Scanned(old, row))
<1> DEFINE new == Scanned(old, row)
<1>1. ASSUME NEW f \in Field, ~\E i \in DOMAIN columns : columns[i] = f.name
      PROVE  new[f] = old[f]
  BY <1>1 DEF Scanned
<1>2. ASSUME NEW f \in Field, NEW i \in DOMAIN columns, columns[i] = f.name,
             \A j \in DOMAIN columns : columns[j] = f.name => j <= i
      PROVE  Says(f.kind, row[i], old[f], new[f])
  <2>1. ColumnIndex(f.name) = i
    <3>1. /\ ColumnIndex(f.name) \in DOMAIN columns /\ columns[ColumnIndex(f.name)] = f.name
          /\ \A j \in DOMAIN columns : columns[j] = f.name => j <= ColumnIndex(f.name)
      BY <1>2, LastColumn
    <3>2. ColumnIndex(f.name) <= i /\ i <= ColumnIndex(f.name)
      BY <1>2, <3>1
    <3> QED
      BY <1>2, <3>1, <3>2
  <2> DEFINE s == row[i]
  <2>2. new[f] = SetField(f.kind, s, old[f])
    BY <1>2, <2>1 DEF Scanned
  <2>3. f.kind \in {"string", "bool", "int", "uint"} /\ "" \notin DOMAIN Number
    BY FieldAssumption, NumberAssumption
  <2>4. s \in DOMAIN Number => LowBits(f.kind, Cut(f.kind, Number[s]), Number[s])
    BY NumberAssumption, CutLowBits
  <2> HIDE DEF s, new
  <2> QED
    BY <2>2, <2>3, <2>4 DEF Says, SetField, s
<1> HIDE DEF new
<1>3. \A f \in Field :
        LET own == {i \in DOMAIN columns : columns[i] = f.name} IN
        /\ own = {} => new[f] = old[f]
        /\ \A i \in own : (\A j \in own : j <= i) => Says(f.kind, row[i], old[f], new[f])
  BY <1>1, <1>2
<1> QED
  BY <1>3 DEF FromRow, new

LEMMA InitRows == RowsInit => RowsInv
BY DEF RowsInit, RowsInv, RowsAreRead

LEMMA SendQueryStep == RowsInv /\ SendQuery => RowsInv'
<1> SUFFICES ASSUME RowsInv, SendQuery PROVE RowsInv'
  OBVIOUS
<1>1. /\ method = "none" /\ method' \in {"ScanGet", "Get", "Gets"} /\ columns' \in Columns
      /\ dest' = IF method' = "Get" THEN <<prior'>> ELSE <<>>
      /\ rowCounts' = 0 /\ queryErr' \in {"none", "error"} /\ seen' = seen /\ seen = <<>>
  BY DEF SendQuery, Returns, RowsInv
<1>2. IsSeq(<<>>)
  BY DEF IsSeq
<1> QED
  BY <1>1, <1>2 DEF RowsInv, RowsAreRead

LEMMA OneRowStep == RowsInv /\ (ScanGet \/ Get) => RowsInv'
<1> SUFFICES ASSUME RowsInv, ScanGet \/ Get PROVE RowsInv'
  OBVIOUS
<1>1. UNCHANGED <<method, columns, prior>> /\ queryErr = "none" /\ method \in {"ScanGet", "Get"}
      /\ seen = <<>> /\ columns \in Seq(STRING)
  BY ColumnsAssumption DEF RowsInv, ScanGet, Get, SameCall, Running
<1> DEFINE row == Head(unread)
<1>2. CASE ScanGet
  <2>1. \/ seen' = seen /\ rowCounts' = 0 /\ queryErr' = "error"
        \/ seen' = <<row>> /\ rowCounts' \in {0, 1} /\ queryErr' = IF rowCounts' = 1 THEN "nil" ELSE "error"
    BY <1>1, <1>2 DEF ScanGet, Returns, See
  <2> QED
    BY <1>1, <1>2, <2>1 DEF RowsInv, RowsAreRead, ScanGet, Running
<1>3. CASE Get
  <2>1. dest = <<prior>> /\ method = "Get"
    BY <1>3 DEF RowsInv, Get, Running
  <2>2. \/ seen' = <<>> /\ dest' = dest /\ rowCounts' = 1 /\ queryErr' = "nil"
        \/ queryErr' = "error"
        \/ seen' = <<row>> /\ dest' = <<Scanned(prior, row)>> /\ rowCounts' = 1 /\ queryErr' = "nil"
    BY <1>1, <1>3, <2>1 DEF Get, Returns, See
  <2>3. FromRow(prior, row, Scanned(prior, row))
    BY <1>1, ScannedFromRow
  <2>4. \A old, r, new : FromRow(old, r, new)' <=> FromRow(old, r, new)
    BY <1>1 DEF FromRow
  <2> DEFINE new == Scanned(prior, row)
  <2> HIDE DEF new, row
  <2>5. CASE seen' = <<>> /\ dest' = dest /\ rowCounts' = 1 /\ queryErr' = "nil"
    BY <1>1, <2>1, <2>5 DEF RowsInv, RowsAreRead
  <2>6. CASE queryErr' = "error"
    BY <1>1, <2>1, <2>6 DEF RowsInv, RowsAreRead
  <2>7. CASE seen' = <<row>> /\ dest' = <<new>> /\ rowCounts' = 1 /\ queryErr' = "nil"
    <3>1. FromRow(prior, row, new)
      BY <2>3 DEF new
    <3>2. FromRow(prior, seen[1], dest[1])'
      BY <1>1, <2>4, <2>7, <3>1, Zenon
    <3> QED
      BY <1>1, <2>1, <2>7, <3>2 DEF RowsInv, RowsAreRead
  <2> QED
    BY <2>2, <2>5, <2>6, <2>7 DEF new
<1> QED
  BY <1>2, <1>3

LEMMA GetsStep == RowsInv /\ Gets => RowsInv'
<1> SUFFICES ASSUME RowsInv, Gets PROVE RowsInv'
  OBVIOUS
<1>1. UNCHANGED <<method, columns, prior>> /\ queryErr = "none" /\ method = "Gets"
      /\ columns \in Columns /\ columns \in Seq(STRING)
  BY ColumnsAssumption DEF RowsInv, Gets, SameCall, Running
<1>2. /\ IsSeq(seen) /\ IsSeq(dest)
      /\ rowCounts = Len(dest) /\ Len(seen) = Len(dest)
      /\ \A i \in 1 .. Len(dest) : FromRow(Zeroes, seen[i], dest[i])
  BY <1>1 DEF RowsInv
<1> DEFINE row == Head(unread)
<1>3. \/ rowCounts' = rowCounts /\ queryErr' = "nil" /\ seen' = seen /\ dest' = dest
      \/ queryErr' = "error"
      \/ /\ seen' = Append(seen, row) /\ dest' = Append(dest, Scanned(Zeroes, row))
         /\ rowCounts' = rowCounts + 1 /\ queryErr' = "none"
  BY DEF Gets, Returns, See
<1>4. \A old, r, new : FromRow(old, r, new)' <=> FromRow(old, r, new)
  BY <1>1 DEF FromRow
<1> DEFINE new == Scanned(Zeroes, row)
<1>5. FromRow(Zeroes, row, new)
  BY <1>1, ScannedFromRow
<1> HIDE DEF new, row
<1>6. ASSUME rowCounts' = rowCounts, queryErr' = "nil", seen' = seen, dest' = dest
      PROVE  RowsInv'
  BY <1>1, <1>2, <1>4, <1>6 DEF RowsInv, RowsAreRead
<1>7. CASE queryErr' = "error"
  BY <1>1, <1>7 DEF RowsInv, RowsAreRead
<1>8. ASSUME seen' = Append(seen, row), dest' = Append(dest, new), rowCounts' = rowCounts + 1,
             queryErr' = "none"
      PROVE  RowsInv'
  <2>1. /\ IsSeq(seen') /\ IsSeq(dest') /\ Len(seen') = Len(dest') /\ rowCounts' = Len(dest')
        /\ Len(dest) \in Nat /\ Len(dest') = Len(dest) + 1
        /\ seen'[Len(dest) + 1] = row /\ dest'[Len(dest) + 1] = new
        /\ \A i \in 1 .. Len(dest) : seen'[i] = seen[i] /\ dest'[i] = dest[i]
    BY <1>2, <1>8, AppendAnything
  <2>2. ASSUME NEW i \in 1 .. Len(dest') PROVE FromRow(Zeroes, seen'[i], dest'[i])
    BY <1>2, <1>5, <2>1
  <2> QED
    BY <1>1, <1>4, <1>8, <2>1, <2>2 DEF RowsInv, RowsAreRead
<1> QED
  BY <1>3, <1>6, <1>7, <1>8 DEF new

LEMMA StepRows == RowsInv /\ [RowsNext]_rowVars => RowsInv'
<1> SUFFICES ASSUME RowsInv, [RowsNext]_rowVars PROVE RowsInv'
  OBVIOUS
<1>1. CASE NextQuery
  BY <1>1 DEF NextQuery, Returns, RowsInv, RowsAreRead
<1>2. CASE UNCHANGED rowVars
  <2>1. UNCHANGED <<method, columns, unread, seen, prior, dest, rowCounts, queryErr>>
    BY <1>2 DEF rowVars
  <2>2. \A old, r, new : FromRow(old, r, new)' <=> FromRow(old, r, new)
    BY <2>1 DEF FromRow
  <2> QED
    BY <2>1, <2>2 DEF RowsInv, RowsAreRead
<1> QED
  BY <1>1, <1>2, SendQueryStep, OneRowStep, GetsStep DEF RowsNext

\* RowsAreRead, whatever the columns, the fields, the texts and the rows: each struct is
\* filled from its own row alone, each field from the last column of its name, and the
\* count is that of the rows that were read.
THEOREM RowsAreReadHolds == RowsSpec => []RowsAreRead
<1>1. RowsInv => RowsAreRead
  BY DEF RowsInv
<1> QED
  BY <1>1, InitRows, StepRows, PTL DEF RowsSpec

-----------------------------------------------------------------------------
(* Text that is built in the process.                                      *)

\* Induction up to n, for a set of numbers.
LEMMA Upwards ==
  ASSUME NEW n \in Nat, NEW T, 0 \in T, \A k \in 0 .. n - 1 : k \in T => k + 1 \in T
  PROVE  \A k \in 0 .. n : k \in T
<1> DEFINE Missing == (0 .. n) \ T
<1>1. SUFFICES ASSUME Missing # {} PROVE FALSE
  OBVIOUS
<1>2. Missing \subseteq Nat
  OBVIOUS
<1> HIDE DEF Missing
<1>3. PICK d \in Missing : \A e \in Missing : d <= e
  BY <1>1, <1>2, LeastNatural
<1> USE DEF Missing
<1>4. d \in Nat /\ d # 0 /\ d - 1 \in 0 .. n - 1 /\ d - 1 \notin Missing
  BY <1>3
<1>5. d - 1 \in T
  BY <1>4
<1> QED
  BY <1>3, <1>4, <1>5

\* The provers do not know of a literal that it is in STRING.
Char == STRING \cup {"t", "?", "d", "N", "_", "0", "n", "r", "Z", "'", "\"", "\\"}

CharSeq == Seq(Char)

LEMMA TextFacts ==
  /\ <<>> \in CharSeq /\ Len(<<>>) = 0
  /\ \A s \in CharSeq : /\ <<>> \o s = s
                     /\ Len(s) \in Nat
                     /\ \A i \in 1 .. Len(s) : s[i] \in Char
  /\ \A s, r \in CharSeq : /\ s \o r \in CharSeq
                        /\ Len(s \o r) = Len(s) + Len(r)
BY DEF CharSeq

LEMMA Concat ==
  ASSUME NEW s \in CharSeq, NEW r \in CharSeq
  PROVE  /\ s \o r \in CharSeq /\ Len(s \o r) = Len(s) + Len(r)
         /\ \A i \in 1 .. Len(s) : (s \o r)[i] = s[i]
         /\ \A i \in 1 .. Len(r) : (s \o r)[Len(s) + i] = r[i]
BY DEF CharSeq

LEMMA SingleText ==
  ASSUME NEW c \in Char
  PROVE  <<c>> \in CharSeq /\ Len(<<c>>) = 1 /\ <<c>>[1] = c
BY DEF CharSeq

\* E[k] is the text of the first k pieces.
Joined(E, e, k) == E[k] = E[k - 1] \o e[k]

Joins(E, e, n) ==
  /\ E \in [0 .. n -> CharSeq]
  /\ E[0] = <<>>
  /\ \A k \in 1 .. n : Joined(E, e, k)

LEMMA JoinsExist ==
  ASSUME NEW n \in Nat, NEW e \in [1 .. n -> CharSeq]
  PROVE  \E E : Joins(E, e, n)
<1> DEFINE T == {d \in 0 .. n : \E E : Joins(E, e, d)}
<1>1. 0 \in T
  <2>1. Joins([k \in 0 .. 0 |-> <<>>], e, 0)
    BY TextFacts DEF Joins
  <2> QED
    BY <2>1
<1>2. ASSUME NEW d \in 0 .. n - 1, d \in T PROVE d + 1 \in T
  <2>1. PICK E : Joins(E, e, d)
    BY <1>2
  <2> DEFINE F == [k \in 0 .. d + 1 |-> IF k = d + 1 THEN E[d] \o e[d + 1] ELSE E[k]]
  <2>2. E \in [0 .. d -> CharSeq] /\ E[0] = <<>> /\ \A k \in 1 .. d : Joined(E, e, k)
    BY <2>1 DEF Joins
  <2>3. E[d] \o e[d + 1] \in CharSeq
    <3>1. e[d + 1] \in CharSeq /\ E[d] \in CharSeq
      BY <2>2
    <3> QED
      BY <3>1, TextFacts
  <2>4. F \in [0 .. d + 1 -> CharSeq] /\ F[0] = <<>>
    BY <2>2, <2>3
  <2>5. ASSUME NEW k \in 1 .. d + 1 PROVE Joined(F, e, k)
    <3>1. CASE k = d + 1
      <4>1. k - 1 = d /\ F[k] = E[d] \o e[d + 1] /\ F[k - 1] = E[d]
        BY <3>1
      <4> QED
        BY <3>1, <4>1 DEF Joined
    <3>2. CASE k # d + 1
      <4>1. Joined(E, e, k) /\ F[k] = E[k] /\ F[k - 1] = E[k - 1]
        BY <2>2, <3>2
      <4> QED
        BY <4>1 DEF Joined
    <3> QED
      BY <3>1, <3>2
  <2> HIDE DEF F
  <2>6. Joins(F, e, d + 1)
    BY <2>4, <2>5 DEF Joins
  <2> QED
    BY <2>6
<1> HIDE DEF T
<1>3. \A d \in 0 .. n : d \in T
  BY <1>1, <1>2, Upwards
<1> QED
  BY <1>3 DEF T

LEMMA FlattenJoins ==
  ASSUME NEW n \in Nat, NEW e \in [1 .. n -> CharSeq], NEW E, Joins(E, e, n)
  PROVE  FlattenSeq(e) = E[n]
<1> DEFINE flat == CHOOSE g : g = [i \in 1 .. Len(e) |-> IF i = 1 THEN e[i] ELSE g[i - 1] \o e[i]]
<1>0. Len(e) = n /\ \A i \in 1 .. n : e[i] \in CharSeq
  OBVIOUS
<1>1. E \in [0 .. n -> CharSeq] /\ E[0] = <<>> /\ \A k \in 1 .. n : Joined(E, e, k)
  BY DEF Joins
<1>2. ASSUME NEW k \in 1 .. n PROVE E[k] = IF k = 1 THEN e[k] ELSE E[k - 1] \o e[k]
  <2>1. Joined(E, e, k)
    BY <1>1
  <2>2. CASE k = 1
    <3>1. k - 1 = 0 /\ E[k - 1] = <<>>
      BY <1>1, <2>2
    <3> QED
      BY <1>0, <2>1, <2>2, <3>1, TextFacts DEF Joined
  <2> QED
    BY <2>1, <2>2 DEF Joined
<1>3. CASE n = 0
  BY <1>0, <1>1, <1>3 DEF FlattenSeq
<1>4. CASE n # 0
  <2> DEFINE H == [i \in 1 .. n |-> E[i]]
  <2>2. H = [i \in 1 .. n |-> IF i = 1 THEN e[i] ELSE H[i - 1] \o e[i]]
    <3>1. ASSUME NEW i \in 1 .. n PROVE H[i] = IF i = 1 THEN e[i] ELSE H[i - 1] \o e[i]
      BY <1>2
    <3> QED
      BY <3>1
  <2> HIDE DEF H
  <2>3. flat = [i \in 1 .. n |-> IF i = 1 THEN e[i] ELSE flat[i - 1] \o e[i]]
    BY <1>0, <2>2
  <2> HIDE DEF flat
  <2> DEFINE T == {d \in 0 .. n : d = 0 \/ flat[d] = E[d]}
  <2>4. 0 \in T
    OBVIOUS
  <2>5. ASSUME NEW d \in 0 .. n - 1, d \in T PROVE d + 1 \in T
    <3>1. d + 1 \in 1 .. n /\ (d + 1) - 1 = d
      OBVIOUS
    <3>3. flat[d + 1] = IF d + 1 = 1 THEN e[d + 1] ELSE flat[d] \o e[d + 1]
      BY <2>3, <3>1
    <3>2. E[d + 1] = IF d + 1 = 1 THEN e[d + 1] ELSE E[d] \o e[d + 1]
      BY <1>2
    <3> QED
      BY <2>5, <3>2, <3>3
  <2> HIDE DEF T
  <2>6. \A d \in 0 .. n : d \in T
    BY <2>4, <2>5, Upwards
  <2>7. flat[n] = E[n]
    BY <1>4, <2>6 DEF T
  <2>8. FlattenSeq(e) = flat[Len(e)]
    BY <1>0, <1>4, Zenon DEF FlattenSeq, flat
  <2> QED
    BY <1>0, <2>7, <2>8
<1> QED
  BY <1>3, <1>4

\* The text s has e from its place p on.
Holds(s, p, e) ==
  /\ p \in Nat \ {0}
  /\ p + Len(e) <= Len(s) + 1
  /\ \A i \in 1 .. Len(e) : s[p + i - 1] = e[i]

InPlace(s, p, E, e, n) ==
  \A k \in 1 .. n : /\ Holds(s, p + Len(E[k - 1]), e[k])
                    /\ Len(E[k]) = Len(E[k - 1]) + Len(e[k])

\* Each piece stands behind those before it.
LEMMA PiecesInPlace ==
  ASSUME NEW n \in Nat, NEW e \in [1 .. n -> CharSeq], NEW E, Joins(E, e, n),
         NEW s \in CharSeq, NEW p, Holds(s, p, E[n])
  PROVE  InPlace(s, p, E, e, n)
<1> DEFINE T == {d \in 0 .. n : Holds(s, p, E[n - d])}
<1>0. /\ \A k \in 0 .. n : E[k] \in CharSeq /\ Len(E[k]) \in Nat
      /\ \A k \in 1 .. n : e[k] \in CharSeq /\ Len(e[k]) \in Nat
      /\ p \in Nat \ {0} /\ Len(s) \in Nat
      /\ \A k \in 1 .. n : Joined(E, e, k)
  BY TextFacts DEF Joins, Holds
<1>1. ASSUME NEW k \in 1 .. n, Holds(s, p, E[k])
      PROVE  /\ Holds(s, p, E[k - 1])
             /\ Holds(s, p + Len(E[k - 1]), e[k])
             /\ Len(E[k]) = Len(E[k - 1]) + Len(e[k])
  <2>1. E[k] = E[k - 1] \o e[k] /\ E[k - 1] \in CharSeq /\ e[k] \in CharSeq
    <3>1. k - 1 \in 0 .. n
      OBVIOUS
    <3>2. Joined(E, e, k) /\ E[k - 1] \in CharSeq /\ e[k] \in CharSeq
      BY <1>0, <3>1
    <3> QED
      BY <3>2, Zenon DEF Joined
  <2> DEFINE m == Len(E[k - 1])
             l == Len(e[k])
  <2>2. /\ m \in Nat /\ l \in Nat /\ Len(E[k]) = m + l
        /\ \A i \in 1 .. m : E[k][i] = E[k - 1][i]
        /\ \A i \in 1 .. l : E[k][m + i] = e[k][i]
    <3>1. m \in Nat /\ l \in Nat
      BY <2>1, TextFacts
    <3>2. /\ Len(E[k - 1] \o e[k]) = m + l
          /\ \A i \in 1 .. m : (E[k - 1] \o e[k])[i] = E[k - 1][i]
          /\ \A i \in 1 .. l : (E[k - 1] \o e[k])[m + i] = e[k][i]
      BY <2>1, Concat, Zenon
    <3> QED
      BY <2>1, <3>1, <3>2, Zenon
  <2>3. /\ p + (m + l) <= Len(s) + 1
        /\ \A i \in 1 .. m + l : s[p + i - 1] = E[k][i]
    BY <1>1, <2>2 DEF Holds
  <2> HIDE DEF m, l
  <2>4. \A i \in 1 .. m : s[p + i - 1] = E[k - 1][i]
    <3>1. ASSUME NEW i \in 1 .. m PROVE s[p + i - 1] = E[k - 1][i]
      <4>1. i \in 1 .. m + l
        BY <2>2
      <4> QED
        BY <2>2, <2>3, <4>1
    <3> QED
      BY <3>1
  <2>5. \A i \in 1 .. l : s[p + m + i - 1] = e[k][i]
    <3>1. ASSUME NEW i \in 1 .. l PROVE s[p + m + i - 1] = e[k][i]
      <4>1. m + i \in 1 .. m + l /\ p + (m + i) - 1 = p + m + i - 1
        BY <1>0, <2>2
      <4>2. s[p + (m + i) - 1] = E[k][m + i]
        BY <2>3, <4>1
      <4> QED
        BY <2>2, <4>1, <4>2
    <3> QED
      BY <3>1
  <2>6. p + m <= Len(s) + 1 /\ p + m + l <= Len(s) + 1 /\ p + m \in Nat \ {0}
    BY <1>0, <2>2, <2>3
  <2> QED
    BY <1>0, <2>2, <2>4, <2>5, <2>6 DEF Holds, m, l
<1>2. 0 \in T
  OBVIOUS
<1>3. ASSUME NEW d \in 0 .. n - 1, d \in T PROVE d + 1 \in T
  <2>1. n - d \in 1 .. n /\ n - (d + 1) = (n - d) - 1
    OBVIOUS
  <2> QED
    BY <1>1, <1>3, <2>1
<1> HIDE DEF T
<1>4. \A d \in 0 .. n : d \in T
  BY <1>2, <1>3, Upwards
<1>5. ASSUME NEW k \in 1 .. n PROVE Holds(s, p, E[k])
  <2>1. n - k \in 0 .. n /\ n - (n - k) = k
    OBVIOUS
  <2> QED
    BY <1>4, <2>1 DEF T
<1> QED
  BY <1>1, <1>5 DEF InPlace

\* What is left of a sequence from a place on.
LEMMA Rest ==
  ASSUME NEW S, NEW v \in Seq(S)
  PROVE  /\ SubSeq(v, 1, Len(v)) = v
         /\ SubSeq(v, Len(v) + 1, Len(v)) = <<>>
         /\ \A k \in 1 .. Len(v) : <<v[k]>> \o SubSeq(v, k + 1, Len(v)) = SubSeq(v, k, Len(v))
<1>1. SubSeq(v, 1, Len(v)) = v
  OBVIOUS
<1>2. SubSeq(v, Len(v) + 1, Len(v)) = <<>>
  OBVIOUS
<1>3. ASSUME NEW k \in 1 .. Len(v)
      PROVE  <<v[k]>> \o SubSeq(v, k + 1, Len(v)) = SubSeq(v, k, Len(v))
  <2>1. v[k] \in S /\ Len(v) \in Nat
    OBVIOUS
  <2>2. SubSeq(v, k + 1, Len(v)) \in Seq(S) /\ SubSeq(v, k, Len(v)) \in Seq(S) /\ <<v[k]>> \in Seq(S)
    BY <2>1
  <2> QED
    BY <2>1, <2>2
<1> QED
  BY <1>1, <1>2, <1>3

LEMMA EscapedFacts ==
  /\ \A c \in DOMAIN Escaped : Escaped[c] \in Char /\ Unescaped(Escaped[c]) = c
  /\ "'" \in DOMAIN Escaped /\ Escaped["'"] = "'"
  /\ "\\" \in DOMAIN Escaped /\ Escaped["\\"] = "\\"
<1>1. /\ DOMAIN Escaped = {"NUL", "LF", "CR", "SUB", "'", "\"", "\\"}
      /\ Escaped["NUL"] = "0" /\ Escaped["LF"] = "n" /\ Escaped["CR"] = "r" /\ Escaped["SUB"] = "Z"
      /\ Escaped["'"] = "'" /\ Escaped["\""] = "\"" /\ Escaped["\\"] = "\\"
  BY DEF Escaped
<1>2. \A c \in DOMAIN Escaped : Escaped[c] \in Char
  <2>1. "0" \in Char /\ "n" \in Char /\ "r" \in Char /\ "Z" \in Char
    BY DEF Char
  <2>2. "'" \in Char /\ "\"" \in Char /\ "\\" \in Char
    BY DEF Char
  <2> QED
    BY <1>1, <2>1, <2>2
<1>3. \A c, k \in DOMAIN Escaped : Escaped[k] = Escaped[c] => k = c
  BY <1>1
<1>4. \A c \in DOMAIN Escaped : Unescaped(Escaped[c]) = c
  BY <1>3, Zenon DEF Unescaped
<1> QED
  BY <1>1, <1>2, <1>4

\* How ReadLiteral reads at i what it has read further on.
LiteralAt(g, s, plain, i) ==
  IF i > Len(s) THEN [value |-> <<"open">>, next |-> Len(s) + 1]
  ELSE IF ~plain /\ s[i] = "\\"
       THEN IF i = Len(s) THEN [value |-> <<"open">>, next |-> Len(s) + 1]
            ELSE [value |-> <<Unescaped(s[i + 1])>> \o g[i + 2].value, next |-> g[i + 2].next]
  ELSE IF s[i] = "'"
       THEN IF i < Len(s) /\ s[i + 1] = "'"
            THEN [value |-> <<"'">> \o g[i + 2].value, next |-> g[i + 2].next]
            ELSE [value |-> <<>>, next |-> i + 1]
  ELSE [value |-> <<s[i]>> \o g[i + 1].value, next |-> g[i + 1].next]

LEMMA LiteralDefined ==
  ASSUME NEW s \in CharSeq, NEW plain \in BOOLEAN
  PROVE  \A i \in 1 .. Len(s) + 2 : ReadLiteral(s, plain)[i] = LiteralAt(ReadLiteral(s, plain), s, plain, i)
<1> DEFINE N == Len(s) + 2
           T == {d \in 0 .. N : \E g : \A i \in N - d + 1 .. N : g[i] = LiteralAt(g, s, plain, i)}
<1>0. Len(s) \in Nat /\ N \in Nat
  BY TextFacts
<1>1. 0 \in T
  BY <1>0
<1>2. ASSUME NEW d \in 0 .. N - 1, d \in T PROVE d + 1 \in T
  <2>1. PICK g : \A i \in N - d + 1 .. N : g[i] = LiteralAt(g, s, plain, i)
    BY <1>2
  <2> DEFINE h == [i \in 1 .. N |-> IF i = N - d THEN LiteralAt(g, s, plain, N - d) ELSE g[i]]
  <2>2. ASSUME NEW i \in N - d .. N PROVE LiteralAt(h, s, plain, i) = LiteralAt(g, s, plain, i)
    <3>1. i <= Len(s) => h[i + 1] = g[i + 1] /\ h[i + 2] = g[i + 2]
      BY <1>0
    <3>2. i > Len(s) \/ i <= Len(s)
      BY <1>0
    <3> HIDE DEF h
    <3> QED
      BY <1>0, <3>1, <3>2 DEF LiteralAt
  <2>3. ASSUME NEW i \in N - d .. N PROVE h[i] = LiteralAt(g, s, plain, i)
    <3>1. CASE i = N - d
      BY <1>0, <3>1
    <3>2. CASE i # N - d
      <4>1. i \in N - d + 1 .. N /\ i \in 1 .. N
        BY <1>0, <3>2
      <4> QED
        BY <2>1, <3>2, <4>1
    <3> QED
      BY <3>1, <3>2
  <2> HIDE DEF h
  <2>4. \A i \in N - (d + 1) + 1 .. N : h[i] = LiteralAt(h, s, plain, i)
    <3>1. N - (d + 1) + 1 = N - d
      BY <1>0
    <3> QED
      BY <2>2, <2>3, <3>1
  <2> QED
    BY <1>0, <2>4
<1> HIDE DEF T
<1>3. \A d \in 0 .. N : d \in T
  BY <1>0, <1>1, <1>2, Upwards
<1>4. PICK g : \A i \in 1 .. N : g[i] = LiteralAt(g, s, plain, i)
  <2>1. N \in T /\ N - N + 1 = 1
    BY <1>0, <1>3
  <2> QED
    BY <2>1 DEF T
<1> DEFINE H == [i \in 1 .. N |-> g[i]]
<1>5. ASSUME NEW i \in 1 .. N PROVE H[i] = LiteralAt(H, s, plain, i)
  <2>1. i <= Len(s) => H[i + 1] = g[i + 1] /\ H[i + 2] = g[i + 2]
    BY <1>0
  <2>2. H[i] = LiteralAt(g, s, plain, i)
    BY <1>4
  <2>3. i > Len(s) \/ i <= Len(s)
    BY <1>0
  <2> HIDE DEF H
  <2> QED
    BY <1>0, <2>1, <2>2, <2>3 DEF LiteralAt
<1>6. H = [i \in 1 .. Len(s) + 2 |-> LiteralAt(H, s, plain, i)]
  BY <1>5
<1> HIDE DEF H
<1> DEFINE lit == CHOOSE f : f = [i \in 1 .. Len(s) + 2 |-> LiteralAt(f, s, plain, i)]
<1>7. lit = [i \in 1 .. Len(s) + 2 |-> LiteralAt(lit, s, plain, i)]
  BY <1>6
<1>8. ReadLiteral(s, plain) = lit
  BY Zenon DEF ReadLiteral, LiteralAt
<1> HIDE DEF lit
<1> QED
  BY <1>7, <1>8

\* A literal is read to a place behind its beginning.
LEMMA LiteralEnds ==
  ASSUME NEW s \in CharSeq, NEW plain \in BOOLEAN, NEW j \in 1 .. Len(s) + 2
  PROVE  LET next == ReadLiteral(s, plain)[j].next
         IN next \in 1 .. Len(s) + 1 /\ (j <= Len(s) => next > j) /\ (j > Len(s) => next = Len(s) + 1)
<1> DEFINE lit == ReadLiteral(s, plain)
           N == Len(s) + 2
           Ends(i) == /\ lit[i].next \in 1 .. Len(s) + 1
                      /\ i <= Len(s) => lit[i].next > i
                      /\ i > Len(s) => lit[i].next = Len(s) + 1
           T == {d \in 0 .. N : \A i \in N - d + 1 .. N : Ends(i)}
<1>0. Len(s) \in Nat /\ N \in Nat /\ N = Len(s) + 2
  BY TextFacts
<1>1. \A i \in 1 .. N : lit[i] = LiteralAt(lit, s, plain, i)
  BY LiteralDefined
<1> HIDE DEF N, lit
<1>2. 0 \in T
  BY <1>0
<1>3. ASSUME NEW d \in 0 .. N - 1, d \in T PROVE d + 1 \in T
  <2> DEFINE i == N - d
  <2>1. i \in 1 .. N /\ N - (d + 1) + 1 = i /\ \A m \in i + 1 .. N : Ends(m)
    BY <1>0, <1>3
  <2> HIDE DEF i
  <2>2. lit[i] = LiteralAt(lit, s, plain, i)
    BY <1>1, <2>1
  <2>3. Ends(i)
    <3>1. CASE i > Len(s)
      BY <1>0, <2>1, <2>2, <3>1 DEF LiteralAt
    <3>2. CASE i <= Len(s)
      <4>1. i + 1 \in i + 1 .. N /\ i + 2 \in i + 1 .. N
        BY <1>0, <2>1, <3>2
      <4>2. Ends(i + 1) /\ Ends(i + 2)
        BY <2>1, <4>1
      <4>3. lit[i].next \in {Len(s) + 1, lit[i + 2].next, i + 1, lit[i + 1].next}
        BY <2>2, <3>2 DEF LiteralAt
      <4>4. i + 1 <= Len(s) \/ i + 1 > Len(s)
        BY <1>0, <2>1
      <4>5. lit[i + 1].next \in i + 1 .. Len(s) + 1
        BY <1>0, <2>1, <3>2, <4>2, <4>4
      <4>6. lit[i + 2].next \in i + 1 .. Len(s) + 1
        <5> DEFINE next == lit[i + 2].next
        <5>1. /\ next \in 1 .. Len(s) + 1
              /\ i + 2 <= Len(s) => next > i + 2
              /\ i + 2 > Len(s) => next = Len(s) + 1
          BY <4>2
        <5> HIDE DEF next
        <5>2. next \in i + 1 .. Len(s) + 1
          BY <1>0, <2>1, <3>2, <5>1
        <5> QED
          BY <5>2 DEF next
      <4>7. Len(s) + 1 \in i + 1 .. Len(s) + 1 /\ i + 1 \in i + 1 .. Len(s) + 1
        BY <1>0, <2>1, <3>2
      <4>8. lit[i].next \in i + 1 .. Len(s) + 1
        BY <4>3, <4>5, <4>6, <4>7
      <4> QED
        BY <1>0, <2>1, <3>2, <4>8
    <3> QED
      BY <1>0, <2>1, <3>1, <3>2
  <2> QED
    BY <1>0, <2>1, <2>3
<1> HIDE DEF T
<1>4. \A d \in 0 .. N : d \in T
  BY <1>0, <1>2, <1>3, Upwards
<1>5. N \in T /\ N - N + 1 = 1
  BY <1>0, <1>4
<1>6. Ends(j)
  BY <1>0, <1>5 DEF T
<1> QED
  BY <1>6 DEF lit

\* What stands for the character c in a literal.
Spells(e, c, plain) ==
  \/ e = <<c>> /\ c # "'" /\ (plain \/ c # "\\")
  \/ e = <<"'", "'">> /\ c = "'"
  \/ ~plain /\ \E x \in Char : e = <<"\\", x>> /\ Unescaped(x) = c

Spelled(e, v, plain) == \A i \in 1 .. Len(v) : Spells(e[i], v[i], plain)

\* The quote at q is not doubled.
EndsAt(s, q) == q <= Len(s) /\ s[q] = "'" /\ (q < Len(s) => s[q + 1] # "'")

\* The literal from p to the quote at q is v.
LiteralIs(s, plain, p, v, q) == ReadLiteral(s, plain)[p] = [value |-> v, next |-> q + 1]

\* A literal whose pieces spell v, up to the quote that ends it, is read as v.
LEMMA LiteralRead ==
  ASSUME NEW s \in CharSeq, NEW plain \in BOOLEAN, NEW v \in CharSeq,
         NEW e \in [1 .. Len(v) -> CharSeq], NEW E, Joins(E, e, Len(v)),
         Spelled(e, v, plain),
         NEW p, Holds(s, p, E[Len(v)]), EndsAt(s, p + Len(E[Len(v)]))
  PROVE  LiteralIs(s, plain, p, v, p + Len(E[Len(v)]))
<1> DEFINE n == Len(v)
           q == p + Len(E[n])
           lit == ReadLiteral(s, plain)
           Read(k) == lit[p + Len(E[k])] = [value |-> SubSeq(v, k + 1, n), next |-> q + 1]
           T == {d \in 0 .. n : Read(n - d)}
<1>0. /\ n \in Nat /\ Len(s) \in Nat /\ p \in Nat \ {0}
      /\ \A k \in 0 .. n : E[k] \in CharSeq /\ Len(E[k]) \in Nat
      /\ E[0] = <<>> /\ Len(E[0]) = 0
      /\ \A k \in 1 .. n : v[k] \in Char
  BY TextFacts DEF Joins, Holds
<1>1. \A i \in 1 .. Len(s) + 2 : lit[i] = LiteralAt(lit, s, plain, i)
  BY LiteralDefined
<1>2. \A k \in 1 .. n : /\ Holds(s, p + Len(E[k - 1]), e[k])
                        /\ Len(E[k]) = Len(E[k - 1]) + Len(e[k])
  <2>1. Len(v) \in Nat
    BY <1>0
  <2>2. InPlace(s, p, E, e, Len(v))
    BY <2>1, PiecesInPlace
  <2> QED
    BY <2>2 DEF InPlace
<1>3. /\ SubSeq(v, 1, n) = v
      /\ SubSeq(v, n + 1, n) = <<>>
      /\ \A k \in 1 .. n : <<v[k]>> \o SubSeq(v, k + 1, n) = SubSeq(v, k, n)
  BY Rest DEF CharSeq
<1>10. /\ q \in Nat \ {0} /\ q = p + Len(E[n])
       /\ q <= Len(s) /\ s[q] = "'" /\ (q < Len(s) => s[q + 1] # "'")
       /\ \A i \in 1 .. n : Spells(e[i], v[i], plain)
  BY <1>0 DEF EndsAt, Spelled
<1> HIDE DEF lit, q
<1>4. 0 \in T
  <2>1. lit[q] = LiteralAt(lit, s, plain, q)
    BY <1>0, <1>1, <1>10
  <2>2. lit[q] = [value |-> <<>>, next |-> q + 1]
    BY <1>0, <1>10, <2>1 DEF LiteralAt
  <2> QED
    BY <1>0, <1>3, <1>10, <2>2
<1>5. ASSUME NEW k \in 1 .. n, Read(k) PROVE Read(k - 1)
  <2> DEFINE i == p + Len(E[k - 1])
             m == Len(e[k])
             rest == SubSeq(v, k + 1, n)
  <2>1. /\ i \in Nat \ {0} /\ i + m <= Len(s) + 1
        /\ \A j \in 1 .. m : s[i + j - 1] = e[k][j]
        /\ p + Len(E[k]) = i + m
        /\ m \in Nat
    <3>1. k - 1 \in 0 .. n /\ e[k] \in CharSeq
      BY <1>0
    <3>2. Len(E[k - 1]) \in Nat /\ Len(e[k]) \in Nat
      BY <1>0, <3>1, TextFacts
    <3>3. Holds(s, i, e[k]) /\ Len(E[k]) = Len(E[k - 1]) + m
      BY <1>2
    <3>4. p + Len(E[k]) = i + m
      BY <1>0, <3>2, <3>3
    <3> HIDE DEF i, m
    <3> QED
      BY <3>2, <3>3, <3>4 DEF Holds, m
  <2>2. lit[i + m] = [value |-> rest, next |-> q + 1]
    BY <1>5, <2>1
  <2>3. Spells(e[k], v[k], plain)
    BY <1>10
  <2> HIDE DEF i, m, rest
  <2> DEFINE Goes == lit[i] = [value |-> <<v[k]>> \o lit[i + m].value, next |-> lit[i + m].next]
  <2>4. ASSUME e[k] = <<v[k]>>, v[k] # "'", plain \/ v[k] # "\\" PROVE Goes
    <3>1. m = 1 /\ e[k][1] = v[k] /\ s[i] = v[k] /\ i <= Len(s)
      <4>1. m = 1 /\ e[k][1] = v[k]
        BY <2>4 DEF m
      <4>2. i + 1 - 1 = i /\ 1 \in 1 .. m /\ i <= Len(s)
        BY <1>0, <2>1, <4>1
      <4>3. s[i + 1 - 1] = e[k][1]
        BY <2>1, <4>2
      <4> QED
        BY <4>1, <4>2, <4>3
    <3>2. lit[i] = LiteralAt(lit, s, plain, i)
      BY <1>0, <1>1, <2>1, <3>1
    <3>3. lit[i] = [value |-> <<v[k]>> \o lit[i + 1].value, next |-> lit[i + 1].next]
      BY <1>0, <2>1, <2>4, <3>1, <3>2 DEF LiteralAt
    <3> QED
      BY <3>1, <3>3
  <2>5. ASSUME NEW y \in Char, NEW x \in Char, e[k] = <<y, x>>,
               \/ y = "'" /\ x = "'" /\ v[k] = "'"
               \/ ~plain /\ y = "\\" /\ Unescaped(x) = v[k]
        PROVE  Goes
    <3>1. m = 2 /\ s[i] = y /\ s[i + 1] = x /\ i < Len(s)
      <4>1. m = 2 /\ e[k][1] = y /\ e[k][2] = x
        BY <2>5 DEF m
      <4>2. i + 1 - 1 = i /\ i + 2 - 1 = i + 1 /\ 1 \in 1 .. m /\ 2 \in 1 .. m /\ i < Len(s)
        BY <1>0, <2>1, <4>1
      <4>3. s[i + 1 - 1] = e[k][1] /\ s[i + 2 - 1] = e[k][2]
        BY <2>1, <4>2
      <4> QED
        BY <4>1, <4>2, <4>3
    <3>2. lit[i] = LiteralAt(lit, s, plain, i)
      BY <1>0, <1>1, <2>1, <3>1
    <3>3. lit[i] = [value |-> <<v[k]>> \o lit[i + 2].value, next |-> lit[i + 2].next]
      <4>1. CASE y = "'" /\ x = "'" /\ v[k] = "'"
        <5>1. "'" # "\\"
          OBVIOUS
        <5> QED
          BY <1>0, <2>1, <3>1, <3>2, <4>1, <5>1 DEF LiteralAt
      <4>2. CASE ~plain /\ y = "\\" /\ Unescaped(x) = v[k]
        BY <1>0, <2>1, <3>1, <3>2, <4>2 DEF LiteralAt
      <4> QED
        BY <2>5, <4>1, <4>2
    <3> QED
      BY <3>1, <3>3
  <2>6. lit[i] = [value |-> <<v[k]>> \o rest, next |-> q + 1]
    <3>0. "'" \in Char /\ "\\" \in Char
      BY DEF Char
    <3>1. Goes
      <4> HIDE DEF Goes
      <4> QED
        BY <2>3, <2>4, <2>5, <3>0 DEF Spells
    <3> QED
      BY <2>2, <3>1
  <2>7. <<v[k]>> \o rest = SubSeq(v, k, n)
    BY <1>3, Zenon DEF rest
  <2>8. (k - 1) + 1 = k
    OBVIOUS
  <2> QED
    BY <2>6, <2>7, <2>8 DEF i
<1> HIDE DEF Read
<1>6. ASSUME NEW d \in 0 .. n - 1, d \in T PROVE d + 1 \in T
  <2>1. n - d \in 1 .. n /\ n - (d + 1) = (n - d) - 1
    BY <1>0
  <2>2. Read((n - d) - 1)
    BY <1>5, <1>6, <2>1
  <2>3. Read(n - (d + 1)) /\ d + 1 \in 0 .. n
    BY <1>0, <2>1, <2>2
  <2> QED
    BY <2>3
<1> HIDE DEF T
<1>7. \A d \in 0 .. n : d \in T
  BY <1>0, <1>4, <1>6, Upwards
<1>8. n \in T /\ n - n = 0
  BY <1>0, <1>7
<1>9. Read(0)
  BY <1>8 DEF T
<1> QED
  BY <1>0, <1>3, <1>9 DEF lit, Read, q, LiteralIs

\* How Reading reads at i what it has read further on.
ReadingAt(g, s, lit, i) ==
  IF i > Len(s) THEN <<>>
  ELSE IF s[i] = "'"
       THEN <<[kind |-> IF lit[i + 1].value = <<"d">> THEN "time" ELSE "string",
               value |-> lit[i + 1].value]>> \o g[lit[i + 1].next]
  ELSE IF s[i] = "_"
       THEN <<[kind |-> "bytes", value |-> lit[i + 2].value]>> \o g[lit[i + 2].next]
  ELSE IF s[i] = "d" THEN <<[kind |-> "number", value |-> <<"d">>]>> \o g[i + 1]
  ELSE IF s[i] = "N" THEN <<[kind |-> "nil", value |-> <<>>]>> \o g[i + 1]
  ELSE <<OfStatement>> \o g[i + 1]

LEMMA ReadingDefined ==
  ASSUME NEW s \in CharSeq, NEW plain \in BOOLEAN
  PROVE  \A i \in 1 .. Len(s) + 1 :
           Reading(s, plain)[i] = ReadingAt(Reading(s, plain), s, ReadLiteral(s, plain), i)
<1> DEFINE N == Len(s) + 1
           lit == ReadLiteral(s, plain)
           T == {d \in 0 .. N : \E g : \A i \in N - d + 1 .. N : g[i] = ReadingAt(g, s, lit, i)}
<1>0. Len(s) \in Nat /\ N \in Nat /\ N = Len(s) + 1
  BY TextFacts
<1>1. ASSUME NEW i \in 1 .. N, i <= Len(s)
      PROVE  i + 1 \in i + 1 .. N /\ lit[i + 1].next \in i + 1 .. N /\ lit[i + 2].next \in i + 1 .. N
  <2>1. i + 1 \in 1 .. Len(s) + 2 /\ i + 2 \in 1 .. Len(s) + 2
    BY <1>0, <1>1
  <2> DEFINE next1 == lit[i + 1].next
             next2 == lit[i + 2].next
  <2>2. /\ next1 \in 1 .. Len(s) + 1 /\ (i + 1 <= Len(s) => next1 > i + 1)
        /\ (i + 1 > Len(s) => next1 = Len(s) + 1)
    BY <2>1, LiteralEnds
  <2>3. /\ next2 \in 1 .. Len(s) + 1 /\ (i + 2 <= Len(s) => next2 > i + 2)
        /\ (i + 2 > Len(s) => next2 = Len(s) + 1)
    BY <2>1, LiteralEnds
  <2> HIDE DEF next1, next2
  <2>4. next1 \in i + 1 .. N /\ next2 \in i + 1 .. N /\ i + 1 \in i + 1 .. N
    BY <1>0, <1>1, <2>2, <2>3
  <2> QED
    BY <2>4 DEF next1, next2
<1> HIDE DEF lit, N
<1>2. ASSUME NEW i \in 1 .. N, NEW g, NEW h, \A j \in i + 1 .. N : g[j] = h[j]
      PROVE  ReadingAt(g, s, lit, i) = ReadingAt(h, s, lit, i)
  <2>1. i > Len(s) \/ i <= Len(s)
    BY <1>0
  <2>2. i <= Len(s) => /\ g[i + 1] = h[i + 1]
                       /\ g[lit[i + 1].next] = h[lit[i + 1].next]
                       /\ g[lit[i + 2].next] = h[lit[i + 2].next]
    BY <1>1, <1>2
  <2> QED
    BY <2>1, <2>2 DEF ReadingAt
<1>3. 0 \in T
  BY <1>0
<1>4. ASSUME NEW d \in 0 .. N - 1, d \in T PROVE d + 1 \in T
  <2>1. PICK g : \A i \in N - d + 1 .. N : g[i] = ReadingAt(g, s, lit, i)
    BY <1>4
  <2> DEFINE h == [i \in 1 .. N |-> IF i = N - d THEN ReadingAt(g, s, lit, N - d) ELSE g[i]]
  <2>2. ASSUME NEW i \in N - d .. N PROVE ReadingAt(h, s, lit, i) = ReadingAt(g, s, lit, i)
    <3>1. \A j \in i + 1 .. N : h[j] = g[j]
      BY <1>0
    <3>2. i \in 1 .. N
      BY <1>0
    <3> HIDE DEF h
    <3> QED
      BY <1>2, <3>1, <3>2
  <2>3. ASSUME NEW i \in N - d .. N PROVE h[i] = ReadingAt(g, s, lit, i)
    <3>1. CASE i = N - d
      BY <1>0, <3>1
    <3>2. CASE i # N - d
      <4>1. i \in N - d + 1 .. N /\ i \in 1 .. N
        BY <1>0, <3>2
      <4> QED
        BY <2>1, <3>2, <4>1
    <3> QED
      BY <3>1, <3>2
  <2> HIDE DEF h
  <2>4. \A i \in N - (d + 1) + 1 .. N : h[i] = ReadingAt(h, s, lit, i)
    <3>1. N - (d + 1) + 1 = N - d
      BY <1>0
    <3> QED
      BY <2>2, <2>3, <3>1
  <2> QED
    BY <1>0, <2>4
<1> HIDE DEF T
<1>5. \A d \in 0 .. N : d \in T
  BY <1>0, <1>3, <1>4, Upwards
<1>6. PICK g : \A i \in 1 .. N : g[i] = ReadingAt(g, s, lit, i)
  <2>1. N \in T /\ N - N + 1 = 1
    BY <1>0, <1>5
  <2> QED
    BY <2>1 DEF T
<1> DEFINE H == [i \in 1 .. N |-> g[i]]
<1>7. ASSUME NEW i \in 1 .. N PROVE H[i] = ReadingAt(H, s, lit, i)
  <2>1. \A j \in i + 1 .. N : H[j] = g[j]
    BY <1>0
  <2>2. H[i] = ReadingAt(g, s, lit, i)
    BY <1>6
  <2> HIDE DEF H
  <2> QED
    BY <1>2, <2>1, <2>2
<1>8. H = [i \in 1 .. Len(s) + 1 |-> ReadingAt(H, s, lit, i)]
  BY <1>0, <1>7
<1> HIDE DEF H
<1> DEFINE read == CHOOSE f : f = [i \in 1 .. Len(s) + 1 |-> ReadingAt(f, s, lit, i)]
<1>9. read = [i \in 1 .. Len(s) + 1 |-> ReadingAt(read, s, lit, i)]
  BY <1>8
<1>10. Reading(s, plain) = read
  BY Zenon DEF Reading, ReadingAt, lit
<1> HIDE DEF read
<1> QED
  BY <1>9, <1>10 DEF lit

InQuotes(w, e) == w = Quote \o FlattenSeq(e) \o Quote

NotQuoted(s, i) == i <= Len(s) => s[i] # "'"

QuotedIs(s, plain, p, v, next) ==
  /\ p <= Len(s) /\ s[p] = "'"
  /\ ReadLiteral(s, plain)[p + 1] = [value |-> v, next |-> next]

\* A literal between its quotes is read whole.
LEMMA QuotedRead ==
  ASSUME NEW s \in CharSeq, NEW plain \in BOOLEAN, NEW v \in CharSeq, NEW e \in [1 .. Len(v) -> CharSeq],
         Spelled(e, v, plain),
         NEW w \in CharSeq, InQuotes(w, e),
         NEW p, Holds(s, p, w), NotQuoted(s, p + Len(w))
  PROVE  QuotedIs(s, plain, p, v, p + Len(w))
<1>1. Len(v) \in Nat /\ Len(s) \in Nat
  BY TextFacts
<1>2. PICK E : Joins(E, e, Len(v))
  BY <1>1, JoinsExist
<1> DEFINE n == Len(v)
           b == E[n]
<1>3. FlattenSeq(e) = b
  BY <1>1, <1>2, FlattenJoins
<1>4. b \in CharSeq
  BY <1>1, <1>2 DEF Joins
<1> HIDE DEF b
<1> DEFINE q == p + 1 + Len(b)
<1>5. /\ w \in CharSeq /\ Len(b) \in Nat /\ Len(w) = Len(b) + 2
      /\ w[1] = "'" /\ w[Len(b) + 2] = "'"
      /\ \A i \in 1 .. Len(b) : w[i + 1] = b[i]
  <2>1. w = (Quote \o b) \o Quote
    BY <1>3 DEF InQuotes
  <2>2. Quote \in CharSeq /\ Len(Quote) = 1 /\ Quote[1] = "'"
    <3>1. "'" \in Char
      BY DEF Char
    <3> QED
      BY <3>1, SingleText DEF Quote
  <2>5. Len(b) \in Nat
    BY <1>4, TextFacts
  <2> DEFINE h == Quote \o b
  <2>4. h \in CharSeq /\ Len(h) = 1 + Len(b) /\ h[1] = "'" /\ \A i \in 1 .. Len(b) : h[i + 1] = b[i]
    <3>1. /\ h \in CharSeq /\ Len(h) = Len(Quote) + Len(b)
          /\ \A i \in 1 .. Len(Quote) : h[i] = Quote[i]
          /\ \A i \in 1 .. Len(b) : h[Len(Quote) + i] = b[i]
      BY <1>4, <2>2, Concat, Zenon
    <3>2. \A i \in 1 .. Len(b) : i + 1 = 1 + i
      BY <2>5
    <3> HIDE DEF h
    <3> QED
      BY <2>2, <2>5, <3>1, <3>2
  <2> HIDE DEF h
  <2>6. /\ h \o Quote \in CharSeq /\ Len(h \o Quote) = Len(h) + 1 /\ (h \o Quote)[Len(h) + 1] = "'"
        /\ \A i \in 1 .. Len(h) : (h \o Quote)[i] = h[i]
    <3>1. /\ h \o Quote \in CharSeq /\ Len(h \o Quote) = Len(h) + Len(Quote)
          /\ \A i \in 1 .. Len(h) : (h \o Quote)[i] = h[i]
          /\ \A i \in 1 .. Len(Quote) : (h \o Quote)[Len(h) + i] = Quote[i]
      BY <2>2, <2>4, Concat, Zenon
    <3> DEFINE g == h \o Quote
    <3> HIDE DEF g
    <3>2. g \in CharSeq /\ Len(g) = Len(h) + 1 /\ g[Len(h) + 1] = "'" /\ \A i \in 1 .. Len(h) : g[i] = h[i]
      BY <2>2, <3>1 DEF g
    <3> QED
      BY <3>2 DEF g
  <2>7. w = h \o Quote
    BY <2>1 DEF h
  <2> QED
    BY <2>4, <2>5, <2>6, <2>7
<1>6. /\ p \in Nat \ {0} /\ p + (Len(b) + 2) <= Len(s) + 1
      /\ \A i \in 1 .. Len(b) + 2 : s[p + i - 1] = w[i]
  BY <1>5 DEF Holds
<1>7. p <= Len(s) /\ s[p] = "'"
  <2>1. p + 1 - 1 = p /\ 1 \in 1 .. Len(b) + 2 /\ p <= Len(s)
    BY <1>1, <1>5, <1>6
  <2> QED
    BY <1>5, <1>6, <2>1
<1>8. q <= Len(s) /\ s[q] = "'" /\ q + 1 = p + Len(w)
  <2>1. p + (Len(b) + 2) - 1 = q /\ Len(b) + 2 \in 1 .. Len(b) + 2 /\ q <= Len(s) /\ q + 1 = p + Len(w)
    BY <1>1, <1>5, <1>6
  <2> QED
    BY <1>5, <1>6, <2>1
<1>9. Holds(s, p + 1, b)
  <2>1. ASSUME NEW i \in 1 .. Len(b) PROVE s[(p + 1) + i - 1] = b[i]
    <3>1. i + 1 \in 1 .. Len(b) + 2 /\ p + (i + 1) - 1 = (p + 1) + i - 1
      BY <1>5, <1>6
    <3> QED
      BY <1>5, <1>6, <3>1
  <2>2. p + 1 \in Nat \ {0} /\ (p + 1) + Len(b) <= Len(s) + 1
    BY <1>1, <1>5, <1>6
  <2> QED
    BY <2>1, <2>2 DEF Holds
<1>10. EndsAt(s, q)
  BY <1>1, <1>5, <1>6, <1>8 DEF EndsAt, NotQuoted
<1> HIDE DEF q
<1>11. Holds(s, p + 1, E[Len(v)]) /\ q = p + 1 + Len(E[Len(v)])
  BY <1>9 DEF b, q
<1>12. ReadLiteral(s, plain)[p + 1] = [value |-> v, next |-> q + 1]
  <2> DEFINE r == p + 1
  <2>1. Holds(s, r, E[Len(v)]) /\ EndsAt(s, r + Len(E[Len(v)])) /\ q = r + Len(E[Len(v)])
    BY <1>10, <1>11
  <2> HIDE DEF r
  <2>2. LiteralIs(s, plain, r, v, r + Len(E[Len(v)]))
    BY <1>2, <2>1, LiteralRead, Zenon
  <2> QED
    BY <2>1, <2>2 DEF r, LiteralIs
<1> QED
  BY <1>7, <1>8, <1>12 DEF QuotedIs

LEMMA FlattenText ==
  ASSUME NEW v \in CharSeq, NEW e \in [1 .. Len(v) -> CharSeq]
  PROVE  FlattenSeq(e) \in CharSeq
<1>1. Len(v) \in Nat
  BY TextFacts
<1>2. PICK E : Joins(E, e, Len(v))
  BY <1>1, JoinsExist
<1>3. FlattenSeq(e) = E[Len(v)]
  BY <1>1, <1>2, FlattenJoins
<1> QED
  BY <1>1, <1>2, <1>3 DEF Joins

\* What each way of escaping writes is a spelling of the value.
LEMMA QuotesSpell ==
  ASSUME NEW v \in CharSeq
  PROVE  \E e \in [1 .. Len(v) -> CharSeq] : Spelled(e, v, TRUE) /\ Quotes(v) = FlattenSeq(e)
<1> DEFINE e == [i \in DOMAIN v |-> IF v[i] = "'" THEN <<"'", "'">> ELSE <<v[i]>>]
<1>1. DOMAIN v = 1 .. Len(v) /\ \A i \in 1 .. Len(v) : v[i] \in Char
  BY DEF CharSeq
<1>2. "'" \in Char
  BY DEF Char
<1>3. ASSUME NEW i \in 1 .. Len(v) PROVE e[i] \in CharSeq /\ Spells(e[i], v[i], TRUE)
  <2>1. v[i] \in Char /\ e[i] = IF v[i] = "'" THEN <<"'", "'">> ELSE <<v[i]>>
    BY <1>1
  <2> HIDE DEF e
  <2>2. <<"'", "'">> \in CharSeq /\ <<v[i]>> \in CharSeq
    BY <1>2, <2>1 DEF CharSeq
  <2> QED
    BY <2>1, <2>2 DEF Spells
<1>4. e \in [1 .. Len(v) -> CharSeq] /\ Quotes(v) = FlattenSeq(e)
  BY <1>1, <1>3 DEF Quotes
<1> HIDE DEF e
<1> QED
  BY <1>3, <1>4 DEF Spelled

LEMMA BackslashSpell ==
  ASSUME NEW v \in CharSeq
  PROVE  \E e \in [1 .. Len(v) -> CharSeq] : Spelled(e, v, FALSE) /\ Backslash(v) = FlattenSeq(e)
<1> DEFINE e == [i \in DOMAIN v |-> IF v[i] \in DOMAIN Escaped THEN <<"\\", Escaped[v[i]]>> ELSE <<v[i]>>]
<1>1. DOMAIN v = 1 .. Len(v) /\ \A i \in 1 .. Len(v) : v[i] \in Char
  BY DEF CharSeq
<1>2. "\\" \in Char
  BY DEF Char
<1>3. ASSUME NEW i \in 1 .. Len(v) PROVE e[i] \in CharSeq /\ Spells(e[i], v[i], FALSE)
  <2>1. v[i] \in Char /\ e[i] = IF v[i] \in DOMAIN Escaped THEN <<"\\", Escaped[v[i]]>> ELSE <<v[i]>>
    BY <1>1
  <2> HIDE DEF e
  <2>2. CASE v[i] \in DOMAIN Escaped
    <3>1. Escaped[v[i]] \in Char /\ Unescaped(Escaped[v[i]]) = v[i]
      BY <2>2, EscapedFacts
    <3>2. <<"\\", Escaped[v[i]]>> \in CharSeq
      BY <1>2, <3>1 DEF CharSeq
    <3> QED
      BY <2>1, <2>2, <3>1, <3>2 DEF Spells
  <2>3. CASE v[i] \notin DOMAIN Escaped
    <3>1. v[i] # "'" /\ v[i] # "\\"
      BY <2>3, EscapedFacts
    <3>2. <<v[i]>> \in CharSeq
      BY <2>1 DEF CharSeq
    <3> QED
      BY <2>1, <2>3, <3>1, <3>2 DEF Spells
  <2> QED
    BY <2>2, <2>3
<1>4. e \in [1 .. Len(v) -> CharSeq] /\ Backslash(v) = FlattenSeq(e)
  BY <1>1, <1>3 DEF Backslash
<1> HIDE DEF e
<1> QED
  BY <1>3, <1>4 DEF Spelled

LEMMA WhereSpell ==
  ASSUME NEW v \in CharSeq
  PROVE  \E e \in [1 .. Len(v) -> CharSeq] :
           /\ Spelled(e, v, FALSE)
           /\ FlattenSeq([i \in DOMAIN v |-> IF v[i] \in {"\\", "'"} THEN <<"\\", v[i]>> ELSE <<v[i]>>])
                = FlattenSeq(e)
<1> DEFINE e == [i \in DOMAIN v |-> IF v[i] \in {"\\", "'"} THEN <<"\\", v[i]>> ELSE <<v[i]>>]
<1>1. DOMAIN v = 1 .. Len(v) /\ \A i \in 1 .. Len(v) : v[i] \in Char
  BY DEF CharSeq
<1>2. "\\" \in Char
  BY DEF Char
<1>3. ASSUME NEW i \in 1 .. Len(v) PROVE e[i] \in CharSeq /\ Spells(e[i], v[i], FALSE)
  <2>1. v[i] \in Char /\ e[i] = IF v[i] \in {"\\", "'"} THEN <<"\\", v[i]>> ELSE <<v[i]>>
    BY <1>1
  <2> HIDE DEF e
  <2>2. CASE v[i] \in {"\\", "'"}
    <3>1. Unescaped(v[i]) = v[i]
      BY <2>2, EscapedFacts
    <3>2. <<"\\", v[i]>> \in CharSeq
      BY <1>2, <2>1 DEF CharSeq
    <3> QED
      BY <2>1, <2>2, <3>1, <3>2 DEF Spells
  <2>3. CASE v[i] \notin {"\\", "'"}
    <3>1. v[i] # "'" /\ v[i] # "\\"
      BY <2>3
    <3>2. <<v[i]>> \in CharSeq
      BY <2>1 DEF CharSeq
    <3> QED
      BY <2>1, <2>3, <3>1, <3>2 DEF Spells
  <2> QED
    BY <2>2, <2>3
<1>4. e \in [1 .. Len(v) -> CharSeq]
  BY <1>1, <1>3
<1> QED
  BY <1>3, <1>4 DEF Spelled

\* There is an a to read at i, and after it what there is at j.
ReadAs(s, plain, a, i, j) == Reading(s, plain)[i] = <<a>> \o Reading(s, plain)[j]

LEMMA QuotedReads ==
  ASSUME NEW s \in CharSeq, NEW plain \in BOOLEAN, NEW v \in CharSeq, NEW e \in [1 .. Len(v) -> CharSeq],
         Spelled(e, v, plain), NEW w \in CharSeq, InQuotes(w, e),
         NEW p, Holds(s, p, w), NotQuoted(s, p + Len(w)),
         NEW a, a = [kind |-> IF v = <<"d">> THEN "time" ELSE "string", value |-> v]
  PROVE  ReadAs(s, plain, a, p, p + Len(w))
<1>1. QuotedIs(s, plain, p, v, p + Len(w))
  BY QuotedRead
<1>2. p <= Len(s) /\ s[p] = "'" /\ ReadLiteral(s, plain)[p + 1] = [value |-> v, next |-> p + Len(w)]
  BY <1>1 DEF QuotedIs
<1>3. p \in 1 .. Len(s) /\ p \in 1 .. Len(s) + 1 /\ ~(p > Len(s))
  BY <1>2, TextFacts DEF Holds
<1>4. Reading(s, plain)[p] = ReadingAt(Reading(s, plain), s, ReadLiteral(s, plain), p)
  BY <1>3, ReadingDefined
<1> DEFINE R == Reading(s, plain)
           lit == ReadLiteral(s, plain)
<1> HIDE DEF R, lit
<1>5. R[p] = <<[kind |-> IF lit[p + 1].value = <<"d">> THEN "time" ELSE "string",
                value |-> lit[p + 1].value]>> \o R[lit[p + 1].next]
  <2>1. R[p] = ReadingAt(R, s, lit, p)
    BY <1>4 DEF R, lit
  <2> QED
    BY <1>2, <1>3, <2>1, Zenon DEF ReadingAt
<1>6. lit[p + 1].value = v /\ lit[p + 1].next = p + Len(w)
  BY <1>2 DEF lit
<1>7. R[p] = <<a>> \o R[p + Len(w)]
  BY <1>5, <1>6, Zenon
<1> QED
  BY <1>7 DEF ReadAs, R

IsBinary(s, p) == s[p] = "_"

LEMMA BytesRead ==
  ASSUME NEW s \in CharSeq, NEW plain \in BOOLEAN, NEW v \in CharSeq, NEW e \in [1 .. Len(v) -> CharSeq],
         Spelled(e, v, plain), NEW w \in CharSeq, InQuotes(w, e),
         NEW p \in Nat \ {0}, IsBinary(s, p), Holds(s, p + 1, w), NotQuoted(s, p + 1 + Len(w)),
         NEW a, a = [kind |-> "bytes", value |-> v]
  PROVE  ReadAs(s, plain, a, p, p + 1 + Len(w))
<1> DEFINE r == p + 1
<1>0. Holds(s, r, w) /\ NotQuoted(s, r + Len(w))
  OBVIOUS
<1> HIDE DEF r
<1>1. QuotedIs(s, plain, r, v, r + Len(w))
  BY <1>0, QuotedRead
<1>2. r <= Len(s) /\ ReadLiteral(s, plain)[r + 1] = [value |-> v, next |-> r + Len(w)]
  BY <1>1 DEF QuotedIs
<1>3. p \in 1 .. Len(s) + 1 /\ ~(p > Len(s)) /\ r + 1 = p + 2
  <2>1. Len(s) \in Nat /\ p + 1 <= Len(s)
    BY <1>2, TextFacts DEF r
  <2>2. p \in Nat /\ p # 0
    OBVIOUS
  <2>3. p \in 1 .. Len(s) + 1 /\ ~(p > Len(s)) /\ (p + 1) + 1 = p + 2
    BY <2>1, <2>2
  <2> QED
    BY <2>3 DEF r
<1>4. Reading(s, plain)[p] = ReadingAt(Reading(s, plain), s, ReadLiteral(s, plain), p)
  BY <1>3, ReadingDefined
<1>5. ReadLiteral(s, plain)[p + 2] = [value |-> v, next |-> p + 1 + Len(w)]
  BY <1>2, <1>3 DEF r
<1> DEFINE R == Reading(s, plain)
           lit == ReadLiteral(s, plain)
<1> HIDE DEF R, lit
<1>6. R[p] = <<[kind |-> "bytes", value |-> lit[p + 2].value]>> \o R[lit[p + 2].next]
  <2>1. R[p] = ReadingAt(R, s, lit, p)
    BY <1>4 DEF R, lit
  <2>2. s[p] # "'" /\ s[p] = "_"
    BY DEF IsBinary
  <2> QED
    BY <1>3, <2>1, <2>2 DEF ReadingAt
<1>7. lit[p + 2].value = v /\ lit[p + 2].next = p + 1 + Len(w)
  BY <1>5 DEF lit
<1>8. R[p] = <<a>> \o R[p + 1 + Len(w)]
  BY <1>6, <1>7
<1> QED
  BY <1>8 DEF ReadAs, R

\* One character that is no quote.
LEMMA CharacterReads ==
  ASSUME NEW s \in CharSeq, NEW plain \in BOOLEAN, NEW c \in {"d", "N", "t"}, NEW p, Holds(s, p, <<c>>),
         NEW a, a = CASE c = "d" -> [kind |-> "number", value |-> <<"d">>]
                      [] c = "N" -> [kind |-> "nil", value |-> <<>>]
                      [] OTHER -> OfStatement
  PROVE  ReadAs(s, plain, a, p, p + Len(<<c>>))
<1>1. c \in Char
  BY DEF Char
<1>2. Len(<<c>>) = 1 /\ <<c>>[1] = c
  BY <1>1, SingleText
<1>3. p \in Nat \ {0} /\ Len(s) \in Nat /\ p + 1 <= Len(s) + 1 /\ s[p + 1 - 1] = c
  BY <1>2, TextFacts DEF Holds
<1>4. p \in 1 .. Len(s) + 1 /\ ~(p > Len(s)) /\ s[p] = c
  BY <1>3
<1>5. Reading(s, plain)[p] = ReadingAt(Reading(s, plain), s, ReadLiteral(s, plain), p)
  BY <1>4, ReadingDefined
<1> DEFINE R == Reading(s, plain)
           lit == ReadLiteral(s, plain)
<1> HIDE DEF R, lit
<1>6. R[p] = <<a>> \o R[p + 1]
  <2>1. R[p] = ReadingAt(R, s, lit, p)
    BY <1>5 DEF R, lit
  <2>2. s[p] # "'" /\ s[p] # "_"
    BY <1>4
  <2> QED
    BY <1>4, <2>1, <2>2 DEF ReadingAt
<1> QED
  BY <1>2, <1>6 DEF ReadAs, R

Written(a) == IF a.kind = "other" THEN <<>> ELSE IF a.kind = "nil" THEN <<"N">> ELSE Literal(a)

\* The characters of a value, escaped for this server.
Body(v) == IF usingQuotes THEN Quotes(v) ELSE Backslash(v)

LEMMA BodySpells ==
  ASSUME usingQuotes \in BOOLEAN, NEW v \in CharSeq
  PROVE  \E e \in [1 .. Len(v) -> CharSeq] : Spelled(e, v, usingQuotes) /\ Body(v) = FlattenSeq(e)
<1>1. CASE usingQuotes = TRUE
  BY <1>1, QuotesSpell DEF Body
<1>2. CASE usingQuotes = FALSE
  BY <1>2, BackslashSpell DEF Body
<1> QED
  BY <1>1, <1>2

\* A time is a literal of one digit.
LEMMA DigitSpells ==
  ASSUME NEW plain \in BOOLEAN
  PROVE  \E e \in [1 .. Len(<<"d">>) -> CharSeq] : Spelled(e, <<"d">>, plain) /\ <<"d">> = FlattenSeq(e)
<1> DEFINE v == <<"d">>
           e == [i \in 1 .. 1 |-> <<"d">>]
<1>1. v \in CharSeq /\ Len(v) = 1 /\ v[1] = "d"
  BY SingleText DEF Char
<1>2. e \in [1 .. 1 -> CharSeq] /\ e[1] = v
  BY <1>1
<1>3. Spelled(e, v, plain)
  BY <1>1, <1>2 DEF Spelled, Spells
<1> HIDE DEF e, v
<1>4. PICK E : Joins(E, e, 1)
  BY <1>2, JoinsExist
<1>5. E[1] = v
  <2>1. E[0] = <<>> /\ Joined(E, e, 1) /\ 1 - 1 = 0
    BY <1>4 DEF Joins
  <2>2. E[1] = <<>> \o v
    BY <1>2, <2>1 DEF Joined
  <2> QED
    BY <1>1, <2>2, TextFacts
<1>6. FlattenSeq(e) = v
  BY <1>2, <1>4, <1>5, FlattenJoins
<1> QED
  BY <1>1, <1>2, <1>3, <1>6 DEF v

LEMMA QuoteText == Quote \in CharSeq
<1>1. "'" \in Char
  BY DEF Char
<1> QED
  BY <1>1, SingleText DEF Quote

LEMMA QuotedText ==
  ASSUME NEW v \in CharSeq, NEW e \in [1 .. Len(v) -> CharSeq], NEW w, InQuotes(w, e)
  PROVE  w \in CharSeq
<1>1. FlattenSeq(e) \in CharSeq /\ Quote \in CharSeq
  BY FlattenText, QuoteText
<1>2. Quote \o FlattenSeq(e) \in CharSeq
  BY <1>1, Concat
<1>3. (Quote \o FlattenSeq(e)) \o Quote \in CharSeq
  BY <1>1, <1>2, Concat
<1> QED
  BY <1>3 DEF InQuotes

InAnyOrder(s, r, w) == (s \o r) \o w = s \o (r \o w)

LEMMA Associative ==
  ASSUME NEW s \in CharSeq, NEW r \in CharSeq, NEW w \in CharSeq
  PROVE  InAnyOrder(s, r, w)
BY DEF CharSeq, InAnyOrder

\* What is behind the first character of a text.
LEMMA Behind ==
  ASSUME NEW s \in CharSeq, NEW c \in Char, NEW w \in CharSeq, NEW p, Holds(s, p, <<c>> \o w)
  PROVE  p \in Nat \ {0} /\ s[p] = c /\ Holds(s, p + 1, w) /\ Len(<<c>> \o w) = 1 + Len(w)
<1> DEFINE h == <<c>>
           g == h \o w
<1>1. h \in CharSeq /\ Len(h) = 1 /\ h[1] = c
  BY SingleText
<1>2. Len(s) \in Nat /\ Len(w) \in Nat
  BY TextFacts
<1> HIDE DEF h
<1>3. /\ Len(g) = Len(h) + Len(w)
      /\ \A i \in 1 .. Len(h) : g[i] = h[i]
      /\ \A i \in 1 .. Len(w) : g[Len(h) + i] = w[i]
  BY <1>1, Concat, Zenon
<1> HIDE DEF g
<1>4. Len(g) = 1 + Len(w) /\ g[1] = c /\ \A i \in 1 .. Len(w) : g[1 + i] = w[i]
  BY <1>1, <1>2, <1>3
<1>5. /\ p \in Nat \ {0} /\ p + Len(g) <= Len(s) + 1
      /\ \A i \in 1 .. Len(g) : s[p + i - 1] = g[i]
  BY DEF Holds, g, h
<1>6. s[p] = c
  <2>1. 1 \in 1 .. Len(g) /\ p + 1 - 1 = p
    BY <1>2, <1>4, <1>5
  <2> QED
    BY <1>4, <1>5, <2>1
<1>7. Holds(s, p + 1, w)
  <2>1. ASSUME NEW i \in 1 .. Len(w) PROVE s[(p + 1) + i - 1] = w[i]
    <3>1. 1 + i \in 1 .. Len(g) /\ p + (1 + i) - 1 = (p + 1) + i - 1
      BY <1>2, <1>4, <1>5
    <3> QED
      BY <1>4, <1>5, <3>1
  <2>2. p + 1 \in Nat \ {0} /\ (p + 1) + Len(w) <= Len(s) + 1
    BY <1>2, <1>4, <1>5
  <2> QED
    BY <2>1, <2>2 DEF Holds
<1> QED
  BY <1>4, <1>5, <1>6, <1>7 DEF g, h

LEMMA ArgumentFacts ==
  ASSUME NEW a \in Argument
  PROVE  /\ a.kind \in {"number", "time", "string", "bytes", "nil", "other"} /\ a.value \in CharSeq
         /\ a = [kind |-> a.kind, value |-> a.value]
         /\ a.kind \in {"number", "time"} => a.value = <<"d">>
         /\ a.kind = "nil" => a.value = <<>>
         /\ a.kind = "string" => a.value # <<"d">>
<1>1. /\ a \in [kind : {"number", "time", "string", "bytes", "nil", "other"}, value : Seq(STRING)]
      /\ a.kind \in {"number", "time"} => a.value = <<"d">>
      /\ a.kind = "nil" => a.value = <<>>
      /\ a.kind = "string" => a.value # <<"d">>
  BY ArgumentAssumption
<1>2. a.value \in Seq(STRING)
  BY <1>1
<1>3. STRING \subseteq Char
  BY DEF Char
<1>4. a.value \in CharSeq
  BY <1>2, <1>3, SeqMonotonic DEF CharSeq
<1>5. a = [kind |-> a.kind, value |-> a.value] /\ a.kind \in {"number", "time", "string", "bytes", "nil", "other"}
  BY <1>1
<1> QED
  BY <1>1, <1>4, <1>5

\* The ways an argument is written.
LEMMA Ways ==
  ASSUME usingQuotes \in BOOLEAN, NEW a \in Argument, a.kind # "other"
  PROVE  \/ a.kind = "number" /\ Written(a) = <<"d">>
         \/ a.kind = "nil" /\ Written(a) = <<"N">>
         \/ /\ a.kind \in {"time", "string"}
            /\ \E e \in [1 .. Len(a.value) -> CharSeq] : Spelled(e, a.value, usingQuotes) /\ InQuotes(Written(a), e)
         \/ /\ a.kind = "bytes"
            /\ \E e \in [1 .. Len(a.value) -> CharSeq], w \in CharSeq :
                 Spelled(e, a.value, usingQuotes) /\ InQuotes(w, e) /\ Written(a) = <<"_">> \o w
<1>1. a.kind \in {"number", "time", "string", "bytes", "nil"} /\ a.value \in CharSeq
  BY ArgumentFacts
<1>2. CASE a.kind = "number"
  BY <1>2 DEF Written, Literal
<1>3. CASE a.kind = "nil"
  BY <1>3 DEF Written
<1>4. CASE a.kind = "time"
  <2>1. a.value = <<"d">>
    BY <1>4, ArgumentFacts
  <2>2. PICK e \in [1 .. Len(<<"d">>) -> CharSeq] : Spelled(e, <<"d">>, usingQuotes) /\ <<"d">> = FlattenSeq(e)
    BY DigitSpells
  <2>3. Written(a) = Quote \o <<"d">> \o Quote
    BY <1>4 DEF Written, Literal
  <2>4. InQuotes(Written(a), e)
    BY <2>2, <2>3, Zenon DEF InQuotes
  <2> QED
    BY <1>4, <2>1, <2>2, <2>4
<1>5. CASE a.kind = "string"
  <2>1. PICK e \in [1 .. Len(a.value) -> CharSeq] : Spelled(e, a.value, usingQuotes) /\ Body(a.value) = FlattenSeq(e)
    BY <1>1, BodySpells
  <2>2. Written(a) = Quote \o Body(a.value) \o Quote
    BY <1>5 DEF Written, Literal, Body
  <2>3. InQuotes(Written(a), e)
    BY <2>1, <2>2, Zenon DEF InQuotes
  <2> QED
    BY <1>5, <2>1, <2>3
<1>6. CASE a.kind = "bytes"
  <2>1. PICK e \in [1 .. Len(a.value) -> CharSeq] : Spelled(e, a.value, usingQuotes) /\ Body(a.value) = FlattenSeq(e)
    BY <1>1, BodySpells
  <2>2. Written(a) = <<"_">> \o Quote \o Body(a.value) \o Quote
    BY <1>6 DEF Written, Literal, Body
  <2> DEFINE w == Quote \o Body(a.value) \o Quote
  <2>3. InQuotes(w, e)
    BY <2>1, Zenon DEF InQuotes
  <2>4. w \in CharSeq
    BY <1>1, <2>3, QuotedText
  <2>5. Written(a) = <<"_">> \o w
    <3>1. "_" \in Char
      BY DEF Char
    <3> DEFINE u == <<"_">>
               b == Body(a.value)
    <3>2. u \in CharSeq /\ Quote \in CharSeq /\ b \in CharSeq
      BY <1>1, <2>1, <3>1, SingleText, QuoteText, FlattenText
    <3> HIDE DEF u, b
    <3>3. Quote \o b \in CharSeq
      BY <3>2, Concat
    <3>4. (u \o Quote) \o b = u \o (Quote \o b)
      <4>1. InAnyOrder(u, Quote, b)
        BY <3>2, Associative
      <4> QED
        BY <4>1, Zenon DEF InAnyOrder
    <3>5. (u \o (Quote \o b)) \o Quote = u \o ((Quote \o b) \o Quote)
      <4> DEFINE h == Quote \o b
      <4>1. h \in CharSeq
        BY <3>3
      <4> HIDE DEF h
      <4>2. (u \o h) \o Quote = u \o (h \o Quote)
        <5>1. InAnyOrder(u, h, Quote)
          BY <3>2, <4>1, Associative
        <5> QED
          BY <5>1, Zenon DEF InAnyOrder
      <4> QED
        BY <4>2 DEF h
    <3>6. Written(a) = ((u \o Quote) \o b) \o Quote
      BY <2>2 DEF u, b
    <3>7. Written(a) = u \o ((Quote \o b) \o Quote)
      BY <3>4, <3>5, <3>6
    <3> QED
      BY <3>7 DEF u, b
  <2> HIDE DEF w
  <2> QED
    BY <1>6, <2>1, <2>3, <2>4, <2>5
<1> QED
  BY <1>1, <1>2, <1>3, <1>4, <1>5, <1>6

LEMMA WrittenText ==
  ASSUME usingQuotes \in BOOLEAN, NEW a \in Argument
  PROVE  Written(a) \in CharSeq
<1>1. CASE a.kind = "other"
  BY <1>1, TextFacts DEF Written
<1>2. CASE a.kind # "other"
  <2>1. "d" \in Char /\ "N" \in Char /\ "_" \in Char
    BY DEF Char
  <2>2. <<"d">> \in CharSeq /\ <<"N">> \in CharSeq /\ <<"_">> \in CharSeq
    BY <2>1, SingleText
  <2>3. a.value \in CharSeq
    BY ArgumentFacts
  <2>4. \A e \in [1 .. Len(a.value) -> CharSeq] : \A w : InQuotes(w, e) => w \in CharSeq
    BY <2>3, QuotedText
  <2>5. \A w \in CharSeq : <<"_">> \o w \in CharSeq
    BY <2>2, Concat
  <2> QED
    BY <1>2, <2>2, <2>4, <2>5, Ways
<1> QED
  BY <1>1, <1>2

\* The server reads an argument back, with its kind, from the text it is written as.
LEMMA ArgumentReads ==
  ASSUME usingQuotes \in BOOLEAN, NEW a \in Argument, a.kind # "other",
         NEW s \in CharSeq, NEW p, Holds(s, p, Written(a)), NotQuoted(s, p + Len(Written(a)))
  PROVE  ReadAs(s, usingQuotes, a, p, p + Len(Written(a)))
<1> DEFINE v == a.value
<1>1. /\ v \in CharSeq /\ a = [kind |-> a.kind, value |-> v]
      /\ a.kind \in {"number", "time"} => v = <<"d">>
      /\ a.kind = "nil" => v = <<>>
      /\ a.kind = "string" => v # <<"d">>
  BY ArgumentFacts
<1> HIDE DEF v
<1>2. CASE a.kind = "number" /\ Written(a) = <<"d">>
  <2>1. a = [kind |-> "number", value |-> <<"d">>]
    BY <1>1, <1>2
  <2> QED
    BY <1>2, <2>1, CharacterReads
<1>3. CASE a.kind = "nil" /\ Written(a) = <<"N">>
  <2>1. a = [kind |-> "nil", value |-> <<>>]
    BY <1>1, <1>3
  <2> QED
    BY <1>3, <2>1, CharacterReads
<1>4. ASSUME a.kind \in {"time", "string"}, NEW e \in [1 .. Len(v) -> CharSeq],
             Spelled(e, v, usingQuotes), InQuotes(Written(a), e)
      PROVE  ReadAs(s, usingQuotes, a, p, p + Len(Written(a)))
  <2>1. a = [kind |-> IF v = <<"d">> THEN "time" ELSE "string", value |-> v]
    BY <1>1, <1>4
  <2>2. Written(a) \in CharSeq
    BY WrittenText
  <2> QED
    BY <1>1, <1>4, <2>1, <2>2, QuotedReads
<1>5. ASSUME a.kind = "bytes", NEW e \in [1 .. Len(v) -> CharSeq], NEW w \in CharSeq,
             Spelled(e, v, usingQuotes), InQuotes(w, e), Written(a) = <<"_">> \o w
      PROVE  ReadAs(s, usingQuotes, a, p, p + Len(Written(a)))
  <2>1. a = [kind |-> "bytes", value |-> v]
    BY <1>1, <1>5
  <2>2. "_" \in Char
    BY DEF Char
  <2>3. /\ p \in Nat \ {0} /\ s[p] = "_" /\ Holds(s, p + 1, w)
        /\ Len(Written(a)) = 1 + Len(w)
    <3>1. Holds(s, p, <<"_">> \o w)
      BY <1>5
    <3>2. /\ p \in Nat \ {0} /\ s[p] = "_" /\ Holds(s, p + 1, w)
          /\ Len(<<"_">> \o w) = 1 + Len(w)
      BY <2>2, <3>1, Behind, Zenon
    <3> QED
      BY <1>5, <3>2, Zenon
  <2>4. IsBinary(s, p)
    BY <2>3 DEF IsBinary
  <2>5. p \in Nat \ {0} /\ Holds(s, p + 1, w) /\ Len(Written(a)) = 1 + Len(w) /\ Len(w) \in Nat
    BY <2>3, TextFacts
  <2>6. p + Len(Written(a)) = p + 1 + Len(w)
    BY <2>5
  <2>7. NotQuoted(s, p + 1 + Len(w))
    BY <2>6
  <2>8. ReadAs(s, usingQuotes, a, p, p + 1 + Len(w))
    BY <1>1, <1>5, <2>1, <2>4, <2>5, <2>7, BytesRead
  <2> QED
    BY <2>6, <2>8
<1>6. \/ a.kind = "number" /\ Written(a) = <<"d">>
      \/ a.kind = "nil" /\ Written(a) = <<"N">>
      \/ /\ a.kind \in {"time", "string"}
         /\ \E e \in [1 .. Len(v) -> CharSeq] : Spelled(e, v, usingQuotes) /\ InQuotes(Written(a), e)
      \/ /\ a.kind = "bytes"
         /\ \E e \in [1 .. Len(v) -> CharSeq], w \in CharSeq :
              Spelled(e, v, usingQuotes) /\ InQuotes(w, e) /\ Written(a) = <<"_">> \o w
  BY Ways DEF v
<1> QED
  BY <1>2, <1>3, <1>4, <1>5, <1>6

\* The same in a where clause, whose values are numbers and strings.
LEMMA WhereReads ==
  ASSUME NEW a \in Argument, a.kind \in {"number", "string"}
  PROVE  /\ WhereValue(a) \in CharSeq
         /\ \A s \in CharSeq : \A p :
              Holds(s, p, WhereValue(a)) /\ NotQuoted(s, p + Len(WhereValue(a))) =>
                ReadAs(s, FALSE, a, p, p + Len(WhereValue(a)))
<1> DEFINE v == a.value
<1>1. /\ v \in CharSeq /\ a = [kind |-> a.kind, value |-> v]
      /\ a.kind \in {"number", "time"} => v = <<"d">>
      /\ a.kind = "string" => v # <<"d">>
  BY ArgumentFacts
<1>2. CASE a.kind = "number"
  <2>1. WhereValue(a) = <<"d">>
    BY <1>2 DEF WhereValue
  <2>2. "d" \in Char
    BY DEF Char
  <2>3. <<"d">> \in CharSeq
    BY <2>2, SingleText
  <2>4. a = [kind |-> "number", value |-> <<"d">>]
    BY <1>1, <1>2
  <2> QED
    BY <2>1, <2>3, <2>4, CharacterReads
<1>3. CASE a.kind = "string"
  <2>1. PICK e \in [1 .. Len(v) -> CharSeq] :
          /\ Spelled(e, v, FALSE)
          /\ FlattenSeq([i \in DOMAIN v |-> IF v[i] \in {"\\", "'"} THEN <<"\\", v[i]>> ELSE <<v[i]>>])
               = FlattenSeq(e)
    BY <1>1, WhereSpell
  <2>2. InQuotes(WhereValue(a), e)
    <3>1. "string" # "number"
      OBVIOUS
    <3>2. WhereValue(a) =
            Quote \o FlattenSeq([i \in DOMAIN v |-> IF v[i] \in {"\\", "'"} THEN <<"\\", v[i]>> ELSE <<v[i]>>])
              \o Quote
      BY <1>3, <3>1, Zenon DEF WhereValue
    <3> QED
      BY <2>1, <3>2, Zenon DEF InQuotes
  <2> HIDE DEF v
  <2>3. WhereValue(a) \in CharSeq
    BY <1>1, <2>2, QuotedText
  <2>4. a = [kind |-> IF v = <<"d">> THEN "time" ELSE "string", value |-> v]
    BY <1>1, <1>3
  <2> QED
    BY <1>1, <2>1, <2>2, <2>3, <2>4, QuotedReads
<1> QED
  BY <1>2, <1>3

\* A text whose pieces are read as c, one by one, is read as c.
LEMMA ReadsPieces ==
  ASSUME NEW R, NEW c \in Seq(R), NEW e \in [1 .. Len(c) -> CharSeq], NEW E, Joins(E, e, Len(c)),
         NEW s, s = E[Len(c)], NEW plain \in BOOLEAN,
         \A k \in 1 .. Len(c) : ReadAs(s, plain, c[k], 1 + Len(E[k - 1]), 1 + Len(E[k]))
  PROVE  ReadBack(s, plain) = c
<1> DEFINE n == Len(c)
           Read(k) == Reading(s, plain)[1 + Len(E[k])] = SubSeq(c, k + 1, n)
           T == {d \in 0 .. n : Read(n - d)}
<1>0. n \in Nat /\ E[n] \in CharSeq /\ E[0] = <<>> /\ Len(E[0]) = 0
  BY TextFacts DEF Joins
<1>1. /\ SubSeq(c, 1, n) = c
      /\ SubSeq(c, n + 1, n) = <<>>
      /\ \A k \in 1 .. n : <<c[k]>> \o SubSeq(c, k + 1, n) = SubSeq(c, k, n)
  BY Rest
<1>2. 0 \in T
  <2>1. s \in CharSeq /\ Len(s) \in Nat /\ s = E[n]
    BY <1>0, TextFacts
  <2>2. 1 + Len(s) \in 1 .. Len(s) + 1 /\ 1 + Len(s) > Len(s)
    BY <2>1
  <2>3. Reading(s, plain)[1 + Len(s)] = ReadingAt(Reading(s, plain), s, ReadLiteral(s, plain), 1 + Len(s))
    BY <2>1, <2>2, ReadingDefined
  <2>4. Reading(s, plain)[1 + Len(s)] = <<>>
    BY <2>2, <2>3 DEF ReadingAt
  <2>5. Read(n)
    BY <1>1, <2>1, <2>4
  <2> HIDE DEF Read
  <2> QED
    BY <1>0, <2>5
<1>3. ASSUME NEW k \in 1 .. n, Read(k) PROVE Read(k - 1)
  <2>1. Reading(s, plain)[1 + Len(E[k - 1])] = <<c[k]>> \o Reading(s, plain)[1 + Len(E[k])]
    BY DEF ReadAs
  <2>2. (k - 1) + 1 = k
    OBVIOUS
  <2> QED
    BY <1>1, <1>3, <2>1, <2>2
<1> HIDE DEF Read
<1>4. ASSUME NEW d \in 0 .. n - 1, d \in T PROVE d + 1 \in T
  <2>1. n - d \in 1 .. n /\ n - (d + 1) = (n - d) - 1
    BY <1>0
  <2>2. Read((n - d) - 1)
    BY <1>3, <1>4, <2>1
  <2>3. Read(n - (d + 1)) /\ d + 1 \in 0 .. n
    BY <1>0, <2>1, <2>2
  <2> QED
    BY <2>3
<1> HIDE DEF T
<1>5. \A d \in 0 .. n : d \in T
  BY <1>0, <1>2, <1>4, Upwards
<1>6. n \in T /\ n - n = 0
  BY <1>0, <1>5
<1>7. Read(0)
  BY <1>6 DEF T
<1> QED
  BY <1>0, <1>1, <1>7 DEF Read, ReadBack

\* The piece e[k] is read as c[k] where it stands.
StatementPiece(c, e, k) == e[k] = <<"t">> /\ c[k] = OfStatement

ArgumentPiece(c, e, k, plain) ==
  /\ k < Len(c) => e[k + 1] = <<"t">>
  /\ \A s \in CharSeq : \A p :
       Holds(s, p, e[k]) /\ NotQuoted(s, p + Len(e[k])) => ReadAs(s, plain, c[k], p, p + Len(e[k]))

LEMMA AllPiecesRead ==
  ASSUME NEW R, NEW c \in Seq(R), NEW e \in [1 .. Len(c) -> CharSeq], NEW E, Joins(E, e, Len(c)),
         NEW plain \in BOOLEAN,
         \A k \in 1 .. Len(c) : StatementPiece(c, e, k) \/ ArgumentPiece(c, e, k, plain)
  PROVE  ReadBack(E[Len(c)], plain) = c
<1> DEFINE n == Len(c)
           s == E[n]
<1>0. n \in Nat /\ s \in CharSeq /\ Len(s) \in Nat /\ \A k \in 0 .. n : E[k] \in CharSeq /\ Len(E[k]) \in Nat
  BY TextFacts DEF Joins
<1>1. Holds(s, 1, E[n])
  BY <1>0 DEF Holds
<1>2. InPlace(s, 1, E, e, n)
  BY <1>0, <1>1, PiecesInPlace
<1>3. \A k \in 1 .. n : Holds(s, 1 + Len(E[k - 1]), e[k]) /\ Len(E[k]) = Len(E[k - 1]) + Len(e[k])
  BY <1>2 DEF InPlace
<1> HIDE DEF s
<1>4. \A i : Holds(s, i, <<"t">>) => s[i] = "t"
  <2>1. "t" \in Char
    BY DEF Char
  <2>2. Len(<<"t">>) = 1 /\ <<"t">>[1] = "t"
    BY <2>1, SingleText
  <2>3. ASSUME NEW i, Holds(s, i, <<"t">>) PROVE s[i] = "t"
    <3>1. i \in Nat /\ s[i + 1 - 1] = "t"
      BY <2>2, <2>3 DEF Holds
    <3>2. i + 1 - 1 = i
      BY <3>1
    <3> QED
      BY <3>1, <3>2
  <2> QED
    BY <2>3
<1>5. ASSUME NEW k \in 1 .. n PROVE ReadAs(s, plain, c[k], 1 + Len(E[k - 1]), 1 + Len(E[k]))
  <2> DEFINE i == 1 + Len(E[k - 1])
             w == e[k]
  <2>1. /\ k - 1 \in 0 .. n /\ Len(E[k - 1]) \in Nat /\ w \in CharSeq /\ Len(w) \in Nat
        /\ Holds(s, i, w) /\ 1 + Len(E[k]) = i + Len(w)
    <3>1. k - 1 \in 0 .. n /\ w \in CharSeq
      BY <1>0
    <3>2. Len(E[k - 1]) \in Nat /\ Len(w) \in Nat
      BY <1>0, <3>1, TextFacts
    <3>3. Holds(s, i, w) /\ Len(E[k]) = Len(E[k - 1]) + Len(w)
      BY <1>3
    <3> QED
      BY <3>1, <3>2, <3>3
  <2>2. CASE StatementPiece(c, e, k)
    <3>1. w = <<"t">> /\ c[k] = OfStatement
      BY <2>2 DEF StatementPiece
    <3> HIDE DEF i, w
    <3>2. Holds(s, i, <<"t">>)
      BY <2>1, <3>1
    <3>3. ReadAs(s, plain, OfStatement, i, i + Len(<<"t">>))
      BY <1>0, <3>2, CharacterReads
    <3>4. ReadAs(s, plain, c[k], i, i + Len(w))
      BY <3>1, <3>3
    <3> QED
      BY <2>1, <3>4 DEF i
  <2>3. CASE ArgumentPiece(c, e, k, plain)
    <3>1. /\ k < Len(c) => e[k + 1] = <<"t">>
          /\ \A r \in CharSeq : \A p :
               Holds(r, p, w) /\ NotQuoted(r, p + Len(w)) => ReadAs(r, plain, c[k], p, p + Len(w))
      BY <2>3 DEF ArgumentPiece
    <3>2. NotQuoted(s, 1 + Len(E[k]))
      <4>1. CASE k = n
        <5>1. Len(E[k]) = Len(s)
          BY <4>1 DEF s
        <5> QED
          BY <1>0, <5>1 DEF NotQuoted
      <4>2. CASE k # n
        <5>1. k + 1 \in 1 .. n /\ (k + 1) - 1 = k /\ k < Len(c)
          BY <1>0, <4>2
        <5>2. Holds(s, 1 + Len(E[(k + 1) - 1]), e[k + 1])
          BY <1>3, <5>1
        <5>3. Holds(s, 1 + Len(E[k]), <<"t">>)
          BY <3>1, <5>1, <5>2
        <5>4. s[1 + Len(E[k])] = "t"
          BY <1>4, <5>3
        <5> QED
          BY <5>4 DEF NotQuoted
      <4> QED
        BY <4>1, <4>2
    <3> HIDE DEF i, w
    <3>3. NotQuoted(s, i + Len(w))
      BY <2>1, <3>2
    <3>4. ReadAs(s, plain, c[k], i, i + Len(w))
      BY <1>0, <2>1, <3>1, <3>3
    <3> QED
      BY <2>1, <3>4 DEF i
  <2> QED
    BY <2>2, <2>3
<1>6. s = E[Len(c)]
  BY DEF s
<1>7. ReadBack(s, plain) = c
  BY <1>5, <1>6, ReadsPieces
<1> QED
  BY <1>6, <1>7

-----------------------------------------------------------------------------
(* GetBuiltSQL: what it has built at its place in the query.               *)

CountTo(q, i) == Cardinality({j \in Placeholders(q) : j <= i})

Pieces == [i \in 1 .. Len(query) |->
             IF query[i] = "?" THEN Written(args[CountTo(query, i)]) ELSE <<"t">>]

LEMMA QueryFacts ==
  ASSUME NEW q \in Query
  PROVE  /\ q \in CharSeq /\ Len(q) \in Nat /\ DOMAIN q = 1 .. Len(q)
         /\ \A i \in 1 .. Len(q) : q[i] \in {"t", "?"}
         /\ \A i \in 1 .. Len(q) - 1 : q[i] = "t" \/ q[i + 1] = "t"
<1>1. q \in Seq({"t", "?"}) /\ \A i \in 1 .. Len(q) - 1 : q[i] = "t" \/ q[i + 1] = "t"
  BY QueryAssumption
<1>2. {"t", "?"} \subseteq Char
  BY DEF Char
<1>3. q \in CharSeq
  BY <1>1, <1>2, SeqMonotonic DEF CharSeq
<1> QED
  BY <1>1, <1>3

LEMMA Counting ==
  ASSUME NEW q \in Query
  PROVE  /\ IsFiniteSet(Placeholders(q)) /\ Cardinality(Placeholders(q)) \in Nat
         /\ CountTo(q, 0) = 0
         /\ \A i \in 1 .. Len(q) : q[i] = "?" => CountTo(q, i) \in 1 .. Cardinality(Placeholders(q))
         /\ \A a, m \in 1 .. Len(q) :
              /\ q[m] = "?" /\ a <= m /\ \A i \in a .. m - 1 : q[i] # "?"
              => CountTo(q, m) = CountTo(q, a - 1) + 1
         /\ \A a \in 1 .. Len(q) : (\A i \in a .. Len(q) : q[i] # "?") =>
              CountTo(q, Len(q)) = CountTo(q, a - 1)
<1> DEFINE S == Placeholders(q)
           To(i) == {j \in S : j <= i}
<1>1. S = {i \in 1 .. Len(q) : q[i] = "?"} /\ Len(q) \in Nat /\ S \subseteq 1 .. Len(q)
  BY QueryFacts DEF Placeholders
<1>2. IsFiniteSet(1 .. Len(q))
  BY <1>1, FS_Interval
<1>3. IsFiniteSet(S) /\ Cardinality(S) \in Nat
  BY <1>1, <1>2, FS_Subset, FS_CardinalityType
<1> HIDE DEF S
<1>4. \A i : IsFiniteSet(To(i)) /\ Cardinality(To(i)) \in Nat /\ Cardinality(To(i)) <= Cardinality(S)
  <2> SUFFICES ASSUME NEW i
               PROVE  IsFiniteSet(To(i)) /\ Cardinality(To(i)) \in Nat /\ Cardinality(To(i)) <= Cardinality(S)
    OBVIOUS
  <2>1. To(i) \subseteq S
    OBVIOUS
  <2> HIDE DEF To
  <2> QED
    BY <1>3, <2>1, FS_Subset, FS_CardinalityType
<1>5. Cardinality(To(0)) = 0
  <2>1. To(0) = {}
    BY <1>1
  <2> QED
    BY <2>1, FS_EmptySet
<1>6. ASSUME NEW i \in 1 .. Len(q), q[i] = "?" PROVE Cardinality(To(i)) \in 1 .. Cardinality(S)
  <2>1. To(i) # {}
    BY <1>1, <1>6
  <2> HIDE DEF To
  <2>2. Cardinality(To(i)) # 0
    BY <1>4, <2>1, FS_EmptySet
  <2> QED
    BY <1>3, <1>4, <2>2
<1>7. ASSUME NEW a \in 1 .. Len(q), NEW m \in 1 .. Len(q),
             q[m] = "?", a <= m, \A i \in a .. m - 1 : q[i] # "?"
      PROVE  Cardinality(To(m)) = Cardinality(To(a - 1)) + 1
  <2>1. To(m) = To(a - 1) \cup {m} /\ m \notin To(a - 1)
    BY <1>1, <1>7
  <2> HIDE DEF To
  <2> QED
    BY <1>4, <2>1, FS_AddElement
<1>8. ASSUME NEW a \in 1 .. Len(q), \A i \in a .. Len(q) : q[i] # "?"
      PROVE  Cardinality(To(Len(q))) = Cardinality(To(a - 1))
  <2>1. To(Len(q)) = To(a - 1)
    BY <1>1, <1>8
  <2> QED
    BY <2>1
<1>9. \A i : CountTo(q, i) = Cardinality(To(i))
  BY DEF CountTo, S
<1> HIDE DEF To
<1> QED
  BY <1>3, <1>5, <1>6, <1>7, <1>8, <1>9 DEF S

Continues(P, q, a, b) == P[b] = P[a - 1] \o SubSeq(q, a, b)

\* The pieces of the statement between two arguments are the statement itself.
LEMMA StatementRun ==
  ASSUME NEW q \in CharSeq, NEW e \in [1 .. Len(q) -> CharSeq], NEW P, Joins(P, e, Len(q)),
         NEW a \in 1 .. Len(q) + 1, NEW b \in a - 1 .. Len(q),
         \A i \in a .. b : q[i] = "t" /\ e[i] = <<"t">>
  PROVE  Continues(P, q, a, b)
<1> DEFINE T == {d \in 0 .. b - (a - 1) : P[(a - 1) + d] = P[a - 1] \o SubSeq(q, a, (a - 1) + d)}
<1>0. /\ Len(q) \in Nat /\ a \in Nat /\ b \in Nat /\ b - (a - 1) \in Nat /\ b <= Len(q) /\ a >= 1
      /\ a - 1 \in 0 .. Len(q) /\ P[a - 1] \in CharSeq
  BY TextFacts DEF Joins
<1>1. \A m \in a - 1 .. Len(q) - 1 :
        /\ SubSeq(q, a, m) \in CharSeq
        /\ SubSeq(q, a, m + 1) = SubSeq(q, a, m) \o <<q[m + 1]>>
  BY <1>0 DEF CharSeq
<1>2. 0 \in T
  <2>1. SubSeq(q, a, a - 1) = <<>> /\ (a - 1) + 0 = a - 1
    BY <1>0 DEF CharSeq
  <2>2. P[a - 1] \o <<>> = P[a - 1]
    BY <1>0 DEF CharSeq
  <2>3. P[(a - 1) + 0] = P[a - 1] \o SubSeq(q, a, (a - 1) + 0)
    BY <2>1, <2>2
  <2>4. 0 \in 0 .. b - (a - 1)
    BY <1>0
  <2> QED
    BY <2>3, <2>4
<1>3. ASSUME NEW d \in 0 .. (b - (a - 1)) - 1, d \in T PROVE d + 1 \in T
  <2> DEFINE m == (a - 1) + d
  <2>1. m \in a - 1 .. Len(q) - 1 /\ m + 1 \in a .. b /\ (a - 1) + (d + 1) = m + 1 /\ m + 1 \in 1 .. Len(q)
        /\ (m + 1) - 1 = m
    BY <1>0
  <2>2. P[m] = P[a - 1] \o SubSeq(q, a, m)
    BY <1>3
  <2> HIDE DEF m
  <2>3. P[m + 1] = P[m] \o <<"t">>
    <3>1. Joined(P, e, m + 1) /\ e[m + 1] = <<"t">>
      BY <2>1 DEF Joins
    <3> QED
      BY <2>1, <3>1 DEF Joined
  <2>4. SubSeq(q, a, m) \in CharSeq /\ SubSeq(q, a, m + 1) = SubSeq(q, a, m) \o <<"t">>
    BY <1>1, <2>1
  <2>5. <<"t">> \in CharSeq
    <3>1. "t" \in Char
      BY DEF Char
    <3> QED
      BY <3>1, SingleText
  <2>6. P[m + 1] = P[a - 1] \o SubSeq(q, a, m + 1)
    <3> DEFINE A == P[a - 1]
               S == SubSeq(q, a, m)
               u == <<"t">>
    <3>1. A \in CharSeq /\ S \in CharSeq /\ u \in CharSeq
      BY <1>0, <2>4, <2>5
    <3> HIDE DEF A, S, u
    <3>2. (A \o S) \o u = A \o (S \o u)
      <4>1. InAnyOrder(A, S, u)
        BY <3>1, Associative
      <4> QED
        BY <4>1, Zenon DEF InAnyOrder
    <3>3. P[m + 1] = (A \o S) \o u /\ SubSeq(q, a, m + 1) = S \o u
      BY <2>2, <2>3, <2>4 DEF A, S, u
    <3> QED
      BY <3>2, <3>3 DEF A
  <2>7. P[(a - 1) + (d + 1)] = P[a - 1] \o SubSeq(q, a, (a - 1) + (d + 1))
    BY <2>1, <2>6
  <2>8. d + 1 \in 0 .. b - (a - 1)
    BY <1>0
  <2> QED
    BY <2>7, <2>8
<1> HIDE DEF T
<1>4. \A d \in 0 .. b - (a - 1) : d \in T
  BY <1>0, <1>2, <1>3, Upwards
<1>5. b - (a - 1) \in T /\ (a - 1) + (b - (a - 1)) = b
  BY <1>0, <1>4
<1> QED
  BY <1>5 DEF T, Continues

\* What has been asked for, once it has been let in.
Asked ==
  /\ query \in Query /\ args \in Seq(Argument)
  /\ Cardinality(Placeholders(query)) = Len(args)

\* The text so far is that of the pieces before the place, each of them an argument that
\* can be written or a character of the statement.
Building ==
  /\ Asked
  /\ at \in 1 .. Len(query) + 1
  /\ argPos = CountTo(query, at - 1) + 1
  /\ \A i \in 1 .. at - 1 : query[i] = "?" => args[CountTo(query, i)].kind # "other"
  /\ \E P : Joins(P, Pieces, Len(query)) /\ buf = P[at - 1]

WherePieces == [i \in 1 .. 2 * Len(args) + 1 |-> IF i % 2 = 1 THEN <<"t">> ELSE WhereValue(args[i \div 2])]

TextInv ==
  /\ usingQuotes \in BOOLEAN
  /\ outcome = "none" => at = 1 /\ argPos = 1 /\ buf = <<>>
  /\ outcome \in {"building", "ok"} => Building
  /\ outcome = "ok" => at = Len(query) + 1
  /\ outcome = "where" => /\ args \in Seq(Argument)
                          /\ \A i \in 1 .. Len(args) : args[i].kind \in {"number", "string"}
                          /\ args # <<>> => buf = FlattenSeq(WherePieces)

LEMMA PiecesFacts ==
  ASSUME usingQuotes \in BOOLEAN, Asked
  PROVE  /\ Pieces \in [1 .. Len(query) -> CharSeq]
         /\ \A i \in 1 .. Len(query) :
              IF query[i] = "?" THEN /\ args[CountTo(query, i)] \in Argument
                                     /\ Pieces[i] = Written(args[CountTo(query, i)])
              ELSE query[i] = "t" /\ Pieces[i] = <<"t">>
<1>1. ASSUME NEW i \in 1 .. Len(query), query[i] = "?"
      PROVE  args[CountTo(query, i)] \in Argument /\ Written(args[CountTo(query, i)]) \in CharSeq
  <2>1. args[CountTo(query, i)] \in Argument
    <3>1. CountTo(query, i) \in 1 .. Len(args)
      BY <1>1, Counting DEF Asked
    <3> QED
      BY <3>1 DEF Asked
  <2> QED
    BY <2>1, WrittenText
<1>2. <<"t">> \in CharSeq
  <2>1. "t" \in Char
    BY DEF Char
  <2> QED
    BY <2>1, SingleText
<1>3. \A i \in 1 .. Len(query) : query[i] = "?" \/ query[i] = "t"
  BY QueryFacts DEF Asked
<1>4. \A i \in 1 .. Len(query) : Pieces[i] = IF query[i] = "?" THEN Written(args[CountTo(query, i)]) ELSE <<"t">>
  BY DEF Pieces
<1>5. Pieces \in [1 .. Len(query) -> CharSeq]
  BY <1>1, <1>2 DEF Pieces
<1> QED
  BY <1>1, <1>3, <1>4, <1>5

LEMMA BuiltReads ==
  ASSUME TextInv
  PROVE  BuiltReadsBack
<1> SUFFICES ASSUME outcome = "ok" PROVE ReadBack(buf, usingQuotes) = Meant
  BY DEF BuiltReadsBack
<1> DEFINE n == Len(query)
           R == Argument \cup {OfStatement}
<1>1. usingQuotes \in BOOLEAN /\ Asked /\ at = n + 1
  BY DEF TextInv, Building
<1>2. n \in Nat /\ DOMAIN query = 1 .. n
  BY <1>1, QueryFacts DEF Asked
<1>3. PICK P : Joins(P, Pieces, n) /\ buf = P[n]
  <2>1. (n + 1) - 1 = n
    BY <1>2
  <2> QED
    BY <1>1, <2>1 DEF TextInv, Building
<1>4. \A i \in 1 .. n : query[i] = "?" => args[CountTo(query, i)].kind # "other"
  <2>1. (n + 1) - 1 = n
    BY <1>2
  <2> QED
    BY <1>1, <2>1 DEF TextInv, Building
<1> DEFINE c == [i \in 1 .. n |-> IF query[i] = "?" THEN args[CountTo(query, i)] ELSE OfStatement]
<1>5. c = Meant
  BY <1>2 DEF Meant, CountTo
<1>6. c \in Seq(R) /\ Len(c) = n
  <2>1. \A i \in 1 .. n : c[i] \in R
    BY <1>1, PiecesFacts
  <2>2. c \in [1 .. n -> R]
    BY <2>1
  <2> HIDE DEF c, n
  <2> QED
    BY <1>2, <2>2
<1>7. ASSUME NEW k \in 1 .. Len(c)
      PROVE  StatementPiece(c, Pieces, k) \/ ArgumentPiece(c, Pieces, k, usingQuotes)
  <2>0. k \in 1 .. n /\ c[k] = IF query[k] = "?" THEN args[CountTo(query, k)] ELSE OfStatement
    BY <1>6
  <2> HIDE DEF c, n
  <2>1. CASE query[k] = "?"
    <3> DEFINE a == args[CountTo(query, k)]
    <3>1. a \in Argument /\ Pieces[k] = Written(a) /\ c[k] = a /\ a.kind # "other"
      BY <1>1, <1>4, <2>0, <2>1, PiecesFacts DEF n
    <3>2. k < Len(c) => Pieces[k + 1] = <<"t">>
      <4> SUFFICES ASSUME k < Len(c) PROVE Pieces[k + 1] = <<"t">>
        OBVIOUS
      <4>1. k \in 1 .. n - 1 /\ k + 1 \in 1 .. n
        BY <1>2, <1>6, <2>0
      <4>2. query[k + 1] = "t"
        BY <1>1, <2>1, <4>1, QueryFacts DEF Asked, n
      <4> QED
        BY <1>1, <4>1, <4>2, PiecesFacts DEF n
    <3> HIDE DEF a
    <3>3. \A s \in CharSeq : \A p :
            Holds(s, p, Written(a)) /\ NotQuoted(s, p + Len(Written(a))) =>
              ReadAs(s, usingQuotes, a, p, p + Len(Written(a)))
      BY <1>1, <3>1, ArgumentReads
    <3> QED
      BY <3>1, <3>2, <3>3 DEF ArgumentPiece
  <2>2. CASE query[k] # "?"
    BY <1>1, <2>0, <2>2, PiecesFacts DEF StatementPiece, n
  <2> QED
    BY <2>1, <2>2
<1>8. Pieces \in [1 .. Len(c) -> CharSeq] /\ Joins(P, Pieces, Len(c))
  BY <1>1, <1>3, <1>6, PiecesFacts
<1> HIDE DEF c, R
<1>9. ReadBack(P[Len(c)], usingQuotes) = c
  BY <1>1, <1>6, <1>7, <1>8, AllPiecesRead
<1> QED
  BY <1>3, <1>5, <1>6, <1>9

LEMMA WhereReadsWhole ==
  ASSUME TextInv
  PROVE  WhereReadsBack
<1> DEFINE n == 2 * Len(args) + 1
           R == Argument \cup {OfStatement}
           c == [i \in 1 .. n |-> IF i % 2 = 1 THEN OfStatement ELSE args[i \div 2]]
<1> SUFFICES ASSUME outcome = "where", args # <<>> PROVE ReadBack(buf, FALSE) = c
  BY DEF WhereReadsBack
<1>1. /\ args \in Seq(Argument) /\ Len(args) \in Nat /\ n \in Nat
      /\ \A i \in 1 .. Len(args) : args[i] \in Argument /\ args[i].kind \in {"number", "string"}
      /\ buf = FlattenSeq(WherePieces)
  BY DEF TextInv
<1>2. \A i \in 1 .. n : i % 2 = 1 \/ i \div 2 \in 1 .. Len(args)
  BY <1>1
<1>3. <<"t">> \in CharSeq
  <2>1. "t" \in Char
    BY DEF Char
  <2> QED
    BY <2>1, SingleText
<1>4. \A a \in Argument : a.kind \in {"number", "string"} => WhereValue(a) \in CharSeq
  BY WhereReads
<1>5. \A i \in 1 .. n : WherePieces[i] = IF i % 2 = 1 THEN <<"t">> ELSE WhereValue(args[i \div 2])
  BY DEF WherePieces
<1>6. WherePieces \in [1 .. n -> CharSeq]
  <2>1. \A i \in 1 .. n : WherePieces[i] \in CharSeq
    BY <1>1, <1>2, <1>3, <1>4, <1>5
  <2> QED
    BY <2>1 DEF WherePieces
<1>7. c \in Seq(R) /\ Len(c) = n
  <2>1. \A i \in 1 .. n : c[i] \in R
    BY <1>1, <1>2
  <2>2. c \in [1 .. n -> R]
    BY <2>1
  <2> HIDE DEF c, n
  <2> QED
    BY <1>1, <2>2
<1>8. ASSUME NEW k \in 1 .. Len(c)
      PROVE  StatementPiece(c, WherePieces, k) \/ ArgumentPiece(c, WherePieces, k, FALSE)
  <2>0. k \in 1 .. n /\ c[k] = IF k % 2 = 1 THEN OfStatement ELSE args[k \div 2]
    BY <1>7
  <2>1. k \in Nat /\ k < n => (k % 2 = 1 \/ (k + 1) % 2 = 1) /\ k + 1 \in 1 .. n
    BY <1>1, <2>0
  <2> HIDE DEF c, n
  <2>2. CASE k % 2 = 1
    BY <1>5, <2>0, <2>2 DEF StatementPiece
  <2>3. CASE k % 2 # 1
    <3> DEFINE a == args[k \div 2]
    <3>1. a \in Argument /\ a.kind \in {"number", "string"} /\ WherePieces[k] = WhereValue(a) /\ c[k] = a
      BY <1>1, <1>2, <1>5, <2>0, <2>3
    <3>2. k < Len(c) => WherePieces[k + 1] = <<"t">>
      <4> SUFFICES ASSUME k < Len(c) PROVE WherePieces[k + 1] = <<"t">>
        OBVIOUS
      <4>1. k \in Nat /\ k < n
        BY <1>1, <1>7, <2>0
      <4>2. (k + 1) % 2 = 1 /\ k + 1 \in 1 .. n
        BY <2>1, <2>3, <4>1
      <4> QED
        BY <1>5, <4>2, Zenon
    <3> HIDE DEF a
    <3>3. \A s \in CharSeq : \A p :
            Holds(s, p, WhereValue(a)) /\ NotQuoted(s, p + Len(WhereValue(a))) =>
              ReadAs(s, FALSE, a, p, p + Len(WhereValue(a)))
      BY <3>1, WhereReads
    <3> QED
      BY <3>1, <3>2, <3>3 DEF ArgumentPiece
  <2> QED
    BY <2>2, <2>3
<1> HIDE DEF n
<1>9. PICK E : Joins(E, WherePieces, n)
  BY <1>1, <1>6, JoinsExist
<1>10. FlattenSeq(WherePieces) = E[n]
  BY <1>1, <1>6, <1>9, FlattenJoins
<1>11. WherePieces \in [1 .. Len(c) -> CharSeq] /\ Joins(E, WherePieces, Len(c))
  BY <1>6, <1>7, <1>9
<1> HIDE DEF c, R
<1>12. ReadBack(E[Len(c)], FALSE) = c
  BY <1>7, <1>8, <1>11, AllPiecesRead
<1> QED
  BY <1>1, <1>7, <1>10, <1>12

-----------------------------------------------------------------------------
(* Each step of SqlText keeps it.                                          *)

LEMMA BoundedArguments ==
  ASSUME NEW s \in BoundedSeq(Argument, MaxArgs)
  PROVE  s \in Seq(Argument)
BY MaxArgsAssumption DEF BoundedSeq, SeqOf

LEMMA SamePieces ==
  ASSUME UNCHANGED <<usingQuotes, query, args>>
  PROVE  Pieces' = Pieces /\ WherePieces' = WherePieces /\ (Asked => Asked')
<1>1. usingQuotes' = usingQuotes /\ query' = query /\ args' = args
  OBVIOUS
<1>2. \A a : Literal(a)' = Literal(a)
  BY <1>1 DEF Literal
<1>3. \A a : Written(a)' = Written(a)
  BY <1>2 DEF Written
<1>4. Pieces' = Pieces
  BY <1>1, <1>3 DEF Pieces
<1> QED
  BY <1>1, <1>4 DEF WherePieces, Asked

LEMMA BeginKeeps ==
  ASSUME TextInv, Begin
  PROVE  TextInv'
<1>1. /\ outcome = "none" /\ usingQuotes' \in BOOLEAN /\ query' \in Query
      /\ at' = at /\ argPos' = argPos /\ buf' = buf
      /\ args' \in Seq(Argument)
      /\ outcome' = IF Cardinality(Placeholders(query')) = Len(args') THEN "building" ELSE "error"
  BY BoundedArguments DEF Begin
<1>2. at' = 1 /\ argPos' = 1 /\ buf' = <<>>
  BY <1>1 DEF TextInv
<1>3. CASE outcome' = "error"
  BY <1>1, <1>3 DEF TextInv
<1>4. CASE outcome' = "building"
  <2>1. Asked'
    BY <1>1, <1>4 DEF Asked
  <2>2. Len(query') \in Nat
    BY <1>1, QueryFacts
  <2>3. (1 - 1) = 0 /\ 1 \in 1 .. Len(query') + 1
    BY <2>2
  <2>4. CountTo(query', 0) = 0
    BY <1>1, Counting
  <2>5. Pieces' \in [1 .. Len(query') -> CharSeq]
    <3>1. (usingQuotes \in BOOLEAN /\ Asked => Pieces \in [1 .. Len(query) -> CharSeq])'
      BY PiecesFacts, PTL
    <3> QED
      BY <1>1, <2>1, <3>1
  <2>6. PICK P : Joins(P, Pieces', Len(query'))
    BY <2>2, <2>5, JoinsExist
  <2>7. P[0] = <<>>
    BY <2>6 DEF Joins
  <2>8. Building'
    <3>1. at' - 1 = 0
      BY <1>2
    <3> QED
      BY <1>2, <2>1, <2>3, <2>4, <2>6, <2>7, <3>1 DEF Building
  <2> QED
    BY <1>1, <1>4, <2>8 DEF TextInv
<1> QED
  BY <1>1, <1>3, <1>4

LEMMA TurnKeeps ==
  ASSUME TextInv, Turn
  PROVE  TextInv'
<1> DEFINE n == Len(query)
           rest == {i \in Placeholders(query) : i >= at}
<1>1. /\ outcome = "building" /\ at <= n
      /\ usingQuotes' = usingQuotes /\ query' = query /\ args' = args
  BY DEF Turn
<1>2. usingQuotes \in BOOLEAN /\ Building
  BY <1>1 DEF TextInv
<1>3. /\ Asked /\ n \in Nat /\ at \in 1 .. n /\ argPos = CountTo(query, at - 1) + 1
      /\ \A i \in 1 .. at - 1 : query[i] = "?" => args[CountTo(query, i)].kind # "other"
      /\ query \in CharSeq /\ query \in Query
      /\ \A i \in 1 .. n : query[i] \in {"t", "?"}
      /\ Placeholders(query) = {i \in 1 .. n : query[i] = "?"}
  BY <1>1, <1>2, QueryFacts DEF Building, Asked, Placeholders
<1>4. PICK P : Joins(P, Pieces, n) /\ buf = P[at - 1]
  BY <1>2 DEF Building
<1>5. /\ Pieces \in [1 .. n -> CharSeq]
      /\ \A i \in 1 .. n :
           IF query[i] = "?" THEN /\ args[CountTo(query, i)] \in Argument
                                  /\ Pieces[i] = Written(args[CountTo(query, i)])
           ELSE query[i] = "t" /\ Pieces[i] = <<"t">>
  BY <1>2, <1>3, PiecesFacts
<1>6. Asked' /\ Pieces' = Pieces
  BY <1>1, <1>3, SamePieces
<1>7. ASSUME NEW b \in at - 1 .. n, \A i \in at .. b : query[i] # "?"
      PROVE  P[b] = buf \o SubSeq(query, at, b)
  <2>1. \A i \in at .. b : query[i] = "t" /\ Pieces[i] = <<"t">>
    BY <1>3, <1>5, <1>7
  <2>2. at \in 1 .. n + 1
    BY <1>3
  <2>3. Continues(P, query, at, b)
    BY <1>3, <1>4, <1>5, <2>1, <2>2, StatementRun
  <2> QED
    BY <1>4, <2>3 DEF Continues
<1>8. ASSUME at' \in 1 .. n + 1, argPos' = CountTo(query, at' - 1) + 1, buf' = P[at' - 1],
             \A i \in at .. at' - 1 : query[i] = "?" => args[CountTo(query, i)].kind # "other",
             outcome' = "building"
      PROVE  TextInv'
  <2>1. \A i \in 1 .. at' - 1 : query[i] = "?" => args[CountTo(query, i)].kind # "other"
    <3>1. ASSUME NEW i \in 1 .. at' - 1 PROVE i \in 1 .. at - 1 \/ i \in at .. at' - 1
      <4> DEFINE b == at' - 1
      <4>1. at \in Nat /\ b \in Int /\ i \in 1 .. b
        <5>1. n \in Nat /\ at \in 1 .. n
          BY <1>3
        <5>2. at' \in 1 .. n + 1
          BY <1>8
        <5> HIDE DEF n
        <5>3. at \in Nat /\ at' - 1 \in Int
          BY <5>1, <5>2
        <5> QED
          BY <5>3
      <4> HIDE DEF b
      <4>2. i \in 1 .. at - 1 \/ i \in at .. b
        BY <4>1
      <4> QED
        BY <4>2 DEF b
    <3> QED
      BY <1>3, <1>8, <3>1
  <2>2. Building'
    <3>1. at' \in 1 .. Len(query') + 1 /\ argPos' = CountTo(query', at' - 1) + 1
      BY <1>1, <1>8
    <3>2. \A i \in 1 .. at' - 1 : query'[i] = "?" => args'[CountTo(query', i)].kind # "other"
      BY <1>1, <2>1
    <3>3. Joins(P, Pieces', Len(query')) /\ buf' = P[at' - 1]
      BY <1>1, <1>4, <1>6, <1>8
    <3> QED
      BY <1>6, <3>1, <3>2, <3>3 DEF Building
  <2> QED
    BY <1>1, <1>2, <1>8, <2>2 DEF TextInv
<1>9. CASE rest = {}
  <2>1. /\ buf' = buf \o SubSeq(query, at, n) /\ at' = n + 1
        /\ argPos' = argPos /\ outcome' = outcome
    BY <1>9 DEF Turn
  <2>2. \A i \in at .. n : query[i] # "?"
    BY <1>3, <1>9
  <2>3. P[n] = buf \o SubSeq(query, at, n)
    <3>1. n \in at - 1 .. n
      BY <1>3
    <3> QED
      BY <1>7, <2>2, <3>1
  <2>4. CountTo(query, n) = CountTo(query, at - 1)
    BY <1>3, <2>2, Counting
  <2>5. at' - 1 = n /\ at' \in 1 .. n + 1
    BY <1>3, <2>1
  <2> HIDE DEF n
  <2> QED
    BY <1>1, <1>3, <1>8, <2>1, <2>2, <2>3, <2>4, <2>5
<1>10. CASE rest # {}
  <2> DEFINE q == Min(rest)
             a == args[argPos]
             text == buf \o SubSeq(query, at, q - 1)
  <2>1. q \in rest /\ \A i \in rest : q <= i
    <3>1. rest \subseteq Nat
      BY <1>3
    <3> HIDE DEF rest
    <3>2. \E i \in rest : \A j \in rest : i <= j
      BY <1>10, <3>1, LeastNatural
    <3> QED
      BY <3>2 DEF Min
  <2>2. /\ at' = q + 1 /\ argPos' = argPos + 1
        /\ IF a.kind = "other" THEN buf' = text
           ELSE buf' = text \o IF a.kind = "nil" THEN <<"N">> ELSE Literal(a)
        /\ outcome' = IF \/ a.kind = "other"
                         \/ a.kind # "nil" /\ Len(buf') + 4 > MaxAllowedPacket
                      THEN "error" ELSE outcome
    BY <1>10 DEF Turn
  <2> HIDE DEF q, a, text
  <2>3. q \in at .. n /\ q \in 1 .. n /\ query[q] = "?" /\ \A i \in at .. q - 1 : query[i] # "?"
    <3>1. q \in 1 .. n /\ query[q] = "?" /\ q >= at
      BY <1>3, <2>1
    <3>2. ASSUME NEW i \in at .. q - 1 PROVE query[i] # "?"
      <4>1. i \in 1 .. n /\ i >= at /\ ~(q <= i)
        BY <1>3, <3>1
      <4>2. i \notin rest
        BY <2>1, <4>1
      <4> QED
        BY <1>3, <4>1, <4>2
    <3> QED
      BY <1>3, <3>1, <3>2
  <2>4. CASE outcome' = "error"
    BY <1>1, <1>2, <2>4 DEF TextInv
  <2>5. CASE outcome' # "error"
    <3>1. a.kind # "other" /\ outcome' = "building"
      BY <1>1, <2>2, <2>5
    <3>2. CountTo(query, q) = CountTo(query, at - 1) + 1
      BY <1>3, <2>3, Counting
    <3>3. a = args[CountTo(query, q)] /\ CountTo(query, q) \in Nat
      <4>1. CountTo(query, q) \in Nat
        BY <1>3, <2>3, Counting
      <4> QED
        BY <1>3, <3>2, <4>1 DEF a
    <3>4. Pieces[q] = Written(a)
      BY <1>5, <2>3, <3>3
    <3>5. buf' = text \o Written(a)
      BY <2>2, <3>1 DEF Written
    <3>6. text = P[q - 1]
      <4>1. q - 1 \in at - 1 .. n
        BY <1>3, <2>3
      <4>2. P[q - 1] = buf \o SubSeq(query, at, q - 1)
        BY <1>7, <2>3, <4>1
      <4> QED
        BY <4>2 DEF text
    <3>7. buf' = P[q]
      <4>1. Joined(P, Pieces, q)
        BY <1>4, <2>3 DEF Joins
      <4> QED
        BY <3>4, <3>5, <3>6, <4>1 DEF Joined
    <3>8. at' - 1 = q /\ at' \in 1 .. n + 1
      BY <1>3, <2>2, <2>3
    <3>9. argPos' = CountTo(query, q) + 1
      BY <1>3, <2>2, <3>2
    <3>10. \A i \in at .. q : query[i] = "?" => args[CountTo(query, i)].kind # "other"
      <4>1. \A i \in at .. q : i = q \/ i \in at .. q - 1
        BY <1>3, <2>3
      <4> QED
        BY <2>3, <3>1, <3>3, <4>1
    <3> QED
      BY <1>8, <3>1, <3>7, <3>8, <3>9, <3>10
  <2> QED
    BY <2>4, <2>5
<1> QED
  BY <1>9, <1>10

LEMMA WhereKeeps ==
  ASSUME TextInv, GetWhereClause
  PROVE  TextInv'
<1>1. /\ outcome' = "where" /\ usingQuotes' = usingQuotes
      /\ args' \in BoundedSeq(Argument, MaxArgs)
      /\ \A i \in DOMAIN args' : args'[i].kind \in {"number", "string"}
      /\ buf' = IF args' = <<>> THEN <<>>
                ELSE FlattenSeq([i \in 1 .. 2 * Len(args') + 1 |->
                                   IF i % 2 = 1 THEN <<"t">> ELSE WhereValue(args'[i \div 2])])
  BY DEF GetWhereClause
<1>2. args' \in Seq(Argument)
  BY <1>1, BoundedArguments
<1>3. \A i \in 1 .. Len(args') : args'[i].kind \in {"number", "string"}
  BY <1>1, <1>2
<1>4. args' # <<>> => buf' = FlattenSeq(WherePieces')
  BY <1>1, Zenon DEF WherePieces
<1>5. usingQuotes' \in BOOLEAN
  BY <1>1 DEF TextInv
<1> QED
  BY <1>1, <1>2, <1>3, <1>4, <1>5 DEF TextInv

LEMMA TextInvInduction == SqlSpec => []TextInv
<1>1. SqlInit => TextInv
  BY DEF SqlInit, TextInv
<1>2. TextInv /\ [SqlNext]_sqlVars => TextInv'
  <2> SUFFICES ASSUME TextInv, [SqlNext]_sqlVars PROVE TextInv'
    OBVIOUS
  <2>1. CASE Built
    <3>1. /\ outcome = "building" /\ at > Len(query) /\ outcome' = "ok"
          /\ usingQuotes' = usingQuotes /\ query' = query /\ args' = args
          /\ at' = at /\ argPos' = argPos /\ buf' = buf
      BY <2>1 DEF Built
    <3>2. Building /\ usingQuotes \in BOOLEAN
      BY <3>1 DEF TextInv
    <3>3. at = Len(query) + 1
      <4>1. at \in 1 .. Len(query) + 1 /\ Len(query) \in Nat
        BY <3>2, QueryFacts DEF Building, Asked
      <4> QED
        BY <3>1, <4>1
    <3>4. Building'
      BY <3>1, <3>2, SamePieces DEF Building
    <3> QED
      BY <3>1, <3>2, <3>3, <3>4 DEF TextInv
  <2>2. CASE Again
    BY <2>2 DEF Again, TextInv
  <2>3. CASE UNCHANGED sqlVars
    <3>1. /\ usingQuotes' = usingQuotes /\ query' = query /\ args' = args
          /\ at' = at /\ argPos' = argPos /\ buf' = buf /\ outcome' = outcome
      BY <2>3 DEF sqlVars
    <3>2. Building => Building'
      BY <3>1, SamePieces DEF Building
    <3> QED
      BY <3>1, <3>2, SamePieces DEF TextInv
  <2> QED
    BY <2>1, <2>2, <2>3, BeginKeeps, TurnKeeps, WhereKeeps DEF SqlNext
<1> QED
  BY <1>1, <1>2, PTL DEF SqlSpec

\* TextReadsBack (GetBuiltSQL of data/mysql_interpolate.go and GetWhereClause of
\* data/db_base.go): whatever the statement and the characters of its arguments, text
\* that is built in the process is read by the server as it was meant.
THEOREM TextReadsBackHolds == SqlSpec => []TextReadsBack
<1>1. TextInv => TextReadsBack
  BY BuiltReads, WhereReadsWhole DEF TextReadsBack
<1> QED
  BY <1>1, TextInvInduction, PTL
=============================================================================
