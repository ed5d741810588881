----------------------------- MODULE DbBreaker -----------------------------
(***************************************************************************)
(* The circuit breaker before the databases: data/db_conn_optimize.go and  *)
(* the calls of data/db_base.go that go through it. Errors of a connection *)
(* are counted, a connection with too many of them is blocked, and a       *)
(* background goroutine pings the counted connections and forgets those    *)
(* that answer.                                                            *)
(*                                                                         *)
(* enableOptimizeConnection, pingCheckRunning and badConnectionCount are   *)
(* plain variables that goroutines read and write under no lock; the map   *)
(* optimizeConnections is under optimizeConnectionSync.                    *)
(*                                                                         *)
(* pingCheckTime is kept as the goroutine that set it last, while that one *)
(* has not slept since: after its Sleep every goroutine finds the interval *)
(* over, before it only another goroutine may or may not.                  *)
(***************************************************************************)
EXTENDS Integers, FiniteSets

CONSTANTS
  Conn,       \* connections (dbConnection, the key of optimizeConnections)
  Worker,     \* goroutines that run SQL; bounds the calls under way at once
  Pinger,     \* dbPingCheck goroutines; bounds how many may overlap
  NoPinger,   \* pingCheckTime is 0 or at least pingDBInterval ago
  BadCount    \* values badConnectionCount has by default or is asked to take

\* "minimum 3 times" (line 24) is what SetBadConnectionCount accepts.
MinBadCount == 3

ASSUME WorkerAssumption == IsFiniteSet(Worker)
ASSUME PingerAssumption == NoPinger \notin Pinger
ASSUME BadCountAssumption == BadCount \subseteq Nat /\ \E n \in BadCount : n >= MinBadCount

VARIABLES
  enabled,    \* enableOptimizeConnection
  running,    \* pingCheckRunning
  threshold,  \* badConnectionCount
  admin,      \* the goroutine in SetEnableOptimizeConnection: where it is
  count,      \* badConnectionCount of a connection's entry; 0: it has no entry
  blocked,    \* connections with isBlocked
  pinged,     \* pingCheckTime of a connection's entry, see above
  worker,     \* each worker's call
  pinger,     \* each dbPingCheck goroutine
  up,         \* the databases that answer
  \* history variable, which no action of the code reads
  late        \* how many calls to a connection had looked at the flag and not reported
              \* their error when the map was emptied last; 0 while the breaker is on

vars == <<enabled, running, threshold, admin, count, blocked, pinged, worker, pinger, up, late>>

entries == <<count, blocked, pinged>>

Idle == [pc |-> "idle"]
Off == [pc |-> "off"]

Init ==
  /\ enabled = FALSE
  /\ running = FALSE
  /\ threshold \in {n \in BadCount : n >= MinBadCount}
  /\ admin = "idle"
  /\ count = [c \in Conn |-> 0]
  /\ blocked = {}
  /\ pinged = [c \in Conn |-> NoPinger]
  /\ worker = [w \in Worker |-> Idle]
  /\ pinger = [g \in Pinger |-> Off]
  /\ up \in SUBSET Conn
  /\ late = [c \in Conn |-> 0]

\* The calls that will still count an error of the connection, whatever the flag says.
Reporting(c) == {w \in Worker : worker[w].pc = "record" /\ worker[w].conn = c}

\* The entries of the connections in S are dropped from the map.
Drop(S) ==
  /\ count' = [c \in Conn |-> IF c \in S THEN 0 ELSE count[c]]
  /\ blocked' = blocked \ S
  /\ pinged' = [c \in Conn |-> IF c \in S THEN NoPinger ELSE pinged[c]]

-----------------------------------------------------------------------------
(* The settings. SetEnableOptimizeConnection is called by one goroutine.   *)

SetFlag(enable) ==
  /\ admin = "idle"
  /\ enabled' = enable
  /\ admin' = IF enable THEN "start" ELSE "stop"
  /\ late' = IF enable THEN [c \in Conn |-> 0] ELSE late
  /\ UNCHANGED <<running, threshold, entries, worker, pinger, up>>

\* pingCheckRunning is all that is asked before a goroutine is started; one that
\* sleeps over a stop and the next start goes on beside the new one.
StartPingCheck ==
  /\ admin = "start"
  /\ admin' = "idle"
  /\ IF running THEN UNCHANGED <<running, pinger>>
     ELSE /\ running' = TRUE
          /\ \E g \in Pinger : /\ pinger[g] = Off
                               /\ pinger' = [pinger EXCEPT ![g] = [pc |-> "collect"]]
  /\ UNCHANGED <<enabled, threshold, entries, worker, up, late>>

StopPingCheck ==
  /\ admin = "stop"
  /\ admin' = IF running THEN "reset" ELSE "idle"
  /\ running' = FALSE
  /\ UNCHANGED <<enabled, threshold, entries, worker, pinger, up, late>>

\* A mutated form of ResetEntries: the map is kept.
ResetEntriesKept ==
  /\ admin = "reset"
  /\ admin' = "idle"
  /\ late' = [c \in Conn |-> Cardinality(Reporting(c))]
  /\ UNCHANGED <<enabled, running, threshold, entries, worker, pinger, up>>

\* The map is replaced once the lock is free.
ResetEntries ==
  /\ admin = "reset"
  /\ admin' = "idle"
  /\ Drop(Conn)
  /\ late' = [c \in Conn |-> Cardinality(Reporting(c))]
  /\ UNCHANGED <<enabled, running, threshold, worker, pinger, up>>

\* A mutated form of SetBadConnectionCount: any count is accepted.
SetBadConnectionCountAny(n) ==
  /\ threshold' = n
  /\ UNCHANGED <<enabled, running, admin, entries, worker, pinger, up, late>>

SetBadConnectionCount(n) ==
  /\ threshold' = IF n >= MinBadCount THEN n ELSE threshold
  /\ UNCHANGED <<enabled, running, admin, entries, worker, pinger, up, late>>

-----------------------------------------------------------------------------
(* Calls: query, Exec2, Insert2 and ExecTx have the same frame.            *)

\* A mutated form of Access: isBlocked is not looked at.
AccessAnyway(w, c) ==
  /\ worker[w] = Idle
  /\ worker' = [worker EXCEPT ![w] = [pc |-> "access", conn |-> c]]
  /\ UNCHANGED <<enabled, running, threshold, admin, entries, pinger, up, late>>

\* skipDbAccessDueErrBadConnection lets the call through, whether the breaker is
\* enabled or not; a call that is not let through fails and changes nothing.
Access(w, c) ==
  /\ worker[w] = Idle
  /\ c \notin blocked
  /\ worker' = [worker EXCEPT ![w] = [pc |-> "access", conn |-> c]]
  /\ UNCHANGED <<enabled, running, threshold, admin, entries, pinger, up, late>>

\* The call ends. After ErrBadConn, dbConnectionError first looks at the flag and
\* then waits for the lock; errors of another kind are not counted.
Return(w) ==
  LET c == worker[w].conn
  IN  /\ worker[w].pc = "access"
      /\ worker' = [worker EXCEPT ![w] = IF c \notin up /\ enabled
                                         THEN [pc |-> "record", conn |-> c] ELSE Idle]
      /\ UNCHANGED <<enabled, running, threshold, admin, entries, pinger, up, late>>

\* dbConnectionError: the error that makes the entry never blocks.
Record(w) ==
  LET c == worker[w].conn
  IN  /\ worker[w].pc = "record"
      /\ worker' = [worker EXCEPT ![w] = Idle]
      /\ count' = [count EXCEPT ![c] = @ + 1]
      /\ blocked' = IF count[c] > 0 /\ count[c] + 1 >= threshold
                    THEN blocked \cup {c} ELSE blocked
      /\ UNCHANGED <<enabled, running, threshold, admin, pinged, pinger, up, late>>

-----------------------------------------------------------------------------
(* dbPingCheck.                                                            *)

HasEntry(c) == count[c] > 0

\* The entries whose interval is over are pinged, each in a goroutine of its own.
Collect(g) ==
  /\ pinger[g].pc = "collect"
  /\ \E due \in SUBSET {c \in Conn : HasEntry(c)} :
       /\ \A c \in Conn : HasEntry(c) /\ pinged[c] = NoPinger => c \in due
       /\ pinged' = [c \in Conn |-> IF c \in due THEN g ELSE pinged[c]]
       /\ pinger' = [pinger EXCEPT ![g] = [pc |-> "ping", todo |-> due, ok |-> {}]]
  /\ UNCHANGED <<enabled, running, threshold, admin, count, blocked, worker, up, late>>

Ping(g, c) ==
  /\ pinger[g].pc = "ping"
  /\ c \in pinger[g].todo
  /\ pinger' = [pinger EXCEPT ![g] = [pc |-> "ping", todo |-> @.todo \ {c},
                                      ok |-> @.ok \cup ({c} \cap up)]]
  /\ UNCHANGED <<enabled, running, threshold, admin, entries, worker, up, late>>

\* A mutated form of Resume: the goroutine sleeps on the result of its pings.
ResumeNone(g) ==
  /\ pinger[g].pc = "ping"
  /\ pinger[g].todo = {}
  /\ pinger' = [pinger EXCEPT ![g] = [pc |-> "sleep"]]
  /\ UNCHANGED <<enabled, running, threshold, admin, entries, worker, up, late>>

\* wg.Wait is over: the entries of the connections that answered are dropped,
\* whatever has been counted in them since.
Resume(g) ==
  /\ pinger[g].pc = "ping"
  /\ pinger[g].todo = {}
  /\ Drop(pinger[g].ok)
  /\ pinger' = [pinger EXCEPT ![g] = [pc |-> "sleep"]]
  /\ UNCHANGED <<enabled, running, threshold, admin, worker, up, late>>

\* A mutated form of Wake: the goroutine goes by enableOptimizeConnection.
WakeEnabled(g) ==
  /\ pinger[g].pc = "sleep"
  /\ pinger' = [pinger EXCEPT ![g] = IF enabled THEN [pc |-> "collect"] ELSE Off]
  /\ pinged' = [c \in Conn |-> IF pinged[c] = g THEN NoPinger ELSE pinged[c]]
  /\ UNCHANGED <<enabled, running, threshold, admin, count, blocked, worker, up, late>>

\* The interval is over: the goroutine goes on, or ends.
Wake(g) ==
  /\ pinger[g].pc = "sleep"
  /\ pinger' = [pinger EXCEPT ![g] = IF running THEN [pc |-> "collect"] ELSE Off]
  /\ pinged' = [c \in Conn |-> IF pinged[c] = g THEN NoPinger ELSE pinged[c]]
  /\ UNCHANGED <<enabled, running, threshold, admin, count, blocked, worker, up, late>>

-----------------------------------------------------------------------------
\* A database goes down or comes back.
Flip(c) ==
  /\ up' = (up \ {c}) \cup ({c} \ up)
  /\ UNCHANGED <<enabled, running, threshold, admin, entries, worker, pinger, late>>

Next ==
  \/ \E enable \in BOOLEAN : SetFlag(enable)
  \/ StartPingCheck
  \/ StopPingCheck
  \/ ResetEntries
  \/ \E n \in BadCount : SetBadConnectionCount(n)
  \/ \E w \in Worker, c \in Conn : Access(w, c)
  \/ \E w \in Worker : Return(w)
  \/ \E w \in Worker : Record(w)
  \/ \E g \in Pinger : Collect(g)
  \/ \E g \in Pinger, c \in Conn : Ping(g, c)
  \/ \E g \in Pinger : Resume(g)
  \/ \E g \in Pinger : Wake(g)
  \/ \E c \in Conn : Flip(c)

Spec == Init /\ [][Next]_vars

\* Goroutines do not wait for ever: a call or a ping of a database ends, if only
\* at the timeout of its connection, Sleep ends, and the lock is held for short
\* sections. Nothing is assumed of who calls what, or of the databases.
BreakerFairness ==
  /\ WF_vars(StartPingCheck \/ StopPingCheck \/ ResetEntries)
  /\ \A w \in Worker : WF_vars(Return(w) \/ Record(w))
  /\ \A g \in Pinger : WF_vars(Collect(g) \/ (\E c \in Conn : Ping(g, c)) \/ Resume(g) \/ Wake(g))

FairSpec == Spec /\ BreakerFairness

-----------------------------------------------------------------------------
(* Properties.                                                             *)

WorkerState == {Idle} \cup [pc : {"access", "record"}, conn : Conn]
PingerState ==
  {Off} \cup [pc : {"collect", "sleep"}] \cup [pc : {"ping"}, todo : SUBSET Conn, ok : SUBSET Conn]

\* Types; badConnectionCount never falls below its minimum, and a blocked
\* connection has had that many errors.
TypeOK ==
  /\ enabled \in BOOLEAN
  /\ running \in BOOLEAN
  /\ threshold \in {n \in BadCount : n >= MinBadCount}
  /\ admin \in {"idle", "start", "stop", "reset"}
  /\ count \in [Conn -> Nat]
  /\ blocked \in SUBSET Conn
  /\ pinged \in [Conn -> Pinger \cup {NoPinger}]
  /\ worker \in [Worker -> WorkerState]
  /\ pinger \in [Pinger -> PingerState]
  /\ up \in SUBSET Conn
  /\ late \in [Conn -> Nat]
  /\ \A c \in blocked : count[c] >= MinBadCount

\* SetEnableOptimizeConnection(false): a breaker that is switched off has forgotten
\* the errors counted before. Those it counts from then on are the ones of calls that
\* had looked at the flag (89) when the map was emptied, so it blocks a connection
\* only if MinBadCount of them were late, and never with fewer calls than that.
DisabledBlocksNobody ==
  admin = "idle" /\ ~enabled => \A c \in blocked : late[c] >= MinBadCount

\* badConnectionCount: a blocked connection is left alone. Whatever calls were
\* under way when it was blocked, its counter passes the bar by less than their
\* number.
Busy(c) == {w \in Worker : worker[w] # Idle /\ worker[w].conn = c}

BlockedIsLeftAlone ==
  \A c \in blocked : \A n \in BadCount :
    (\A m \in BadCount : m <= n) => count[c] + Cardinality(Busy(c)) < n + Cardinality(Worker)

\* dbPingCheck: while the breaker is enabled some goroutine pings, however
\* switching it off and on meets the goroutine's Sleep.
SomeonePings == running => \E g \in Pinger : pinger[g] # Off

\* A connection that answers again is not blocked for good, whatever is switched
\* off and on meanwhile: a ping or a reset unblocks it, and late errors do not block
\* it again. The exception is a breaker that is off after MinBadCount errors were
\* reported late: nobody pings until it is switched on.
Recovers ==
  \A c \in Conn :
    <>[](c \in up) => <>[](c \in blocked => ~enabled /\ late[c] >= MinBadCount)
=============================================================================
