----------------------------- MODULE LazyPool ------------------------------
(***************************************************************************)
(* Database.GetDB of data/db_base.go: the pool of a connection string is   *)
(* opened by whoever misses it in dbConnectionPool, and its limit of idle  *)
(* connections follows SetKeepAllIdleConn at the next call.                *)
(*                                                                         *)
(* Nothing is locked: dbConnectionPool is a sync.Map that is loaded and    *)
(* stored in separate steps, and keepAllConnection and                     *)
(* lastSetKeptAllConnection are plain fields that every caller reads and   *)
(* writes. One Database object. GetMgoSession of data/db_mongo.go loads,   *)
(* dials and stores in the same way, without the limit.                    *)
(***************************************************************************)
EXTENDS Integers, FiniteSets

CONSTANTS
  Getter,   \* goroutines that call GetDB
  Pool,     \* what sqlx.Open returns; bounds how many are opened
  NoPool

ASSUME GetterAssumption == IsFiniteSet(Getter)
ASSUME PoolAssumption == NoPool \notin Pool

VARIABLES
  stored,       \* dbConnectionPool of this connection string
  opened,       \* pools that have been opened; none is ever closed
  idleLimit,    \* each pool: SetMaxIdleConns, "max" (maxIdleConnections) or
                \* "all" (maxOpenConnections)
  keepAll,      \* keepAllConnection
  lastKept,     \* lastSetKeptAllConnection
  getter,       \* each goroutine: its step in GetDB, its pool, whether it has opened that
                \* pool itself, and the limit it computed
  overtaken     \* history: the setting changed under a call of GetDB, and no other call
                \* has applied it undisturbed since

poolVars == <<stored, opened, idleLimit, keepAll, lastKept, getter, overtaken>>

AtRest == [pc |-> "idle", pool |-> NoPool, fresh |-> FALSE, limit |-> "max"]

PoolInit ==
  /\ stored = NoPool
  /\ opened = {}
  /\ idleLimit = [p \in Pool |-> "max"]
  /\ keepAll = FALSE
  /\ lastKept = FALSE
  /\ getter = [g \in Getter |-> AtRest]
  /\ overtaken = FALSE

LimitFor(all) == IF all THEN "all" ELSE "max"

\* The goroutine g goes on to pc.
Goto(g, pc) == getter' = [getter EXCEPT ![g].pc = pc]

Quiet == \A g \in Getter : getter[g].pc = "idle"

\* The pool in use has the limit of the present setting, and g is the only one at work.
Undisturbed(g) ==
  /\ getter[g].pool = stored
  /\ idleLimit[stored] = LimitFor(keepAll)
  /\ \A h \in Getter \ {g} : getter[h].pc = "idle"

-----------------------------------------------------------------------------
\* Mutated form: a pool whose limit is out of date is opened again.
LoadFresh(g) ==
  /\ getter[g].pc = "idle"
  /\ IF stored # NoPool /\ keepAll = lastKept
     THEN getter' = [getter EXCEPT ![g] = [@ EXCEPT !.pc = "compare", !.pool = stored]]
     ELSE Goto(g, "open")
  /\ UNCHANGED <<stored, opened, idleLimit, keepAll, lastKept, overtaken>>

Load(g) ==
  /\ getter[g].pc = "idle"
  /\ IF stored # NoPool
     THEN getter' = [getter EXCEPT ![g] = [@ EXCEPT !.pc = "compare", !.pool = stored]]
     ELSE Goto(g, "open")
  /\ UNCHANGED <<stored, opened, idleLimit, keepAll, lastKept, overtaken>>

\* Hit: the limit is left alone if it is up to date.
Compare(g) ==
  /\ getter[g].pc = "compare"
  /\ IF keepAll = lastKept THEN getter' = [getter EXCEPT ![g] = AtRest]
                           ELSE Goto(g, "limit")
  /\ UNCHANGED <<stored, opened, idleLimit, keepAll, lastKept, overtaken>>

\* Miss: sqlx.Open does not connect; it may refuse the settings.
Open(g) ==
  /\ getter[g].pc = "open"
  /\ \/ \E p \in Pool \ opened :
          /\ opened' = opened \union {p}
          /\ getter' = [getter EXCEPT ![g] = [@ EXCEPT !.pc = "limit", !.pool = p, !.fresh = TRUE]]
     \/ getter' = [getter EXCEPT ![g] = AtRest] /\ UNCHANGED opened
  /\ UNCHANGED <<stored, idleLimit, keepAll, lastKept, overtaken>>

\* The setting is read a second time.
ComputeLimit(g) ==
  /\ getter[g].pc = "limit"
  /\ getter' = [getter EXCEPT ![g] = [@ EXCEPT !.pc = "set", !.limit = LimitFor(keepAll)]]
  /\ UNCHANGED <<stored, opened, idleLimit, keepAll, lastKept, overtaken>>

\* Mutated form: the limit is set only where a pool is opened.
SetMaxIdleConnsFresh(g) ==
  /\ getter[g].pc = "set"
  /\ idleLimit' = IF getter[g].fresh
                  THEN [idleLimit EXCEPT ![getter[g].pool] = getter[g].limit]
                  ELSE idleLimit
  /\ Goto(g, "remember")
  /\ UNCHANGED <<stored, opened, keepAll, lastKept, overtaken>>

SetMaxIdleConns(g) ==
  /\ getter[g].pc = "set"
  /\ idleLimit' = [idleLimit EXCEPT ![getter[g].pool] = getter[g].limit]
  /\ Goto(g, "remember")
  /\ UNCHANGED <<stored, opened, keepAll, lastKept, overtaken>>

\* The setting is read a third time.
Remember(g) ==
  /\ getter[g].pc = "remember"
  /\ lastKept' = keepAll
  /\ IF getter[g].fresh THEN Goto(g, "store") ELSE getter' = [getter EXCEPT ![g] = AtRest]
  /\ overtaken' = (overtaken /\ ~Undisturbed(g))
  /\ UNCHANGED <<stored, opened, idleLimit, keepAll>>

\* A pool that another has stored meanwhile is replaced, and not closed.
Store(g) ==
  /\ getter[g].pc = "store"
  /\ stored' = getter[g].pool
  /\ getter' = [getter EXCEPT ![g] = AtRest]
  /\ UNCHANGED <<opened, idleLimit, keepAll, lastKept, overtaken>>

SetKeepAllIdleConn(all) ==
  /\ keepAll' = all
  /\ overtaken' = (overtaken \/ (~Quiet /\ all # keepAll))
  /\ UNCHANGED <<stored, opened, idleLimit, lastKept, getter>>

GetterStep(g) ==
  \/ Load(g) \/ Compare(g) \/ Open(g) \/ ComputeLimit(g) \/ SetMaxIdleConns(g)
  \/ Remember(g) \/ Store(g)

PoolNext ==
  \/ \E g \in Getter : GetterStep(g)
  \/ \E all \in BOOLEAN : SetKeepAllIdleConn(all)

PoolSpec == PoolInit /\ [][PoolNext]_poolVars

-----------------------------------------------------------------------------
PoolTypeOK ==
  /\ stored \in Pool \union {NoPool}
  /\ opened \subseteq Pool
  /\ idleLimit \in [Pool -> {"max", "all"}]
  /\ keepAll \in BOOLEAN /\ lastKept \in BOOLEAN /\ overtaken \in BOOLEAN
  /\ getter \in [Getter -> [pc : {"idle", "compare", "open", "limit", "set", "remember", "store"},
                             pool : Pool \union {NoPool}, fresh : BOOLEAN,
                             limit : {"max", "all"}]]

\* The race of first calls opens at most one pool for each goroutine in it: once a pool
\* is stored nobody opens another, so what is never closed does not grow.
LeakBounded == Cardinality(opened) <= Cardinality(Getter)

\* Between calls, lastSetKeptAllConnection tells whether the pool in use has the limit
\* that was set last, so that the next call of GetDB follows a change, also when two first
\* calls have raced. A setting that changes under a call of GetDB is the exception: it
\* may be remembered without having been applied.
IdleFollowsSetting ==
  (Quiet /\ stored # NoPool /\ ~overtaken /\ keepAll = lastKept)
    => idleLimit[stored] = LimitFor(keepAll)
=============================================================================
