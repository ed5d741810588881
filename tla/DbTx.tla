------------------------------- MODULE DbTx --------------------------------
(***************************************************************************)
(* Transactions: Database.ExecTx and the _TxWrap it hands to the callback, *)
(* of data/db_base.go, over the connections of one pool.                   *)
(*                                                                         *)
(* A transaction pins a connection until commit or rollback. BeginTx waits *)
(* for a free one with context.Background, so for ever. A callback may use *)
(* the Database itself beside its transaction and then waits for a second  *)
(* connection while it holds the first.                                    *)
(*                                                                         *)
(* External: database/sql, the driver and the server. A connection may be  *)
(* lost at any time, the server then rolls back; a Commit may fail, or     *)
(* succeed with its reply lost.                                            *)
(***************************************************************************)
EXTENDS Integers, FiniteSets

CONSTANTS
  Call,           \* calls of ExecTx, each in a goroutine of its own
  MaxOpen,        \* maxOpenConnections
  MaxStatements,  \* bounds the statements of each call
  Unruly          \* calls whose callback may use the Database beside its transaction,
                  \* or end in panic(nil) or runtime.Goexit

ASSUME MaxOpenAssumption == MaxOpen \in Nat \ {0}
ASSUME MaxStatementsAssumption == MaxStatements \in [Call -> Nat]
ASSUME UnrulyAssumption == Unruly \subseteq Call

VARIABLES
  phase,      \* each call: "idle", "begin", "body", "outside", "after", "commit",
              \* "rollback", "done"
  verdict,    \* how the callback ended: "none", "nil", "biz", "panic"
  pinned,     \* calls whose sql.Tx has a connection
  open,       \* calls whose transaction is open at the server
  sequence,   \* execSQLSequence
  written,    \* history: statements the callback was told have been executed
  durable,    \* statements that are committed
  result      \* what ExecTx returned: "none", "nil", "biz", "db", "panic", "lost"

txVars == <<phase, verdict, pinned, open, sequence, written, durable, result>>

StatementsOf(c) == 1 .. MaxStatements[c]
InBody == {"body", "after"}

TxInit ==
  /\ phase = [c \in Call |-> "idle"]
  /\ verdict = [c \in Call |-> "none"]
  /\ pinned = {}
  /\ open = {}
  /\ sequence = [c \in Call |-> 1]
  /\ written = [c \in Call |-> {}]
  /\ durable = [c \in Call |-> {}]
  /\ result = [c \in Call |-> "none"]

\* A connection can be had: an idle one, or one more may be opened.
Free == Cardinality(pinned) < MaxOpen

Finish(c, r) ==
  /\ phase' = [phase EXCEPT ![c] = "done"]
  /\ result' = [result EXCEPT ![c] = r]

-----------------------------------------------------------------------------
\* The breaker refuses the access, or GetDB fails.
Refuse(c) ==
  /\ phase[c] = "idle"
  /\ Finish(c, "db")
  /\ UNCHANGED <<verdict, pinned, open, sequence, written, durable>>

ExecTx(c) ==
  /\ phase[c] = "idle"
  /\ phase' = [phase EXCEPT ![c] = "begin"]
  /\ UNCHANGED <<verdict, pinned, open, sequence, written, durable, result>>

BeginTx(c) ==
  /\ phase[c] = "begin"
  /\ Free
  /\ phase' = [phase EXCEPT ![c] = "body"]
  /\ pinned' = pinned \union {c}
  /\ open' = open \union {c}
  /\ UNCHANGED <<verdict, sequence, written, durable, result>>

BeginFails(c) ==
  /\ phase[c] = "begin"
  /\ Free
  /\ Finish(c, "db")
  /\ UNCHANGED <<verdict, pinned, open, sequence, written, durable>>

-----------------------------------------------------------------------------
\* A statement of the callback; execSQLSequence counts the ones that fail too.
Exec(c) ==
  /\ phase[c] \in InBody
  /\ sequence[c] \in StatementsOf(c)
  /\ sequence' = [sequence EXCEPT ![c] = @ + 1]
  /\ \/ /\ c \in open
        /\ written' = [written EXCEPT ![c] = @ \union {sequence[c]}]
     \/ UNCHANGED written
  /\ UNCHANGED <<phase, verdict, pinned, open, durable, result>>

\* The callback calls the Database itself, and waits for a second connection.
CallOutside(c) ==
  /\ c \in Unruly
  /\ phase[c] = "body"
  /\ phase' = [phase EXCEPT ![c] = "outside"]
  /\ UNCHANGED <<verdict, pinned, open, sequence, written, durable, result>>

OutsideServed(c) ==
  /\ phase[c] = "outside"
  /\ Free
  /\ phase' = [phase EXCEPT ![c] = "after"]
  /\ UNCHANGED <<verdict, pinned, open, sequence, written, durable, result>>

\* Mutated form: an error of the callback is only logged.
CallbackEndsUnchecked(c) ==
  /\ phase[c] \in InBody
  /\ \E v \in {"nil", "biz", "panic"} :
       /\ verdict' = [verdict EXCEPT ![c] = v]
       /\ phase' = [phase EXCEPT ![c] = IF v = "panic" THEN "rollback" ELSE "commit"]
  /\ UNCHANGED <<pinned, open, sequence, written, durable, result>>

\* bizFunc returns nil or an error, or panics: the deferred function and the last
\* lines of ExecTx choose what follows.
CallbackEnds(c) ==
  /\ phase[c] \in InBody
  /\ \E v \in {"nil", "biz", "panic"} :
       /\ verdict' = [verdict EXCEPT ![c] = v]
       /\ phase' = [phase EXCEPT ![c] = IF v = "nil" THEN "commit" ELSE "rollback"]
  /\ UNCHANGED <<pinned, open, sequence, written, durable, result>>

\* recover returns nil after panic(nil), so ExecTx returns nil with its transaction
\* still open; after runtime.Goexit it returns nothing.
CallbackVanishes(c) ==
  /\ c \in Unruly
  /\ phase[c] \in InBody
  /\ \E r \in {"nil", "lost"} : Finish(c, r)
  /\ UNCHANGED <<verdict, pinned, open, sequence, written, durable>>

-----------------------------------------------------------------------------
\* Commit and Rollback of database/sql give the connection back however they end.
Release(c) ==
  /\ pinned' = pinned \ {c}
  /\ open' = open \ {c}

Commit(c) ==
  /\ phase[c] = "commit"
  /\ Release(c)
  /\ \/ /\ c \in open
        /\ durable' = [durable EXCEPT ![c] = written[c]]
        /\ \E r \in {"nil", "db"} : Finish(c, r)
     \/ Finish(c, "db") /\ UNCHANGED durable
  /\ UNCHANGED <<verdict, sequence, written>>

\* Mutated form: the error is returned and the transaction left to itself.
RollbackNot(c) ==
  /\ phase[c] = "rollback"
  /\ Finish(c, verdict[c])
  /\ UNCHANGED <<verdict, pinned, open, sequence, written, durable>>

Rollback(c) ==
  /\ phase[c] = "rollback"
  /\ Release(c)
  /\ Finish(c, verdict[c])
  /\ UNCHANGED <<verdict, sequence, written, durable>>

\* The connection of a transaction is lost.
Lose(c) ==
  /\ c \in open
  /\ open' = open \ {c}
  /\ UNCHANGED <<phase, verdict, pinned, sequence, written, durable, result>>

\* What ExecTx does by itself, once called.
Proceed(c) == BeginTx(c) \/ BeginFails(c) \/ Commit(c) \/ Rollback(c)

TxNext ==
  \E c \in Call :
    \/ Refuse(c) \/ ExecTx(c) \/ BeginTx(c) \/ BeginFails(c)
    \/ Exec(c) \/ CallOutside(c) \/ OutsideServed(c)
    \/ CallbackEnds(c) \/ CallbackVanishes(c)
    \/ Commit(c) \/ Rollback(c) \/ Lose(c)

TxSpec == TxInit /\ [][TxNext]_txVars

\* ExecTx goes on, callbacks end, and a free connection is given to who waits for it.
TxFairness ==
  \A c \in Call : WF_txVars(Proceed(c) \/ OutsideServed(c) \/ CallbackEnds(c))

TxFairSpec == TxSpec /\ TxFairness

-----------------------------------------------------------------------------
TxTypeOK ==
  /\ phase \in [Call -> {"idle", "begin", "body", "outside", "after", "commit",
                         "rollback", "done"}]
  /\ verdict \in [Call -> {"none", "nil", "biz", "panic"}]
  /\ pinned \subseteq Call
  /\ open \subseteq pinned
  /\ sequence \in [Call -> Nat]
  /\ written \in [Call -> SUBSET Nat] /\ durable \in [Call -> SUBSET Nat]
  /\ \A c \in Call : /\ sequence[c] \in 1 .. MaxStatements[c] + 1
                     /\ written[c] \subseteq StatementsOf(c)
                     /\ durable[c] \subseteq StatementsOf(c)
  /\ result \in [Call -> {"none", "nil", "biz", "db", "panic", "lost"}]

Promise == INSTANCE TxPromise WITH Statement <- UNION {StatementsOf(c) : c \in Call},
                                   told <- written, effect <- durable, answer <- result

\* ExecTx keeps TxPromise: nil means that every statement the callback saw succeed is
\* committed, the callback's error or a panic that none is, whatever connections do.
KeepsPromise == Promise!Spec

\* Every call of ExecTx ends, so that again and again none is under way, although
\* callbacks may hold one connection and wait for another: fewer calls than there are
\* connections do so, or lose a connection for good.
CallsEnd == []<>(\A c \in Call : phase[c] \in {"idle", "done"})
=============================================================================
