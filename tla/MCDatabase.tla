----------------------------- MODULE MCDatabase -----------------------------
(* The parts of data/ around a SQL database for TLC: the breaker, the lazy *)
(* pool, transactions, their queries and the SQL text built in the process. *)
(* They share no state, so each behaviour is one of one part, the others    *)
(* standing still in its initial state, where nothing it is fair to is      *)
(* enabled. Init chooses the part.                                         *)
EXTENDS DbBreaker, LazyPool, DbTx, TxRows, SqlText, TLC

VARIABLE part

CONSTANTS orders, w1, w2, w3, g1, g2, nobody,   \* DbBreaker
          c1, c2, c3, db1, db2, db3, none   \* callers and pools

allVars == <<part, vars, poolVars, txVars, rowVars, sqlVars>>

Alone(name, step, others) == part = name /\ step /\ UNCHANGED <<part, others>>

MCInit ==
  /\ part \in {"breaker", "pool", "tx", "rows", "text"}
  /\ Init /\ (part # "breaker" => up = Conn /\ threshold = MinBadCount)
  /\ PoolInit /\ TxInit /\ RowsInit /\ SqlInit

MCNext ==
  \/ Alone("breaker", Next, <<poolVars, txVars, rowVars, sqlVars>>)
  \/ Alone("pool", PoolNext, <<vars, txVars, rowVars, sqlVars>>)
  \/ Alone("tx", TxNext, <<vars, poolVars, rowVars, sqlVars>>)
  \/ Alone("rows", RowsNext, <<vars, poolVars, txVars, sqlVars>>)
  \/ Alone("text", SqlNext, <<vars, poolVars, txVars, rowVars>>)

MCSpec ==
  /\ MCInit
  /\ [][MCNext]_allVars
  /\ BreakerFairness
  /\ TxFairness

\* The callbacks of c1 use the Database beside their transaction. They are fewer than the
\* connections, which CallsEnd is about.
MCStatements == (c1 :> 1) @@ (c2 :> 2) @@ (c3 :> 0)

ASSUME FewerThanConnections == Cardinality(Unruly) < MaxOpen

MCColumns == {<<"id">>, <<"id", "name">>, <<"name", "name">>}
MCField == {[name |-> n, kind |-> k] : n \in {"id"}, k \in {"int", "uint"}}
             \union {[name |-> n, kind |-> k] : n \in {"name"}, k \in {"string", "bool"}}
MCText == {"NULL", "", "-1", "5", "False"}
MCLower == [s \in MCText |-> IF s = "False" THEN "false" ELSE IF s = "NULL" THEN "null" ELSE s]
MCNumber == ("-1" :> -1) @@ ("5" :> 5)

MCQuery == {<<>>, <<"t">>, <<"?">>, <<"t", "?">>, <<"?", "t", "?">>}
MCChar == {"a", "'", "\\"}
MCArgument ==
  [kind : {"string"}, value : BoundedSeq(MCChar, 2)]
    \union [kind : {"bytes"}, value : BoundedSeq(MCChar \ {"a"}, 1)]
    \union [kind : {"number", "time"}, value : {<<"d">>}]
    \union [kind : {"nil", "other"}, value : {<<>>}]
=============================================================================
