----------------------------- MODULE TxPromise -----------------------------
(***************************************************************************)
(* What ExecTx of data/db_base.go promises its callers, whatever the pool, *)
(* the connections and the database do: the statements of a call take      *)
(* effect all together or not at all, and its result tells which, but for  *)
(* an error of the database itself.                                        *)
(***************************************************************************)
CONSTANTS
  Call,       \* calls of ExecTx
  Statement,  \* statements of one call
  Unruly      \* calls whose callback may end in panic(nil) or Goexit

VARIABLES
  told,       \* statements that the callback was told have been executed
  verdict,    \* how the callback ended: "none", "nil", "biz" (an error), "panic"
  effect,     \* statements that are in the database for good
  answer      \* what the caller got: a verdict, "db" (an error of the database), or
              \* "lost" (its goroutine has ended)

promise == <<told, verdict, effect, answer>>

Init ==
  /\ told = [c \in Call |-> {}]
  /\ verdict = [c \in Call |-> "none"]
  /\ effect = [c \in Call |-> {}]
  /\ answer = [c \in Call |-> "none"]

Execute(c) ==
  /\ verdict[c] = "none"
  /\ answer[c] = "none"
  /\ \E s \in Statement : told' = [told EXCEPT ![c] = @ \union {s}]
  /\ UNCHANGED <<verdict, effect, answer>>

Decide(c) ==
  /\ verdict[c] = "none"
  /\ answer[c] = "none"
  /\ \E v \in {"nil", "biz", "panic"} : verdict' = [verdict EXCEPT ![c] = v]
  /\ UNCHANGED <<told, effect, answer>>

\* All of it is kept, if the callback agrees; an error of the database may hide that from the caller.
Keep(c) ==
  /\ verdict[c] = "nil"
  /\ answer[c] = "none"
  /\ effect' = [effect EXCEPT ![c] = told[c]]
  /\ \E a \in {"nil", "db"} : answer' = [answer EXCEPT ![c] = a]
  /\ UNCHANGED <<told, verdict>>

\* None of it is kept; an error of the database is reported only where the callback
\* has not decided against it.
Drop(c) ==
  /\ answer[c] = "none"
  /\ answer' = [answer EXCEPT ![c] = IF verdict[c] \in {"biz", "panic"} THEN verdict[c] ELSE "db"]
  /\ UNCHANGED <<told, verdict, effect>>

\* A callback that ends by neither return nor panic leaves the caller with nil, or
\* ends its goroutine, and nothing is kept.
Abandon(c) ==
  /\ c \in Unruly
  /\ verdict[c] = "none"
  /\ answer[c] = "none"
  /\ \E a \in {"nil", "lost"} : answer' = [answer EXCEPT ![c] = a]
  /\ UNCHANGED <<told, verdict, effect>>

Next == \E c \in Call : Execute(c) \/ Decide(c) \/ Keep(c) \/ Drop(c) \/ Abandon(c)

Spec == Init /\ [][Next]_promise
=============================================================================
