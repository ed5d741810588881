------------------------------ MODULE SqlText ------------------------------
(***************************************************************************)
(* SQL text that is put together in the process: GetBuiltSQL of            *)
(* data/mysql_interpolate.go, which writes arguments in place of `?`, and  *)
(* GetWhereClause of data/db_base.go. ReadBack is the reference: how the   *)
(* server reads such a text.                                               *)
(*                                                                         *)
(* A text is a sequence of characters. "t" stands for the characters of    *)
(* the statement itself, "d" for the digits of a number or a time, "N" for *)
(* NULL, "_" for _binary; the others are themselves, and NUL, LF, CR and   *)
(* SUB stand for the control characters of these names.                    *)
(***************************************************************************)
EXTENDS Integers, Sequences, SequencesExt, Functions

CONSTANTS
  Query,      \* statements: sequences of "t" and "?"
  Argument,   \* arguments: [kind, value], value a sequence of characters
  MaxArgs,    \* bounds the arguments of a call
  MaxAllowedPacket

\* A `?` right behind another is not SQL: two quoted arguments would run into one.
ASSUME QueryAssumption ==
  \A q \in Query : /\ q \in Seq({"t", "?"})
                   /\ \A i \in 1 .. Len(q) - 1 : q[i] = "t" \/ q[i + 1] = "t"

\* A string of the character "d" would stand for a time.
ASSUME ArgumentAssumption ==
  \A a \in Argument :
    /\ a \in [kind : {"number", "time", "string", "bytes", "nil", "other"}, value : Seq(STRING)]
    /\ a.kind \in {"number", "time"} => a.value = <<"d">>
    /\ a.kind = "nil" => a.value = <<>>
    /\ a.kind = "string" => a.value # <<"d">>
ASSUME MaxArgsAssumption == MaxArgs \in Nat

VARIABLES
  usingQuotes,  \* escapeUsingQuotes: the server runs with NO_BACKSLASH_ESCAPES
  query, args,  \* what is asked for; in a where clause args are the values of one column
  at,           \* i, the place in query
  argPos,
  buf,
  outcome       \* "none", "building", "ok", "error", "where"

sqlVars == <<usingQuotes, query, args, at, argPos, buf, outcome>>

SqlInit ==
  /\ usingQuotes = FALSE
  /\ query = <<>> /\ args = <<>>
  /\ at = 1 /\ argPos = 1
  /\ buf = <<>>
  /\ outcome = "none"

-----------------------------------------------------------------------------
Quote == <<"'">>

Escaped == [c \in {"NUL", "LF", "CR", "SUB", "'", "\"", "\\"} |->
              CASE c = "NUL" -> "0" [] c = "LF" -> "n" [] c = "CR" -> "r" [] c = "SUB" -> "Z"
                [] OTHER -> c]

\* Mutated form: the backslash itself is not escaped.
BackslashQuotesOnly(v) ==
  FlattenSeq([i \in DOMAIN v |->
                IF v[i] \in DOMAIN Escaped \ {"\\"} THEN <<"\\", Escaped[v[i]]>> ELSE <<v[i]>>])

Backslash(v) ==
  FlattenSeq([i \in DOMAIN v |->
                IF v[i] \in DOMAIN Escaped THEN <<"\\", Escaped[v[i]]>> ELSE <<v[i]>>])

Quotes(v) == FlattenSeq([i \in DOMAIN v |-> IF v[i] = "'" THEN <<"'", "'">> ELSE <<v[i]>>])

Literal(a) ==
  CASE a.kind = "number" -> <<"d">>
    [] a.kind = "time"   -> Quote \o <<"d">> \o Quote
    [] a.kind = "bytes"  -> <<"_">> \o Quote \o (IF usingQuotes THEN Quotes(a.value) ELSE Backslash(a.value)) \o Quote
    [] a.kind = "string" -> Quote \o (IF usingQuotes THEN Quotes(a.value) ELSE Backslash(a.value)) \o Quote

Placeholders(q) == {i \in DOMAIN q : q[i] = "?"}

\* GetBuiltSQL refuses a call whose arguments are not as many as its placeholders.
Begin ==
  /\ outcome = "none"
  /\ usingQuotes' \in BOOLEAN
  /\ query' \in Query
  /\ args' \in BoundedSeq(Argument, MaxArgs)
  /\ outcome' = IF Cardinality(Placeholders(query')) = Len(args') THEN "building" ELSE "error"
  /\ UNCHANGED <<at, argPos, buf>>

\* One turn of its loop. After NULL the size is not looked at.
Turn ==
  /\ outcome = "building"
  /\ at <= Len(query)
  /\ LET rest == {i \in Placeholders(query) : i >= at}
     IN IF rest = {}
        THEN /\ buf' = buf \o SubSeq(query, at, Len(query))
             /\ at' = Len(query) + 1
             /\ UNCHANGED <<argPos, outcome>>
        ELSE LET q == Min(rest)
                 a == args[argPos]
                 text == buf \o SubSeq(query, at, q - 1)
             IN /\ at' = q + 1
                /\ argPos' = argPos + 1
                /\ IF a.kind = "other" THEN buf' = text ELSE
                   buf' = text \o IF a.kind = "nil" THEN <<"N">> ELSE Literal(a)
                /\ outcome' = IF \/ a.kind = "other"
                                 \/ a.kind # "nil" /\ Len(buf') + 4 > MaxAllowedPacket
                              THEN "error" ELSE outcome
  /\ UNCHANGED <<usingQuotes, query, args>>

Built ==
  /\ outcome = "building"
  /\ at > Len(query)
  /\ outcome' = "ok"
  /\ UNCHANGED <<usingQuotes, query, args, at, argPos, buf>>

-----------------------------------------------------------------------------
\* The text of a value in a where clause; always with backslashes.
WhereValue(a) ==
  IF a.kind = "number" THEN <<"d">>
  ELSE Quote \o FlattenSeq([i \in DOMAIN a.value |->
                              IF a.value[i] \in {"\\", "'"} THEN <<"\\", a.value[i]>>
                              ELSE <<a.value[i]>>]) \o Quote

\* The condition on one column: nothing, name=v or name IN (v,v...); conditions of
\* several columns are joined by AND, in any order.
GetWhereClause ==
  /\ outcome = "none"
  /\ args' \in {s \in BoundedSeq(Argument, MaxArgs) : \A i \in DOMAIN s : s[i].kind \in {"number", "string"}}
  /\ buf' = IF args' = <<>> THEN <<>>
            ELSE FlattenSeq([i \in 1 .. 2 * Len(args') + 1 |->
                               IF i % 2 = 1 THEN <<"t">> ELSE WhereValue(args'[i \div 2])])
  /\ outcome' = "where"
  /\ UNCHANGED <<usingQuotes, query, at, argPos>>

Again ==
  /\ outcome \in {"ok", "error", "where"}
  /\ query' = <<>> /\ args' = <<>> /\ at' = 1 /\ argPos' = 1 /\ buf' = <<>>
  /\ outcome' = "none" /\ usingQuotes' = FALSE

SqlNext == Begin \/ Turn \/ Built \/ GetWhereClause \/ Again

SqlSpec == SqlInit /\ [][SqlNext]_sqlVars

-----------------------------------------------------------------------------
(* How the server reads a text: the sequence of the arguments and of the   *)
(* parts of the statement in it; "open" marks a literal without end.       *)
OfStatement == [kind |-> "t", value |-> <<>>]

Unescaped(c) == IF \E k \in DOMAIN Escaped : Escaped[k] = c
                THEN CHOOSE k \in DOMAIN Escaped : Escaped[k] = c ELSE c

\* The literal whose characters begin at i: [value, next], next after its last quote.
ReadLiteral(s, plain) ==
  LET read[i \in 1 .. Len(s) + 2] ==
        IF i > Len(s) THEN [value |-> <<"open">>, next |-> Len(s) + 1]
        ELSE IF ~plain /\ s[i] = "\\"
             THEN IF i = Len(s) THEN [value |-> <<"open">>, next |-> Len(s) + 1]
                  ELSE [value |-> <<Unescaped(s[i + 1])>> \o read[i + 2].value, next |-> read[i + 2].next]
        ELSE IF s[i] = "'"
             THEN IF i < Len(s) /\ s[i + 1] = "'"
                  THEN [value |-> <<"'">> \o read[i + 2].value, next |-> read[i + 2].next]
                  ELSE [value |-> <<>>, next |-> i + 1]
        ELSE [value |-> <<s[i]>> \o read[i + 1].value, next |-> read[i + 1].next]
  IN read

\* What there is to read from each place on.
Reading(s, plain) ==
  LET lit == ReadLiteral(s, plain)
      read[i \in 1 .. Len(s) + 1] ==
        IF i > Len(s) THEN <<>>
        ELSE IF s[i] = "'"
             THEN <<[kind |-> IF lit[i + 1].value = <<"d">> THEN "time" ELSE "string",
                     value |-> lit[i + 1].value]>> \o read[lit[i + 1].next]
        ELSE IF s[i] = "_"
             THEN <<[kind |-> "bytes", value |-> lit[i + 2].value]>> \o read[lit[i + 2].next]
        ELSE IF s[i] = "d" THEN <<[kind |-> "number", value |-> <<"d">>]>> \o read[i + 1]
        ELSE IF s[i] = "N" THEN <<[kind |-> "nil", value |-> <<>>]>> \o read[i + 1]
        ELSE <<OfStatement>> \o read[i + 1]
  IN read

ReadBack(s, plain) == Reading(s, plain)[1]

\* The statement with each argument, whole, in the place of its `?`.
Meant ==
  [i \in DOMAIN query |->
     IF query[i] = "?" THEN args[Cardinality({j \in Placeholders(query) : j <= i})] ELSE OfStatement]

\* The server reads every argument back as it was given, whatever characters it has, at
\* its own place, and the statement around it unchanged, in both modes of escaping.
BuiltReadsBack == outcome = "ok" => ReadBack(buf, usingQuotes) = Meant

\* The same for a where clause, on a server that takes backslashes: its values, with the
\* statement between them.
WhereReadsBack ==
  (outcome = "where" /\ args # <<>>) =>
    ReadBack(buf, FALSE) =
      [i \in 1 .. 2 * Len(args) + 1 |-> IF i % 2 = 1 THEN OfStatement ELSE args[i \div 2]]

\* Text that is built in the process is read by the server as it was meant.
TextReadsBack == BuiltReadsBack /\ WhereReadsBack
=============================================================================
