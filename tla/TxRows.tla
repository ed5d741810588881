------------------------------- MODULE TxRows -------------------------------
(***************************************************************************)
(* Queries inside a transaction: ScanGet, Get and Gets of _TxWrap in       *)
(* data/db_base.go. Get and Gets scan every column into a string and set   *)
(* the fields of the caller's struct from those; Gets appends to the       *)
(* caller's slice.                                                         *)
(*                                                                         *)
(* External: the rows the server sends. Rows that break off with an error  *)
(* are no different here from rows that end: Next is false either way, and *)
(* Get and Gets do not ask Rows.Err, which would tell.                     *)
(***************************************************************************)
EXTENDS Integers, Sequences, FiniteSets

CONSTANTS
  Columns,    \* column lists of queries: sequences of names
  Field,      \* fields of the model: [name, kind], name being the tag db
  Text,       \* column values as strings; "NULL" cannot be scanned into a string
  Lower,      \* strings.ToLower of each
  Number,     \* the integer that strconv.Atoi reads from some of them
  MaxRows,    \* bounds the rows of a query
  Half        \* half the number of values of an integer field

ASSUME ColumnsAssumption == Columns \subseteq Seq(STRING)
ASSUME FieldAssumption == Field \subseteq [name : STRING, kind : {"string", "bool", "int", "uint"}]
ASSUME LowerAssumption == Lower \in [Text -> STRING]
ASSUME NumberAssumption == DOMAIN Number \subseteq Text \ {""} /\ Number \in [DOMAIN Number -> Int]
ASSUME MaxRowsAssumption == MaxRows \in Nat
ASSUME HalfAssumption == Half \in Nat \ {0}

VARIABLES
  method,     \* "none", "ScanGet", "Get", "Gets"
  columns,    \* the columns of the result
  unread,     \* the rows still to come
  seen,       \* history: the rows that have been read
  prior,      \* the caller's struct before Get
  dest,       \* the structs the caller has: the one of Get, the slice of Gets
  rowCounts,  \* what is returned
  queryErr    \* "none" as long as the query runs, then "nil" or "error"

rowVars == <<method, columns, unread, seen, prior, dest, rowCounts, queryErr>>

Zeroes == [f \in Field |-> CASE f.kind = "string" -> "" [] f.kind = "bool" -> FALSE [] OTHER -> 0]

RowsInit ==
  /\ method = "none"
  /\ columns = <<>> /\ unread = <<>> /\ seen = <<>> /\ dest = <<>>
  /\ prior = Zeroes
  /\ rowCounts = 0
  /\ queryErr = "none"

-----------------------------------------------------------------------------
\* columnIndex: of several columns with one name the last counts.
ColumnIndex(name) ==
  CHOOSE i \in DOMAIN columns : columns[i] = name /\ \A j \in DOMAIN columns : columns[j] = name => j <= i

Cut(kind, n) == IF kind = "uint" THEN n % (2 * Half) ELSE ((n + Half) % (2 * Half)) - Half

\* A field that held x, set from the text s: SetInt and SetUint keep the low bits.
SetField(kind, s, x) ==
  IF s = "" THEN x
  ELSE CASE kind = "string" -> s
         [] kind = "bool"   -> Lower[s] \notin {"0", "false"}
         [] kind \in {"int", "uint"} -> IF s \in DOMAIN Number THEN Cut(kind, Number[s]) ELSE x

\* The struct old, set from a row.
Scanned(old, row) ==
  [f \in Field |-> IF \E i \in DOMAIN columns : columns[i] = f.name
                   THEN SetField(f.kind, row[ColumnIndex(f.name)], old[f]) ELSE old[f]]

Unscannable(row) == \E i \in DOMAIN row : row[i] = "NULL"

Returns(n, e) == rowCounts' = n /\ queryErr' = e

-----------------------------------------------------------------------------
\* The query is sent. An error of its own, or of the column types that Gets asks for
\* next, ends it here.
SendQuery ==
  /\ method = "none"
  /\ method' \in {"ScanGet", "Get", "Gets"}
  /\ columns' \in Columns
  /\ unread' \in UNION {[1 .. k -> [DOMAIN columns' -> Text]] : k \in 0 .. MaxRows}
  /\ prior' \in {Zeroes, [f \in Field |-> CASE f.kind = "string" -> "old" [] f.kind = "bool" -> TRUE [] OTHER -> 1]}
  /\ dest' = IF method' = "Get" THEN <<prior'>> ELSE <<>>
  /\ \E e \in {"none", "error"} : Returns(0, e)
  /\ UNCHANGED seen

Running(op) == method = op /\ queryErr = "none"

See(row) == seen' = Append(seen, row)

SameCall == UNCHANGED <<method, columns, prior>>

\* Row.Scan tells a missing row; the columns go straight into the caller's variables.
ScanGet ==
  /\ Running("ScanGet")
  /\ IF unread = <<>> THEN Returns(0, "error") /\ UNCHANGED seen
     ELSE /\ See(Head(unread))
          /\ \/ ~Unscannable(Head(unread)) /\ Returns(1, "nil")
             \/ Returns(0, "error")
  /\ UNCHANGED <<unread, dest>> /\ SameCall

\* One row counts, also where there is none. Of a row that is there the column types
\* may be an error.
Get ==
  /\ Running("Get")
  /\ IF unread = <<>> THEN Returns(1, "nil") /\ UNCHANGED <<seen, dest>>
     ELSE /\ See(Head(unread))
          /\ \/ Returns(0, "error") /\ UNCHANGED dest
             \/ /\ ~Unscannable(Head(unread))
                /\ dest' = <<Scanned(dest[1], Head(unread))>> /\ Returns(1, "nil")
  /\ UNCHANGED unread /\ SameCall

\* Mutated form: one struct is made before the loop and appended for every row.
GetsRowReused ==
  /\ Running("Gets")
  /\ IF unread = <<>> THEN Returns(rowCounts, "nil") /\ UNCHANGED <<unread, seen, dest>>
     ELSE /\ See(Head(unread))
          /\ unread' = Tail(unread)
          /\ IF Unscannable(Head(unread)) THEN Returns(0, "error") /\ UNCHANGED dest
             ELSE /\ dest' = Append(dest, Scanned(IF dest = <<>> THEN Zeroes ELSE dest[Len(dest)], Head(unread)))
                  /\ Returns(rowCounts + 1, "none")
  /\ SameCall

\* One turn of the loop over the rows. What was appended before an error stays.
Gets ==
  /\ Running("Gets")
  /\ IF unread = <<>> THEN Returns(rowCounts, "nil") /\ UNCHANGED <<unread, seen, dest>>
     ELSE /\ See(Head(unread))
          /\ unread' = Tail(unread)
          /\ IF Unscannable(Head(unread)) THEN Returns(0, "error") /\ UNCHANGED dest
             ELSE /\ dest' = Append(dest, Scanned(Zeroes, Head(unread)))
                  /\ Returns(rowCounts + 1, "none")
  /\ SameCall

NextQuery ==
  /\ queryErr # "none"
  /\ method' = "none" /\ columns' = <<>> /\ unread' = <<>> /\ seen' = <<>> /\ dest' = <<>>
  /\ prior' = Zeroes
  /\ Returns(0, "none")

RowsNext == SendQuery \/ ScanGet \/ Get \/ Gets \/ NextQuery

RowsSpec == RowsInit /\ [][RowsNext]_rowVars

-----------------------------------------------------------------------------
\* An integer field that is set from n holds what its width leaves of n: a value of the
\* field that differs from n by a multiple of their number, so n itself where it fits.
LowBits(kind, x, n) ==
  /\ IF kind = "uint" THEN x \in 0 .. 2 * Half - 1 ELSE x \in -Half .. Half - 1
  /\ (n - x) % (2 * Half) = 0

\* The field x of a struct whose field was old is what the text says.
Says(kind, s, old, x) ==
  CASE kind = "string" -> x = IF s = "" THEN old ELSE s
    [] kind = "bool"   -> x = IF s = "" THEN old ELSE Lower[s] \notin {"0", "false"}
    [] kind \in {"int", "uint"} ->
         IF s \in DOMAIN Number THEN LowBits(kind, x, Number[s]) ELSE x = old

\* Each field is what the last of the columns of its name says; a field that no column
\* has the name of is as it was.
FromRow(old, row, new) ==
  \A f \in Field :
    LET own == {i \in DOMAIN columns : columns[i] = f.name} IN
    /\ own = {} => new[f] = old[f]
    /\ \A i \in own : (\A j \in own : j <= i) => Says(f.kind, row[i], old[f], new[f])

\* Each struct is filled from its own row alone, although blank and unreadable columns
\* leave their fields as they were, and the count is that of the rows that were read.
\* What Get counts where there is no row is left open: the code says one (781), its
\* own branch for sql.ErrNoRows and Database.query say none.
RowsAreRead ==
  queryErr = "nil" =>
    /\ method = "Gets" => /\ rowCounts = Len(dest) /\ Len(seen) = Len(dest)
                          /\ \A i \in DOMAIN dest : FromRow(Zeroes, seen[i], dest[i])
    /\ method = "Get" => IF seen = <<>> THEN dest = <<prior>>
                         ELSE rowCounts = 1 /\ FromRow(prior, seen[1], dest[1])
    /\ method = "ScanGet" => rowCounts = 1 /\ Len(seen) = 1
=============================================================================
