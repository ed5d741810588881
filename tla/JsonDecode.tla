----------------------------- MODULE JsonDecode -----------------------------
(***************************************************************************)
(* JSONUnmarshal of data/json.go: how a JSON object is put into the fields *)
(* of a struct. Keys are found without regard to case, numbers and numeric *)
(* strings stand for each other, and a field with the tag gw_array gathers *)
(* the keys "name.0", "name.1"... into a slice.                            *)
(*                                                                         *)
(* A Go map has no order, so which of two keys that differ only in case is *)
(* found, and the order in which indexed keys are gathered, are anybody's  *)
(* guess. The struct is flat: a nested struct, time or slice of structs is *)
(* handed to a call of its own.                                            *)
(***************************************************************************)
EXTENDS Integers, Sequences, FiniteSets, Functions, SequencesExt

CONSTANTS
  Struct,   \* structs: sequences of fields [name, kind, array, default]
  Input,    \* objects: functions from keys [name, upper, index] to values
  EndsIn,   \* pairs <<a, b>> of names, a longer than b and ending in b
  Width,    \* bits of the integer fields
  Plain     \* %g writes numbers below this one with plain digits: a million

\* A key "id.1" has name "id" and index 1; index 0 is a key without suffix. upper: the
\* letters of the name are in another case than in the struct.
\* A value is [type, n]: "number" and "numeric" (a string of digits) have the integer
\* n, "bool" has 0 or 1, "list" a sequence of values; "word" is any other string.
ASSUME WidthAssumption == Width \in Nat \ {0}

Scalar(v) == v.type \in {"number", "numeric"} => v.n \in Int
Value(v) == Scalar(v) /\ (v.type = "list" => \A i \in DOMAIN v.n : Scalar(v.n[i]))

ASSUME InputAssumption == \A object \in Input : \A k \in DOMAIN object : Value(object[k])
ASSUME StructAssumption ==
  \A s \in Struct :
    /\ s \in Seq(Range(s))
    /\ \A i \in DOMAIN s : /\ s[i].kind \in {"int", "uint", "string", "bool", "slice", "pointer"}
                          /\ s[i].array \in BOOLEAN
                          /\ Value(s[i].default)

VARIABLES
  fields,    \* the struct
  given,     \* the object
  m,         \* what is left of it: fields with gw_array rewrite it
  nth,       \* the field at hand
  out,       \* each field's value so far
  decoded    \* "none", "busy", "ok", "error", "panic"

jsonVars == <<fields, given, m, nth, out, decoded>>

None == [type |-> "none", n |-> 0]

JsonInit ==
  /\ fields = <<>> /\ given = <<>> /\ m = <<>>
  /\ nth = 1
  /\ out = <<>>
  /\ decoded = "none"

-----------------------------------------------------------------------------
\* SetInt and SetUint keep the low bits of what does not fit.
Signed(n) == ((n + 2^(Width - 1)) % 2^Width) - 2^(Width - 1)
Unsigned(n) == n % 2^Width

\* What a value may become in a field of this kind: a set, empty for an error. A string
\* has to fit; a number is cut, and a negative one becomes any unsigned value, since Go
\* leaves that conversion from float64 open.
toInt(v) ==
  CASE v.type = "number" -> {Signed(v.n)}
    [] v.type = "numeric" /\ v.n = Signed(v.n) -> {v.n}
    [] OTHER -> {}

toUInt(v) ==
  CASE v.type = "number" -> IF v.n < 0 THEN 0 .. 2^Width - 1 ELSE {Unsigned(v.n)}
    [] v.type = "numeric" /\ v.n = Unsigned(v.n) -> {v.n}
    [] OTHER -> {}

toString(v) ==
  CASE v.type = "numeric" \/ (v.type = "number" /\ v.n \in -Plain + 1 .. Plain - 1) -> {v.n}
    [] v.type = "number" /\ v.n \notin -Plain + 1 .. Plain - 1 -> {"exponent"}
    [] v.type = "word" -> {"word"}
    [] OTHER -> {}

toBool(v) == IF v.type \in {"number", "numeric", "bool"} /\ v.n \in {0, 1} THEN {v.n = 1} ELSE {}

setPropertyValue(kind, v) ==
  CASE kind = "int" -> toInt(v)
    [] kind = "uint" -> toUInt(v)
    [] kind = "string" -> toString(v)
    [] kind = "bool" -> toBool(v)

\* A value that is no list counts as a list of one.
getSliceValue(v) == IF v.type = "list" THEN v.n ELSE <<v>>

-----------------------------------------------------------------------------
Found(f, keys) == {k \in keys : k.index = 0 /\ k.name = f.name}

\* The expression `name\.\d{1,10}` is not anchored: it also finds "my_name.0".
Indexed(f, keys) ==
  {k \in keys : k.index > 0 /\ ~k.upper /\ (k.name = f.name \/ <<k.name, f.name>> \in EndsIn)}

PlainKey(f) == [name |-> f.name, upper |-> FALSE, index |-> 0]

\* The values of the keys in this order.
Listed(object, order) == [type |-> "list", n |-> [i \in DOMAIN order |-> object[order[i]]]]

\* Mutated form: only what is gathered is kept.
PrepareGWArrayAlone(f, order) == [k \in {PlainKey(f)} |-> Listed(m, order)]

\* The keys of a gw_array field, in some order, become one key.
PrepareGWArray(f, order) ==
  [k \in (DOMAIN m \ Range(order)) \union {PlainKey(f)} |->
     IF k = PlainKey(f) THEN Listed(m, order) ELSE m[k]]

Zero(f) == CASE f.kind = "bool" -> FALSE
             [] f.kind = "slice" -> <<>>
             [] f.kind = "string" -> ""
             [] OTHER -> 0

Put(x) == out' = Append(out, x) /\ nth' = nth + 1 /\ UNCHANGED decoded
Fail(how) == decoded' = how /\ UNCHANGED <<out, nth>>

\* The field f gets the value v.
Set(f, v) ==
  CASE f.kind = "slice" ->
         IF v.type = "null" THEN Fail("panic")
         ELSE LET each == [i \in DOMAIN getSliceValue(v) |-> setPropertyValue("int", getSliceValue(v)[i])]
              IN IF \E i \in DOMAIN each : each[i] = {} THEN Fail("error")
                 ELSE Put([i \in DOMAIN each |-> CHOOSE x \in each[i] : TRUE])
    \* The pointer has been followed already, and is followed a second time.
    [] f.kind = "pointer" -> Fail("panic")
    [] OTHER -> \/ \E x \in setPropertyValue(f.kind, v) : Put(x)
                \/ setPropertyValue(f.kind, v) = {} /\ Fail("error")

JSONUnmarshal ==
  /\ decoded = "none"
  /\ fields' \in Struct
  /\ given' \in Input
  /\ m' = given'
  /\ decoded' = "busy"
  /\ UNCHANGED <<nth, out>>

\* One turn of the loop over the fields of jsonUnmarshalFromMap.
Field ==
  /\ decoded = "busy"
  /\ nth <= Len(fields)
  /\ LET f == fields[nth]
         gathered == IF f.array THEN Indexed(f, DOMAIN m) ELSE {}
     IN /\ IF gathered = {} THEN m' = m
           ELSE \E order \in SetToSeqs(gathered) : m' = PrepareGWArray(f, order)
        /\ \/ \E k \in Found(f, DOMAIN m') : Set(f, m'[k])
           \/ Found(f, DOMAIN m') = {} /\ IF f.default # None THEN Set(f, f.default) ELSE Put(Zero(f))
  /\ UNCHANGED <<fields, given>>

Decoded ==
  /\ decoded = "busy"
  /\ nth > Len(fields)
  /\ decoded' = "ok"
  /\ UNCHANGED <<fields, given, m, nth, out>>

NextObject ==
  /\ decoded \in {"ok", "error", "panic"}
  /\ fields' = <<>> /\ given' = <<>> /\ m' = <<>> /\ nth' = 1 /\ out' = <<>>
  /\ decoded' = "none"

JsonNext == JSONUnmarshal \/ Field \/ Decoded \/ NextObject

JsonSpec == JsonInit /\ [][JsonNext]_jsonVars

-----------------------------------------------------------------------------
Fits(kind, n) == IF kind = "uint" THEN n >= 0 /\ Unsigned(n) = n ELSE Signed(n) = n

\* x is the value v, in a field of this kind; nothing is said of numbers too large for it,
\* and a large number becomes a string with an exponent.
Holds(kind, v, x) ==
  CASE kind \in {"int", "uint"} -> Fits(kind, v.n) => x = v.n
    [] kind = "bool" -> x = (v.n = 1)
    [] kind = "string" -> x \in toString(v)

\* x is the value v, in the field f.
TakenFrom(f, v, x) ==
  IF f.kind = "slice"
  THEN /\ DOMAIN x = DOMAIN getSliceValue(v)
       /\ \A i \in DOMAIN x : Holds("int", getSliceValue(v)[i], x[i])
  ELSE Holds(f.kind, v, x)

\* The indexed keys that are f's own.
Own(f) == {k \in Indexed(f, DOMAIN given) : k.name = f.name}

Gathers(f) == f.array /\ Own(f) # {}

\* Nothing in the object can be taken for something else: no two fields of one name, no two
\* keys for one field, and no gw_array field whose name is the end of another key's.
Clear ==
  /\ \A i, j \in DOMAIN fields : fields[i].name = fields[j].name => i = j
  /\ \A i \in DOMAIN fields :
       LET f == fields[i] IN
       /\ \A k, l \in Found(f, DOMAIN given) : k = l
       /\ Gathers(f) => Found(f, DOMAIN given) = {}
       /\ f.array => Indexed(f, DOMAIN given) = Own(f)

\* The field f has the value of its own key: of its indexed keys, each once; of the single
\* key with its name in any case; else its default, else nothing.
FieldIsGiven(f, x) ==
  IF Gathers(f) THEN \E order \in SetToSeqs(Own(f)) : TakenFrom(f, Listed(given, order), x)
  ELSE IF Found(f, DOMAIN given) # {}
  THEN \E k \in Found(f, DOMAIN given) : TakenFrom(f, given[k], x)
  ELSE IF f.default # None THEN TakenFrom(f, f.default, x)
  ELSE x = Zero(f)

\* Every field gets the value of its own key, whatever the fields before it have done to
\* the map.
FieldsAreGiven ==
  (decoded = "ok" /\ Clear) => \A i \in DOMAIN fields : FieldIsGiven(fields[i], out[i])
=============================================================================
