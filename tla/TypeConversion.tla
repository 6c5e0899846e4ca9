--------------------------- MODULE TypeConversion ---------------------------
(***************************************************************************)
(* aurora_data_api/type_conversion.py: how a Python value becomes a        *)
(* parameter of the Data API, and how a field of a result becomes a Python *)
(* value, converted by the description the cursor keeps of its first       *)
(* result.  Between the two is one cell of a table.  What a value says is  *)
(* abstracted to its form, a number, a time, a text, and for moments to the*)
(* digits its fraction of a second needs.                                  *)
(***************************************************************************)
EXTENDS Integers

CONSTANTS
  Columns,       (* the PostgreSQL type names of columns, in lower case    *)
  ArrayColumns,  (* those of arrays                                        *)
  Digits         (* the numbers of digits a fraction of a second may need  *)

ASSUME ConstantsOK ==
  /\ Columns \subseteq STRING \ {"none"}
  /\ ArrayColumns \subseteq Columns
  /\ Digits \subseteq 0 .. 6 /\ 0 \in Digits

VARIABLES
  old,          (* Python before 3.11: fromisoformat reads a fraction of   *)
                (* three or six digits only                                *)
  description,  (* the column type of the cursor's description             *)
  cell,         (* the column type of the cell and what it holds           *)
  given,        (* the value a program wrote into it, or NotPython         *)
  got           (* what the last fetch of the cell gave, or Unread         *)

vars == <<old, description, cell, given, got>>

-----------------------------------------------------------------------------
(* Values.                                                                 *)

Moments   == {"time", "timestamp"}
Arrays    == {"array", "nested"}
Spellings == {"number", "date", "uuid", "net", "json"} \cup Moments
Texts     == {"text", "repr"} \cup Spellings
Forms     == {"null", "truth", "bytes", "infinity"} \cup Arrays \cup Texts

(* The form of the values of a Python type; DateTimeSub is a subclass of   *)
(* datetime.  A str may also spell a value of another type, for a CAST.    *)
FormOf ==
  [int |-> "number", float |-> "number", Decimal |-> "number",
   bool |-> "truth", bytes |-> "bytes", bytearray |-> "bytes",
   str |-> "text", date |-> "date", time |-> "time",
   datetime |-> "timestamp", DateTimeSub |-> "timestamp", UUID |-> "uuid",
   ip_network |-> "net", ip_address |-> "net", dict |-> "json",
   list |-> "array"]

PyTypes  == DOMAIN FormOf
NoColumn == "none"

Cell(c, form, frac)     == [col |-> c, form |-> form, frac |-> frac]
Value(type, form, frac) == [type |-> type, form |-> form, frac |-> frac]
NotPython               == Value("none", "null", 0)

Fractions(form) == IF form \in Moments THEN Digits ELSE {0}

PyValues ==
  UNION ({{Value(t, FormOf[t], k) : k \in Fractions(FormOf[t])} : t \in PyTypes}
           \cup {{Value("str", f, k) : k \in Fractions(f)} : f \in Spellings})

-----------------------------------------------------------------------------
(* Parameters.                                                             *)

(* _DATA_API_TYPE_MAP and _DATA_API_TYPE_HINT_MAP, by the exact type.      *)
Field == [bytes |-> "blobValue", bool |-> "booleanValue",
          float |-> "doubleValue", int |-> "longValue",
          str |-> "stringValue", Decimal |-> "stringValue"]

Hint == [date |-> "DATE", time |-> "TIME", datetime |-> "TIMESTAMP",
         Decimal |-> "DECIMAL"]

(* Mutant: bytes have no field of their own.                               *)
NoFieldForBytes(t) ==
  IF t \in DOMAIN Field \ {"bytes"} THEN Field[t] ELSE "stringValue"

FieldFor(t) == IF t \in DOMAIN Field THEN Field[t] ELSE "stringValue"
HintFor(t)  == IF t \in DOMAIN Hint THEN Hint[t] ELSE "none"

(* str(value): what PostgreSQL reads, but for containers and bytes.        *)
Str(v) ==
  IF v.type \in {"dict", "list", "bytes", "bytearray"} THEN "repr" ELSE v.form

(* _prepare_param; None is a NULL for any column.                          *)
PrepareParam(v) ==
  LET field == FieldFor(v.type)
  IN  [field |-> field, hint |-> HintFor(v.type), frac |-> v.frac,
       form  |-> IF field = "stringValue" THEN Str(v) ELSE v.form]

-----------------------------------------------------------------------------
(* Columns.                                                                *)

(* _PG_TYPE_MAP; what it does not list is a str.                           *)
PgType ==
  [int |-> "int", int2 |-> "int", int4 |-> "int", int8 |-> "int",
   float4 |-> "float", float8 |-> "float",
   serial2 |-> "int", serial4 |-> "int", serial8 |-> "int",
   bool |-> "bool", varbit |-> "bytes", bytea |-> "bytearray",
   char |-> "str", varchar |-> "str", text |-> "str",
   cidr |-> "ip_network", inet |-> "ip_address", date |-> "date",
   time |-> "time", timetz |-> "time",
   timestamp |-> "datetime", timestamptz |-> "datetime",
   uuid |-> "UUID", json |-> "dict", jsonb |-> "dict", money |-> "str",
   numeric |-> "Decimal", decimal |-> "Decimal"]

TypeCode(c) == IF c \in DOMAIN PgType THEN PgType[c] ELSE "str"

TzAware == {"timestamptz", "timetz"}

(* External: the field the values of a column come in.                     *)
WireField(c) ==
  IF TypeCode(c) = "bytearray" THEN "blobValue"
  ELSE IF TypeCode(c) \in {"int", "float", "bool"} THEN Field[TypeCode(c)]
  ELSE "stringValue"

IsText(c) == TypeCode(c) = "str" /\ c \notin ArrayColumns

IsBinary(c) == TypeCode(c) = "bytearray"

(* External: the parameters a column takes as they are, and what a CAST in *)
(* the statement reads as a value of the column.  bytea takes any text that*)
(* has no backslash, as its bytes.                                         *)
Takes(c, p) ==
  \/ p.field = "longValue" /\ TypeCode(c) \in {"int", "Decimal"}
  \/ p.field = "doubleValue" /\ TypeCode(c) \in {"float", "Decimal"}
  \/ p.field = "booleanValue" /\ TypeCode(c) = "bool"
  \/ p.field = "blobValue" /\ TypeCode(c) = "bytearray"
  \/ p.field = "stringValue" /\ p.hint = "none" /\ IsText(c)
  \/ p.hint = "DATE" /\ TypeCode(c) = "date"
  \/ p.hint = "TIME" /\ TypeCode(c) = "time"
  \/ p.hint = "TIMESTAMP" /\ TypeCode(c) = "datetime"
  \/ p.hint = "DECIMAL" /\ TypeCode(c) = "Decimal"

TakesCast(c, p) ==
  /\ p.field = "stringValue"
  /\ \/ IsText(c)
     \/ IsBinary(c) /\ p.hint = "none"
     \/ TypeCode(c) # "str" /\ FormOf[TypeCode(c)] = p.form

(* External: what else a column may hold.                                  *)
Held(c) ==
  {"null"} \cup
  (IF c \in ArrayColumns THEN Arrays
   ELSE IF IsText(c) THEN Texts
   ELSE IF TypeCode(c) \in {"date", "datetime"}
     THEN {FormOf[TypeCode(c)], "infinity"}
   ELSE {FormOf[TypeCode(c)]})

(* External: a fraction comes with its zeros trimmed or not.               *)
DigitsSent(k) == IF k = 0 THEN {0} ELSE {k} \cup {d \in {3, 6} : d >= k}

-----------------------------------------------------------------------------
(* Results.                                                                *)

(* tc.fromisoformat.  The digits of a number may also be an ISO date or    *)
(* time, 20240131 or 12; an old Python knows the time only.                *)
FromIsoFormat(tc, w) ==
  \/ w.form = "number" /\ w.iso /\ (old => tc = "time")
  \/ tc \in {"date", "datetime"} /\ w.form = "date"
  \/ /\ <<tc, w.form>> \in {<<"time", "time">>, <<"datetime", "timestamp">>}
     /\ old => w.wire \in {0, 3, 6}

(* Mutant: the format of datetime has no fraction either.                  *)
StrptimeOfWhole(tc, w) ==
  \/ tc = "date" /\ w.form = "date"
  \/ <<tc, w.form>> \in {<<"time", "time">>, <<"datetime", "timestamp">>}
       /\ w.wire = 0

(* The formats of the except clause; only that of datetime has a fraction. *)
Strptime(tc, w) ==
  \/ tc = "date" /\ w.form = "date"
  \/ tc = "time" /\ w.form = "time" /\ w.wire = 0
  \/ tc = "datetime" /\ w.form = "timestamp"

(* Mutant: the fraction is read with a format that has none.               *)
FractionIsDropped(tc, w) == IF FromIsoFormat(tc, w) THEN w.frac ELSE 0

FractionRead(tc, w) == w.frac

(* Mutant: UTC is attached only to what fromisoformat has parsed.          *)
AwareIfIso(c, tc, w) ==
  c \in TzAware /\ tc \in {"datetime", "time"} /\ FromIsoFormat(tc, w)

Aware(c, tc, w) == c \in TzAware /\ tc \in {"datetime", "time"}

Gives(type, form, frac, aware) ==
  [type |-> type, form |-> form, frac |-> frac, aware |-> aware]

None   == Gives("NoneType", "null", 0, FALSE)
Unread == Gives("unread", "null", 0, FALSE)
Raised == Gives("raised", "null", 0, FALSE)

ToDecimal(w) ==
  IF w.form \in {"number", "truth", "infinity"} /\ w.field # "blobValue"
    THEN Gives("Decimal", w.form, w.frac, FALSE)
    ELSE Raised

ToTemporal(c, w) ==
  LET tc == TypeCode(c)
  IN  IF w.field = "stringValue" /\ (FromIsoFormat(tc, w) \/ Strptime(tc, w))
        THEN Gives(tc, IF w.form = "number" THEN FormOf[tc] ELSE w.form,
                   FractionRead(tc, w), Aware(c, tc, w))
        ELSE Raised

(* What boto3 makes of a field.                                            *)
PyField == [blobValue |-> "bytes", booleanValue |-> "bool",
            doubleValue |-> "float", longValue |-> "int",
            stringValue |-> "str"]

(* convert_value(w, col_desc of type c).                                   *)
ConvertValue(w, c) ==
  IF w.form = "null" THEN None
  ELSE IF w.form = "nested" THEN Raised
  ELSE IF w.form = "array" THEN Gives("list", w.form, w.frac, FALSE)
  ELSE IF TypeCode(c) = "Decimal" THEN ToDecimal(w)
  ELSE IF TypeCode(c) \in DOMAIN Hint THEN ToTemporal(c, w)
  ELSE Gives(PyField[w.field], w.form, w.frac, FALSE)

-----------------------------------------------------------------------------
(* A table of one cell, and a cursor.                                      *)

TypeOK ==
  /\ old \in BOOLEAN
  /\ description \in Columns \cup {NoColumn}
  /\ cell \in [col : Columns, form : Forms, frac : Digits]
  /\ given \in PyValues \cup {NotPython}
  /\ got \in [type : PyTypes \cup {"NoneType", "unread", "raised"},
              form : Forms, frac : Digits, aware : BOOLEAN]

Init ==
  /\ old \in BOOLEAN /\ description = NoColumn
  /\ cell \in {Cell(c, "null", 0) : c \in Columns}
  /\ given = NotPython /\ got = Unread

Holds(c, form, frac, value) ==
  /\ cell' = Cell(c, form, frac) /\ given' = value /\ got' = Unread
  /\ UNCHANGED <<old, description>>

(* A program writes a value, with a CAST or without.                       *)
Write(c, v, cast) ==
  LET p == PrepareParam(v)
  IN  /\ IF cast THEN TakesCast(c, p) ELSE Takes(c, p)
      /\ Holds(c, p.form, p.frac, v)

(* Something else puts a value there, or a program None.                   *)
OtherWrites(c) ==
  \E f \in Held(c) : \E k \in Fractions(f) : Holds(c, f, k, NotPython)

(* build_description, unless the cursor has one.                           *)
Described == IF description = NoColumn THEN cell.col ELSE description

(* _render_response: the cell is converted by the description there is.    *)
Fetch ==
  \E d \in DigitsSent(cell.frac), iso \in BOOLEAN :
    /\ description' = Described
    /\ got' = ConvertValue([field |-> WireField(cell.col), form |-> cell.form,
                            frac |-> cell.frac, wire |-> d, iso |-> iso],
                           Described)
    /\ UNCHANGED <<old, cell, given>>

NewCursor ==
  /\ description' = NoColumn /\ got' = Unread
  /\ UNCHANGED <<old, cell, given>>

Next ==
  \/ \E c \in Columns, v \in PyValues, cast \in BOOLEAN : Write(c, v, cast)
  \/ \E c \in Columns : OtherWrites(c)
  \/ Fetch
  \/ NewCursor

Spec == Init /\ [][Next]_vars

-----------------------------------------------------------------------------
(* Properties.                                                             *)

IsRead == got \notin {Unread, Raised}
IsOwn  == description = cell.col

(* What a fetch gives denotes what the cell holds, with every digit of its *)
(* fraction, whichever of the two parsers read it, on an old Python or a   *)
(* new one, and even where the description is of another result, but for a *)
(* number, whose digits such a description may read as a date or a time.   *)
NeverAnotherValue ==
  IsRead =>
    \/ got.form = cell.form /\ got.frac = cell.frac
    \/ cell.form = "number" /\ TypeCode(description) \in DOMAIN Hint

(* With the description of its own column a value has the type the         *)
(* description names, where the driver converts to it, and a moment is     *)
(* aware exactly in the columns PostgreSQL anchors to UTC, so that the     *)
(* moments of a column can be compared (type_conversion.py:49-52).         *)
ReadsAsDescribed ==
  IsRead /\ IsOwn /\ cell.form \notin Arrays \cup {"null"} =>
    /\ (TypeCode(cell.col) \in {"int", "float", "bool", "str"} \cup DOMAIN Hint
          => got.type = TypeCode(cell.col))
    /\ got.aware = (cell.col \in TzAware)

(* A fetch raises only for a nested array, a moment Python has no name for,*)
(* a time whose fraction an old Python cannot read, or a description of    *)
(* another result.                                                         *)
RaisesOnlyFor ==
  got = Raised =>
    \/ cell.form \in {"nested", "infinity"}
    \/ old /\ cell.form = "time" /\ cell.frac \notin {0, 3, 6}
    \/ ~IsOwn /\ TypeCode(description) \in DOMAIN Hint

(* A cell holds what the program meant, but where the driver sends what    *)
(* Python prints, into a column of text or with a CAST to bytea.           *)
StoredIsGiven ==
  given # NotPython =>
    \/ cell.form = given.form /\ cell.frac = given.frac
    \/ /\ IsText(cell.col) \/ IsBinary(cell.col)
       /\ given.type \in {"dict", "list", "bytearray"}

-----------------------------------------------------------------------------
(* The inductive invariant, proved in TypeConversionProofs: a column the   *)
(* driver converts holds values of its own form, or what PostgreSQL adds;  *)
(* bytea may hold the bytes of any text.                                   *)
CellFits ==
  TypeCode(cell.col) # "str" =>
    \/ IsBinary(cell.col) /\ cell.form \in Texts
    \/ cell.form \in {"null", "infinity", FormOf[TypeCode(cell.col)]} \cup Arrays

ReadInv == CellFits /\ ReadsAsDescribed /\ RaisesOnlyFor
=============================================================================
