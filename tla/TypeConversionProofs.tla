------------------------ MODULE TypeConversionProofs ------------------------
(***************************************************************************)
(* Theorems about TypeConversion for any columns and any fractions.        *)
(***************************************************************************)
EXTENDS TypeConversion, TLAPS

-----------------------------------------------------------------------------
(* What convert_value gives.                                               *)

(* The value it is given, unless it raises.                                *)
LEMMA ConvertsTheValue ==
  ASSUME NEW c, NEW w, NEW r, r = ConvertValue(w, c), r # Raised
  PROVE  \/ r.form = w.form /\ (r.frac = w.frac \/ r = None)
         \/ w.form = "number" /\ TypeCode(c) \in DOMAIN Hint
<1>1. CASE w.form = "null"
  BY <1>1 DEF ConvertValue, None, Gives
<1>2. CASE w.form = "nested"
  BY <1>2 DEF ConvertValue
<1>3. CASE w.form = "array"
  BY <1>3 DEF ConvertValue, Gives
<1>4. CASE w.form \notin {"null", "nested", "array"}
  <2>1. CASE TypeCode(c) = "Decimal"
    BY <1>4, <2>1 DEF ConvertValue, ToDecimal, Gives
  <2>2. CASE TypeCode(c) \in {"date", "time", "datetime"}
    <3>1. r = ToTemporal(c, w)
      BY <1>4, <2>2 DEF ConvertValue, Hint
    <3>. QED BY <2>2, <3>1 DEF ToTemporal, FractionRead, Gives, Hint
  <2>3. CASE TypeCode(c) \notin {"Decimal", "date", "time", "datetime"}
    BY <1>4, <2>3 DEF ConvertValue, Hint, Gives
  <2>. QED BY <2>1, <2>2, <2>3
<1>. QED BY <1>1, <1>2, <1>3, <1>4

(* None for a NULL only.                                                   *)
LEMMA NoneIsNull ==
  ASSUME NEW c, NEW w, ConvertValue(w, c) = None
  PROVE  w.form = "null"
<1>1. None # Raised
  BY DEF None, Raised, Gives
<1>2. \A t \in DOMAIN PyField : PyField[t] # "NoneType"
  BY DEF PyField
<1>3. TypeCode(c) # "NoneType"
  BY DEF TypeCode, PgType
<1>4. ToDecimal(w) # None /\ ToTemporal(c, w) # None
  BY <1>3 DEF ToDecimal, ToTemporal, None, Raised, Gives
<1>. QED BY <1>1, <1>4, ConvertsTheValue DEF ConvertValue, None, Gives, Hint

-----------------------------------------------------------------------------
(* A fetch denotes what the cell holds.                                    *)

NullIsWhole == cell.form = "null" => cell.frac = 0

LEMMA FormsOfTypes ==
  \A t \in PyTypes : FormOf[t] \notin {"null", "repr"}
BY DEF PyTypes, FormOf

LEMMA ValuesAreTyped ==
  ASSUME NEW v \in PyValues
  PROVE  v.type \in PyTypes /\ v.form # "null"
<1>1. CASE \E t \in PyTypes : \E k \in Fractions(FormOf[t]) :
              v = Value(t, FormOf[t], k)
  BY <1>1, FormsOfTypes DEF Value
<1>2. CASE \E f \in Spellings : \E k \in Fractions(f) : v = Value("str", f, k)
  BY <1>2 DEF Value, Spellings, Moments, PyTypes, FormOf
<1>. QED BY <1>1, <1>2 DEF PyValues

LEMMA ValuesAreNotNull ==
  ASSUME NEW v \in PyValues
  PROVE  PrepareParam(v).form # "null"
BY ValuesAreTyped DEF PrepareParam, Str

LEMMA InitDenotes == Init => NullIsWhole /\ NeverAnotherValue
BY DEF Init, NullIsWhole, NeverAnotherValue, IsRead, Cell

LEMMA HoldsDenotes ==
  ASSUME NEW c, NEW f, NEW k, NEW v, Holds(c, f, k, v), f = "null" => k = 0
  PROVE  NullIsWhole' /\ NeverAnotherValue'
BY DEF Holds, NullIsWhole, NeverAnotherValue, IsRead, Cell

LEMMA FetchDenotes ==
  ASSUME NullIsWhole, Fetch
  PROVE  NullIsWhole' /\ NeverAnotherValue'
<1>1. PICK d \in DigitsSent(cell.frac), iso \in BOOLEAN :
        got' = ConvertValue([field |-> WireField(cell.col), form |-> cell.form,
                             frac |-> cell.frac, wire |-> d, iso |-> iso],
                            Described)
  BY DEF Fetch
<1>2. cell' = cell /\ description' = Described
  BY DEF Fetch
<1>3. CASE got' = None
  <2>. DEFINE w == [field |-> WireField(cell.col), form |-> cell.form,
                    frac |-> cell.frac, wire |-> d, iso |-> iso]
  <2>0. ConvertValue(w, Described) = None
    BY <1>1, <1>3
  <2>. HIDE DEF w
  <2>1. w.form = "null"
    BY <2>0, NoneIsNull
  <2>2. cell.form = "null"
    BY <2>1 DEF w
  <2>. QED BY <1>2, <1>3, <2>2
       DEF NullIsWhole, NeverAnotherValue, None, Gives
<1>4. CASE got' # None
  BY <1>1, <1>2, <1>4, ConvertsTheValue
  DEF NullIsWhole, NeverAnotherValue, IsRead
<1>. QED BY <1>3, <1>4

LEMMA NextDenotes ==
  ASSUME NullIsWhole, NeverAnotherValue, [Next]_vars
  PROVE  NullIsWhole' /\ NeverAnotherValue'
<1>1. ASSUME NEW c \in Columns, NEW v \in PyValues, NEW cast \in BOOLEAN,
             Write(c, v, cast)
      PROVE  NullIsWhole' /\ NeverAnotherValue'
  BY <1>1, ValuesAreNotNull, HoldsDenotes DEF Write
<1>2. ASSUME NEW c \in Columns, OtherWrites(c)
      PROVE  NullIsWhole' /\ NeverAnotherValue'
  <2>1. PICK f \in Held(c) : \E k \in Fractions(f) : Holds(c, f, k, NotPython)
    BY <1>2 DEF OtherWrites
  <2>2. PICK k \in Fractions(f) : Holds(c, f, k, NotPython)
    BY <2>1
  <2>3. f = "null" => k = 0
    BY DEF Fractions, Moments
  <2>. QED BY <2>2, <2>3, HoldsDenotes
<1>3. CASE Fetch
  BY <1>3, FetchDenotes
<1>4. CASE NewCursor
  BY <1>4 DEF NewCursor, NullIsWhole, NeverAnotherValue, IsRead
<1>5. CASE UNCHANGED vars
  BY <1>5 DEF vars, NullIsWhole, NeverAnotherValue, IsRead
<1>. QED BY <1>1, <1>2, <1>3, <1>4, <1>5 DEF Next

(* No fetch gives another value than the cell holds, for any columns,      *)
(* fractions, Python and description.                                      *)
THEOREM FetchesDenoteTheCell == Spec => []NeverAnotherValue
<1>1. NullIsWhole /\ NeverAnotherValue /\ [Next]_vars
        => NullIsWhole' /\ NeverAnotherValue'
  BY NextDenotes
<1>. QED BY InitDenotes, <1>1, PTL DEF Spec

-----------------------------------------------------------------------------
(* A cell holds what was meant.                                            *)

LEMMA WriteStores ==
  ASSUME NEW c \in Columns, NEW v \in PyValues, NEW cast \in BOOLEAN,
         Write(c, v, cast)
  PROVE  StoredIsGiven'
<1>1. v.type \in PyTypes
  BY ValuesAreTyped
<1>2. /\ cell' = Cell(c, PrepareParam(v).form, PrepareParam(v).frac)
      /\ given' = v
  BY DEF Write, Holds
<1>3. PrepareParam(v).frac = v.frac
  BY DEF PrepareParam
<1>4. CASE v.type \notin {"dict", "list", "bytes", "bytearray"}
  BY <1>2, <1>3, <1>4 DEF PrepareParam, Str, StoredIsGiven, Cell
<1>5. CASE v.type = "bytes"
  <2>1. PrepareParam(v).form = v.form
    BY <1>5 DEF PrepareParam, FieldFor, Field
  <2>. QED BY <1>2, <1>3, <2>1 DEF StoredIsGiven, Cell
<1>6. CASE v.type \in {"dict", "list", "bytearray"}
  <2>1. /\ PrepareParam(v).field = "stringValue"
        /\ PrepareParam(v).hint = "none"
        /\ PrepareParam(v).form = "repr"
    BY <1>6 DEF PrepareParam, FieldFor, HintFor, Field, Hint, Str
  <2>2. CASE cast
    <3>1. IsText(c) \/ IsBinary(c) \/ FormOf[TypeCode(c)] = "repr"
      BY <2>1, <2>2 DEF Write, TakesCast
    <3>2. \A t \in PyTypes : FormOf[t] # "repr"
      BY FormsOfTypes
    <3>3. TypeCode(c) \in PyTypes
      BY DEF TypeCode, PgType, PyTypes, FormOf
    <3>. QED BY <1>2, <1>6, <3>1, <3>2, <3>3 DEF StoredIsGiven, Cell
  <2>3. CASE ~cast
    <3>1. IsText(c)
      BY <2>1, <2>3 DEF Write, Takes
    <3>. QED BY <1>2, <1>6, <3>1 DEF StoredIsGiven, Cell
  <2>. QED BY <2>2, <2>3
<1>. QED BY <1>4, <1>5, <1>6

(* What the driver sends is what the program means, or refused, or the     *)
(* text Python prints, in a column of text or cast to bytea.               *)
THEOREM CellsHoldWhatWasGiven == Spec => []StoredIsGiven
<1>1. Init => StoredIsGiven
  BY DEF Init, StoredIsGiven
<1>2. StoredIsGiven /\ [Next]_vars => StoredIsGiven'
  <2>. SUFFICES ASSUME StoredIsGiven, [Next]_vars PROVE StoredIsGiven'
    OBVIOUS
  <2>1. ASSUME NEW c \in Columns, OtherWrites(c) PROVE StoredIsGiven'
    BY <2>1 DEF OtherWrites, Holds, StoredIsGiven
  <2>2. CASE Fetch \/ NewCursor \/ UNCHANGED vars
    BY <2>2 DEF Fetch, NewCursor, vars, StoredIsGiven
  <2>. QED BY WriteStores, <2>1, <2>2 DEF Next
<1>. QED BY <1>1, <1>2, PTL DEF Spec

-----------------------------------------------------------------------------
(* Types.                                                                  *)

GotTypes ==
  [type : PyTypes \cup {"NoneType", "unread", "raised"},
   form : Forms, frac : Digits, aware : BOOLEAN]

LEMMA TypesAreKnown ==
  /\ \A c : TypeCode(c) \in PyTypes
  /\ \A c : WireField(c) \in DOMAIN PyField
  /\ \A f \in DOMAIN PyField : PyField[f] \in PyTypes
  /\ \A t \in PyTypes : FormOf[t] \in Forms
<1>1. \A t \in PyTypes : FormOf[t] \in Forms
  BY DEF PyTypes, FormOf, Forms, Texts, Spellings, Moments, Arrays
<1>2. \A c : TypeCode(c) \in PyTypes
  BY DEF TypeCode, PgType, PyTypes, FormOf
<1>3. \A c : WireField(c) \in DOMAIN PyField
  BY DEF WireField, PyField, Field
<1>4. \A f \in DOMAIN PyField : PyField[f] \in PyTypes
  BY DEF PyField, PyTypes, FormOf
<1>. QED BY <1>1, <1>2, <1>3, <1>4

(* What convert_value gives is None, raised, or of a Python type.          *)
LEMMA ConvertsToTypes ==
  ASSUME NEW c, NEW w, w.form \in Forms, w.frac \in Digits,
         w.field \in DOMAIN PyField
  PROVE  ConvertValue(w, c) \in GotTypes
<1>1. 0 \in Digits /\ "null" \in Forms
  BY ConstantsOK DEF Forms
<1>2. None \in GotTypes /\ Raised \in GotTypes
  BY <1>1 DEF None, Raised, Gives, GotTypes
<1>3. ASSUME NEW type \in PyTypes, NEW form \in Forms, NEW aware \in BOOLEAN
      PROVE  Gives(type, form, w.frac, aware) \in GotTypes
  BY DEF Gives, GotTypes
<1>4. "list" \in PyTypes /\ "Decimal" \in PyTypes
  BY DEF PyTypes, FormOf
<1>5. ToDecimal(w) \in GotTypes
  BY <1>2, <1>3, <1>4 DEF ToDecimal
<1>6. ToTemporal(c, w) \in GotTypes
  <2>. DEFINE form == IF w.form = "number" THEN FormOf[TypeCode(c)] ELSE w.form
  <2>1. TypeCode(c) \in PyTypes /\ form \in Forms
    BY TypesAreKnown
  <2>2. Aware(c, TypeCode(c), w) \in BOOLEAN
    BY DEF Aware
  <2>3. Gives(TypeCode(c), form, w.frac, Aware(c, TypeCode(c), w)) \in GotTypes
    BY <1>3, <2>1, <2>2
  <2>. QED BY <1>2, <2>3 DEF ToTemporal, FractionRead
<1>7. Gives(PyField[w.field], w.form, w.frac, FALSE) \in GotTypes
  BY <1>3, TypesAreKnown
<1>. QED BY <1>2, <1>3, <1>4, <1>5, <1>6, <1>7 DEF ConvertValue

LEMMA WritesTyped ==
  ASSUME TypeOK, NEW c \in Columns, NEW v \in PyValues, NEW cast \in BOOLEAN,
         Write(c, v, cast)
  PROVE  TypeOK'
<1>1. v.form \in Forms /\ v.frac \in Digits
  <2>1. CASE \E t \in PyTypes : \E k \in Fractions(FormOf[t]) :
               v = Value(t, FormOf[t], k)
    BY <2>1, TypesAreKnown, ConstantsOK DEF Value, Fractions
  <2>2. CASE \E f \in Spellings : \E k \in Fractions(f) : v = Value("str", f, k)
    BY <2>2, ConstantsOK DEF Value, Fractions, Forms, Texts
  <2>. QED BY <2>1, <2>2 DEF PyValues
<1>2. PrepareParam(v).form \in Forms /\ PrepareParam(v).frac \in Digits
  BY <1>1 DEF PrepareParam, Str, Forms, Texts
<1>3. Unread \in GotTypes
  BY ConstantsOK DEF Unread, Gives, GotTypes, Forms
<1>. QED BY <1>2, <1>3 DEF Write, Holds, Cell, TypeOK, GotTypes

LEMMA OthersTyped ==
  ASSUME TypeOK, NEW c \in Columns, OtherWrites(c)
  PROVE  TypeOK'
<1>1. PICK f \in Held(c) : \E k \in Fractions(f) : Holds(c, f, k, NotPython)
  BY DEF OtherWrites
<1>2. PICK k \in Fractions(f) : Holds(c, f, k, NotPython)
  BY <1>1
<1>3. f \in Forms
  BY TypesAreKnown DEF Held, Forms
<1>4. k \in Digits
  BY ConstantsOK DEF Fractions
<1>5. Unread \in GotTypes
  BY ConstantsOK DEF Unread, Gives, GotTypes, Forms
<1>. QED BY <1>2, <1>3, <1>4, <1>5 DEF Holds, Cell, TypeOK, GotTypes

LEMMA FetchTyped ==
  ASSUME TypeOK, Fetch
  PROVE  TypeOK'
<1>1. PICK d \in DigitsSent(cell.frac), iso \in BOOLEAN :
        got' = ConvertValue([field |-> WireField(cell.col), form |-> cell.form,
                             frac |-> cell.frac, wire |-> d, iso |-> iso],
                            Described)
  BY DEF Fetch
<1>2. got' \in GotTypes
  BY <1>1, TypesAreKnown, ConvertsToTypes DEF TypeOK
<1>3. Described \in Columns
  BY DEF Described, TypeOK
<1>. QED BY <1>2, <1>3 DEF Fetch, TypeOK, GotTypes

(* Every value stays one of the model's, for any columns and fractions:    *)
(* convert_value gives None, raises, or gives a value of a Python type.    *)
THEOREM TypeCorrect == Spec => []TypeOK
<1>1. Unread \in GotTypes
  BY ConstantsOK DEF Unread, Gives, GotTypes, Forms
<1>2. Init => TypeOK
  BY <1>1, ConstantsOK DEF Init, TypeOK, Cell, Forms, GotTypes
<1>3. TypeOK /\ [Next]_vars => TypeOK'
  <2>. SUFFICES ASSUME TypeOK, [Next]_vars PROVE TypeOK'
    OBVIOUS
  <2>1. NewCursor \/ UNCHANGED vars => TypeOK'
    BY <1>1 DEF NewCursor, vars, TypeOK, GotTypes
  <2>. QED BY <2>1, WritesTyped, OthersTyped, FetchTyped DEF Next
<1>. QED BY <1>2, <1>3, PTL DEF Spec

-----------------------------------------------------------------------------
(* What a fetch gives is of the type described, and when it raises.        *)

LEMMA FormOfValue ==
  ASSUME NEW v \in PyValues
  PROVE  v.type # "str" => v.form = FormOf[v.type]
<1>1. CASE \E t \in PyTypes : \E k \in Fractions(FormOf[t]) :
              v = Value(t, FormOf[t], k)
  BY <1>1 DEF Value
<1>2. CASE \E f \in Spellings : \E k \in Fractions(f) : v = Value("str", f, k)
  BY <1>2 DEF Value
<1>. QED BY <1>1, <1>2 DEF PyValues

(* What goes as a string is text.                                          *)
LEMMA StringsAreText ==
  ASSUME NEW v \in PyValues, PrepareParam(v).field = "stringValue"
  PROVE  PrepareParam(v).form \in Texts
<1>1. FieldFor(v.type) = "stringValue" /\ PrepareParam(v).form = Str(v)
  BY DEF PrepareParam
<1>2. CASE Str(v) = "repr"
  BY <1>1, <1>2 DEF Texts
<1>3. CASE Str(v) # "repr"
  <2>1. Str(v) = v.form /\ v.type \notin {"dict", "list", "bytes", "bytearray"}
    BY <1>3 DEF Str
  <2>2. CASE \E t \in PyTypes : \E k \in Fractions(FormOf[t]) :
               v = Value(t, FormOf[t], k)
    <3>1. v.type \in PyTypes /\ v.form = FormOf[v.type]
      BY <2>2 DEF Value
    <3>2. v.type \in {"str", "Decimal", "date", "time", "datetime",
                      "DateTimeSub", "UUID", "ip_network", "ip_address"}
      BY <1>1, <2>1, <3>1 DEF PyTypes, FormOf, FieldFor, Field
    <3>. QED BY <1>1, <2>1, <3>1, <3>2 DEF FormOf, Texts, Spellings, Moments
  <2>3. CASE \E f \in Spellings : \E k \in Fractions(f) : v = Value("str", f, k)
    BY <1>1, <2>1, <2>3 DEF Value, Texts
  <2>. QED BY <2>2, <2>3 DEF PyValues
<1>. QED BY <1>2, <1>3

LEMMA WriteFits ==
  ASSUME NEW c \in Columns, NEW v \in PyValues, NEW cast \in BOOLEAN,
         Write(c, v, cast)
  PROVE  CellFits'
<1>. DEFINE p == PrepareParam(v)
<1>1. cell'.col = c /\ cell'.form = p.form
  BY DEF Write, Holds, Cell
<1>2. p.field = FieldFor(v.type) /\ p.hint = HintFor(v.type)
  BY DEF PrepareParam
<1>3. SUFFICES ASSUME TypeCode(c) # "str"
               PROVE  \/ IsBinary(c) /\ p.form \in Texts
                      \/ p.form = FormOf[TypeCode(c)]
  BY <1>1 DEF CellFits
<1>4. CASE cast
  <2>1. TakesCast(c, p)
    BY <1>4 DEF Write
  <2>2. p.field = "stringValue" => p.form \in Texts
    BY StringsAreText
  <2>. QED BY <1>3, <2>1, <2>2 DEF TakesCast, IsText
<1>5. CASE ~cast
  <2>1. v.type \in PyTypes
    BY ValuesAreTyped
  <2>2. \/ v.type = "int" /\ TypeCode(c) \in {"int", "Decimal"}
        \/ v.type = "float" /\ TypeCode(c) \in {"float", "Decimal"}
        \/ v.type = "bool" /\ TypeCode(c) = "bool"
        \/ v.type = "bytes" /\ TypeCode(c) = "bytearray"
        \/ v.type \in {"date", "time", "datetime", "Decimal"} /\ TypeCode(c) = v.type
    <3>1. Takes(c, p)
      BY <1>5 DEF Write
    <3>. HIDE DEF p
    <3>. QED BY <1>2, <1>3, <2>1, <3>1
         DEF Takes, FieldFor, HintFor, Field, Hint, IsText
  <2>3. p.form = v.form
    BY <2>2 DEF PrepareParam, Str, FieldFor, Field
  <2>4. v.form = FormOf[v.type]
    BY <2>2, FormOfValue
  <2>. QED BY <2>2, <2>3, <2>4 DEF FormOf
<1>. QED BY <1>4, <1>5

LEMMA OtherFits ==
  ASSUME NEW c \in Columns, OtherWrites(c)
  PROVE  CellFits'
<1>1. PICK f \in Held(c) : \E k \in Fractions(f) : Holds(c, f, k, NotPython)
  BY DEF OtherWrites
<1>2. cell'.col = c /\ cell'.form = f
  BY <1>1 DEF Holds, Cell
<1>. QED BY <1>1, <1>2 DEF Held, CellFits, IsText

(* A column the driver converts comes in a string; by its own description  *)
(* only what the driver has no parser for raises.                          *)
LEMMA RaisedByOwn ==
  ASSUME CellFits, NEW d \in DigitsSent(cell.frac), NEW iso \in BOOLEAN,
         NEW w, w = [field |-> WireField(cell.col), form |-> cell.form,
                     frac |-> cell.frac, wire |-> d, iso |-> iso],
         ConvertValue(w, cell.col) = Raised
  PROVE  \/ cell.form \in {"nested", "infinity"}
         \/ old /\ cell.form = "time" /\ cell.frac \notin {0, 3, 6}
<1>. DEFINE tc == TypeCode(cell.col)
<1>. SUFFICES ASSUME cell.form \notin {"nested", "infinity"}
              PROVE  old /\ cell.form = "time" /\ cell.frac \notin {0, 3, 6}
  OBVIOUS
<1>1. \A form, frac, aware, type : type # "raised" => Gives(type, form, frac, aware) # Raised
  BY DEF Gives, Raised
<1>2. cell.form \notin {"null", "array"}
  BY <1>1 DEF ConvertValue, None
<1>3. tc # "Decimal"
  <2>1. SUFFICES ASSUME tc = "Decimal" PROVE FALSE
    OBVIOUS
  <2>2. cell.form = "number" /\ w.field = "stringValue"
    BY <2>1, <1>2 DEF CellFits, IsBinary, Arrays, FormOf, WireField
  <2>. HIDE DEF tc
  <2>3. ConvertValue(w, cell.col) = ToDecimal(w)
    BY <2>1, <2>2 DEF ConvertValue, tc
  <2>4. ToDecimal(w) = Gives("Decimal", w.form, w.frac, FALSE)
    BY <2>2 DEF ToDecimal
  <2>. QED BY <1>1, <2>3, <2>4
<1>4. tc \in {"date", "time", "datetime"}
  <2>1. SUFFICES ASSUME tc \notin {"date", "time", "datetime"} PROVE FALSE
    OBVIOUS
  <2>2. ConvertValue(w, cell.col) = Gives(PyField[w.field], w.form, w.frac, FALSE)
    BY <1>2, <1>3, <2>1 DEF ConvertValue, Hint
  <2>3. PyField[w.field] # "raised"
    BY TypesAreKnown DEF PyTypes, FormOf
  <2>. QED BY <1>1, <2>2, <2>3
<1>5. cell.form = FormOf[tc] /\ w.field = "stringValue"
  BY <1>2, <1>4 DEF CellFits, IsBinary, Arrays, WireField
<1>6. ~FromIsoFormat(tc, w) /\ ~Strptime(tc, w)
  <2>1. ConvertValue(w, cell.col) = ToTemporal(cell.col, w)
    BY <1>2, <1>4 DEF ConvertValue, Hint
  <2>. QED BY <1>1, <1>4, <1>5, <2>1 DEF ToTemporal
<1>7. tc = "time" /\ cell.form = "time"
  BY <1>4, <1>5, <1>6 DEF Strptime, FormOf
<1>8. old /\ d \notin {0, 3, 6}
  BY <1>6, <1>7 DEF FromIsoFormat
<1>9. d = cell.frac
  BY <1>8 DEF DigitsSent
<1>. QED BY <1>7, <1>8, <1>9

(* With the description of its own column a value has the described type,  *)
(* and is aware where PostgreSQL anchors it to UTC.                        *)
LEMMA TypedByOwn ==
  ASSUME CellFits, NEW w, NEW r, r = ConvertValue(w, cell.col), r # Raised,
         w.form = cell.form, w.field = WireField(cell.col),
         cell.form \notin Arrays \cup {"null"}
  PROVE  /\ (TypeCode(cell.col) \in {"int", "float", "bool", "str"} \cup DOMAIN Hint
                => r.type = TypeCode(cell.col))
         /\ r.aware = (cell.col \in TzAware)
<1>. DEFINE tc == TypeCode(cell.col)
<1>1. cell.col \in TzAware => tc \in {"datetime", "time"}
  BY DEF TzAware, TypeCode, PgType
<1>2. CASE tc = "Decimal"
  <2>1. r = Gives("Decimal", w.form, w.frac, FALSE)
    BY <1>2 DEF ConvertValue, ToDecimal, Arrays
  <2>2. r.type = "Decimal" /\ r.aware = FALSE
    BY <2>1 DEF Gives
  <2>3. (cell.col \in TzAware) = FALSE
    BY <1>1, <1>2
  <2>. QED BY <1>2, <2>2, <2>3
<1>3. CASE tc \in {"date", "time", "datetime"}
  <2>1. r = ToTemporal(cell.col, w)
    BY <1>3 DEF ConvertValue, Hint, Arrays
  <2>2. PICK form, frac : r = Gives(tc, form, frac, Aware(cell.col, tc, w))
    BY <2>1 DEF ToTemporal
  <2>3. r.type = tc /\ r.aware = Aware(cell.col, tc, w)
    BY <2>2 DEF Gives
  <2>4. Aware(cell.col, tc, w) = (cell.col \in TzAware)
    BY <1>1 DEF Aware
  <2>. QED BY <2>3, <2>4
<1>4. CASE tc \notin {"Decimal", "date", "time", "datetime"}
  <2>1. r = Gives(PyField[w.field], w.form, w.frac, FALSE)
    BY <1>4 DEF ConvertValue, Hint, Arrays
  <2>2. r.type = PyField[w.field] /\ r.aware = FALSE
    BY <2>1 DEF Gives
  <2>3. tc \in {"int", "float", "bool", "str"} => PyField[w.field] = tc
    BY DEF WireField, PyField, Field
  <2>4. (cell.col \in TzAware) = FALSE
    BY <1>1, <1>4
  <2>5. tc \in {"int", "float", "bool", "str"} \cup DOMAIN Hint
          => tc \in {"int", "float", "bool", "str"}
    BY <1>4 DEF Hint
  <2>. QED BY <2>2, <2>3, <2>4, <2>5
<1>. QED BY <1>2, <1>3, <1>4

LEMMA FetchReads ==
  ASSUME ReadInv, Fetch
  PROVE  ReadInv'
<1>1. PICK d \in DigitsSent(cell.frac), iso \in BOOLEAN :
        got' = ConvertValue([field |-> WireField(cell.col), form |-> cell.form,
                             frac |-> cell.frac, wire |-> d, iso |-> iso],
                            Described)
  BY DEF Fetch
<1>. DEFINE w == [field |-> WireField(cell.col), form |-> cell.form,
                  frac |-> cell.frac, wire |-> d, iso |-> iso]
<1>2. /\ description' = Described /\ UNCHANGED <<old, cell>>
      /\ w.form = cell.form /\ w.field = WireField(cell.col)
  BY DEF Fetch
<1>3. got' = ConvertValue(w, Described)
  BY <1>1
<1>4. CellFits /\ CellFits'
  BY <1>2 DEF ReadInv, CellFits
<1>5. ReadsAsDescribed'
  <2>1. SUFFICES ASSUME got' # Raised, Described = cell.col,
                        cell.form \notin Arrays \cup {"null"}
                 PROVE  /\ (TypeCode(cell.col) \in {"int", "float", "bool", "str"} \cup DOMAIN Hint
                               => got'.type = TypeCode(cell.col))
                        /\ got'.aware = (cell.col \in TzAware)
    BY <1>2 DEF ReadsAsDescribed, IsRead, IsOwn
  <2>. HIDE DEF w
  <2>. QED BY <1>2, <1>3, <1>4, <2>1, TypedByOwn
<1>6. RaisesOnlyFor'
  <2>1. SUFFICES ASSUME got' = Raised
                 PROVE  \/ cell.form \in {"nested", "infinity"}
                        \/ old /\ cell.form = "time" /\ cell.frac \notin {0, 3, 6}
                        \/ Described # cell.col /\ TypeCode(Described) \in DOMAIN Hint
    BY <1>2 DEF RaisesOnlyFor, IsOwn
  <2>2. CASE Described = cell.col
    BY <1>3, <1>4, <2>1, <2>2, RaisedByOwn
  <2>3. CASE Described # cell.col /\ TypeCode(Described) \notin DOMAIN Hint
    <3>. HIDE DEF w
    <3>1. \A form, frac, aware, type :
            type # "raised" => Gives(type, form, frac, aware) # Raised
      BY DEF Gives, Raised
    <3>2. PyField[w.field] # "raised"
      BY <1>2, TypesAreKnown DEF PyTypes, FormOf
    <3>3. w.form = "nested"
      BY <1>3, <2>1, <2>3, <3>1, <3>2 DEF ConvertValue, Hint, None
    <3>. QED BY <1>2, <3>3
  <2>. QED BY <2>2, <2>3
<1>. QED BY <1>4, <1>5, <1>6 DEF ReadInv

LEMMA UnreadReads ==
  ASSUME got' = Unread, CellFits'
  PROVE  ReadInv'
BY DEF ReadInv, ReadsAsDescribed, RaisesOnlyFor, IsRead, Unread, Raised, Gives

(* What columns hold, what a fetch gives and when it raises.               *)
THEOREM ReadInvAlways == Spec => []ReadInv
<1>1. Init => ReadInv
  BY DEF Init, Cell, ReadInv, CellFits, ReadsAsDescribed, RaisesOnlyFor,
         IsRead, Unread, Raised, Gives
<1>2. ReadInv /\ [Next]_vars => ReadInv'
  <2>. SUFFICES ASSUME ReadInv, [Next]_vars PROVE ReadInv'
    OBVIOUS
  <2>1. ASSUME NEW c \in Columns, NEW v \in PyValues, NEW cast \in BOOLEAN,
               Write(c, v, cast)
        PROVE  ReadInv'
    BY <2>1, WriteFits, UnreadReads DEF Write, Holds
  <2>2. ASSUME NEW c \in Columns, OtherWrites(c) PROVE ReadInv'
    BY <2>2, OtherFits, UnreadReads DEF OtherWrites, Holds
  <2>3. CASE NewCursor
    BY <2>3, UnreadReads DEF NewCursor, ReadInv, CellFits
  <2>4. CASE UNCHANGED vars
    BY <2>4 DEF vars, ReadInv, CellFits, ReadsAsDescribed, RaisesOnlyFor,
                IsRead, IsOwn
  <2>. QED BY <2>1, <2>2, <2>3, <2>4, FetchReads DEF Next
<1>. QED BY <1>1, <1>2, PTL DEF Spec

(* By the description of its own column a value has the type described,    *)
(* for any columns and fractions, and moments of a column compare.         *)
THEOREM ValuesReadAsDescribed == Spec => []ReadsAsDescribed
<1>1. ReadInv => ReadsAsDescribed
  BY DEF ReadInv
<1>. QED BY <1>1, ReadInvAlways, PTL

(* A fetch raises for nothing else than nested arrays, infinities, times   *)
(* an old Python cannot read and descriptions of another result.           *)
THEOREM RaisesForNothingElse == Spec => []RaisesOnlyFor
<1>1. ReadInv => RaisesOnlyFor
  BY DEF ReadInv
<1>. QED BY <1>1, ReadInvAlways, PTL
=============================================================================
