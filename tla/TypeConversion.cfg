SPECIFICATION Spec
CONSTANTS
  Columns = {"int4", "float8", "bool", "varbit", "bytea", "text", "interval", "cidr", "inet", "date", "time", "timetz", "timestamp", "timestamptz", "uuid", "jsonb", "numeric", "_int4"}
  ArrayColumns = {"_int4"}
  Digits = {0, 3, 5, 6}
INVARIANTS
  NeverAnotherValue
  ReadsAsDescribed
  RaisesOnlyFor
  StoredIsGiven
