------------------------- MODULE MCErrorTranslation -------------------------
(***************************************************************************)
(* A MySQL code with two names (mysql_error_codes.py:491), two codes with  *)
(* one name each, one of MySQL and one of PostgreSQL, and an unlisted one. *)
(***************************************************************************)
EXTENDS ErrorTranslation

SomeNames == {"CONST_EXPR", "WRONG_EXPR", "PARSE_ERROR", "UNDEF_TABLE"}
SomeCodes == {"1486", "1064", "42P01"}
SomeCodeOf == [n \in SomeNames |->
                CASE n = "PARSE_ERROR" -> "1064"
                  [] n = "UNDEF_TABLE" -> "42P01"
                  [] OTHER             -> "1486"]
SomeCanonical == [c \in SomeCodes |->
                   CASE c = "1064"  -> "PARSE_ERROR"
                     [] c = "42P01" -> "UNDEF_TABLE"
                     [] OTHER       -> "CONST_EXPR"]
=============================================================================
