--------------------------- MODULE MCAsyncCursor ----------------------------
(***************************************************************************)
(* Instances of AsyncCursor: light fits into one response of size 2, even  *)
(* takes pages of 2 rows, and so do mixed and late, where the second, the  *)
(* fourth row holds a value the Data API cannot return.                    *)
(***************************************************************************)
EXTENDS AsyncCursor

SomeStmts == {"light", "even", "mixed", "late"}
SomeSizes == [s \in SomeStmts |->
               CASE s = "light" -> <<1, 1>>
                 [] s = "even"  -> <<1, 1, 1, 1, 1>>
                 [] s = "mixed" -> <<1, 1, 1, 1>>
                 [] s = "late"  -> <<1, 1, 1, 1, 1>>]
SomeCols  == [s \in SomeStmts |-> 1]
SomeUnsupported == [s \in SomeStmts |-> CASE s = "mixed" -> {2}
                                          [] s = "late"  -> {4}
                                          [] OTHER       -> {}]
SomeMoves == {-3, 1}

ASSUME EvenPages == NoTailOverflow
=============================================================================
