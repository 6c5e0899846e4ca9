--------------------------- MODULE MCPagedCursor ----------------------------
(***************************************************************************)
(* Small instances of PagedCursor whose rows are of an even size: light    *)
(* fits into one response of size 2, even takes pages of 2 rows and a last *)
(* page of 1, pair takes pages of 1 row, the row of huge fits no response, *)
(* update has no columns, and the rows of returning come from an INSERT.   *)
(***************************************************************************)
EXTENDS CursorHistory

EvenStmts == {"light", "even", "pair", "huge", "update", "returning"}
EvenSizes == [s \in EvenStmts |->
               CASE s = "light"  -> <<1, 1>>
                 [] s = "even"   -> <<1, 1, 1, 1, 1>>
                 [] s = "pair"   -> <<2, 2>>
                 [] s = "huge"   -> <<3>>
                 [] s = "update" -> <<>>
                 [] s = "returning" -> <<1, 1, 1>>]
EvenCols  == [s \in EvenStmts |-> CASE s = "even"   -> 2
                                    [] s = "update" -> 0
                                    [] OTHER        -> 1]

(* Offsets of scroll in both directions, past either end too.              *)
SomeMoves == {-3, 1}

ASSUME EvenPages == NoTailOverflow
=============================================================================
