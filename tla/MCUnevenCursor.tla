--------------------------- MODULE MCUnevenCursor ---------------------------
(***************************************************************************)
(* Instances of PagedCursor with heavy rows at the end: a response holds a *)
(* size of 4 and arraysize is 4, so the first page of tail fits while its  *)
(* last two rows do not fit together; wide needs several rewinds; small is *)
(* served at once.                                                         *)
(***************************************************************************)
EXTENDS PagedCursor

UnevenStmts == {"tail", "wide", "small"}
UnevenSizes == [s \in UnevenStmts |-> CASE s = "tail" -> <<1, 1, 1, 1, 3, 3>>
                                        [] s = "wide" -> <<2, 1, 3, 1, 1, 4, 4>>
                                        [] s = "small" -> <<1>>]
UnevenCols  == [s \in UnevenStmts |-> 1]

SomeMoves == {-3, 2}

ASSUME UnevenPages == ~NoTailOverflow
=============================================================================
