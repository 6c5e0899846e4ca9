------------------------ MODULE MCSyncAdaptedCursor -------------------------
(***************************************************************************)
(* Two statements with results of three rows and of one row.               *)
(***************************************************************************)
EXTENDS SyncAdaptedCursor

TwoStmts   == {"long", "short"}
TwoLengths == [s \in TwoStmts |-> IF s = "long" THEN 3 ELSE 1]
=============================================================================
