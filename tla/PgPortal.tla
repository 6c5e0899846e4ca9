------------------------------ MODULE PgPortal ------------------------------
(***************************************************************************)
(* The PostgreSQL side of pagination, as far as the driver relies on it:   *)
(* the position of a SCROLL cursor (a portal) over a result set of `total` *)
(* rows.  Position 0 is before the first row, position k on row k and      *)
(* total + 1 after the last row.  The driver issues FETCH FORWARD n        *)
(* (__init__.py:281), MOVE RELATIVE n and MOVE ABSOLUTE n                  *)
(* (__init__.py:253).                                                      *)
(***************************************************************************)
EXTENDS Integers

Lesser(a, b) == IF a <= b THEN a ELSE b

Positions(total) == 0 .. total + 1

(* Any position out of range is one of the two ends.                       *)
Clamped(p, total) == IF p < 0 THEN 0 ELSE Lesser(p, total + 1)

(* FETCH FORWARD n at position p, n > 0: the rows p + 1 .. FetchEnd are    *)
(* returned.  A fetch that runs out of rows ends after the last row.       *)
FetchEnd(p, n, total) == Lesser(p + n, total)
AfterFetch(p, n, total) == Clamped(p + n, total)

AfterMoveRelative(p, n, total) == Clamped(p + n, total)

(* MOVE ABSOLUTE counts from the end when n is negative.                   *)
AfterMoveAbsolute(n, total) ==
  Clamped(IF n >= 0 THEN n ELSE total + 1 + n, total)
=============================================================================
