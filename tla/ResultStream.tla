---------------------------- MODULE ResultStream ----------------------------
(***************************************************************************)
(* What a cursor promises its caller: the result of the statement last     *)
(* executed is a stream.  Reading hands out its next rows, in order and    *)
(* each once, and says that the stream ended only behind its last row;     *)
(* scrolling moves the place that is read next.  A call that raises breaks *)
(* the stream: from then on only the origin of the rows is promised.       *)
(***************************************************************************)
EXTENDS Integers, Sequences

CONSTANTS
  Stmts,   (* the statements                                    *)
  NoStmt,  (* no statement executed yet, or the cursor is closed *)
  Length   (* Length[s]: the number of rows of the result of s   *)

VARIABLES
  stmt,    (* the statement whose result is read                 *)
  base,    (* the number of rows before the place scrolled to    *)
  handed,  (* the rows handed out from there                     *)
  ended,   (* the last read announced the end of the result      *)
  broken   (* a call has raised since the statement was executed *)

vars == <<stmt, base, handed, ended, broken>>

Init == stmt = NoStmt /\ base = 0 /\ handed = <<>> /\ ended = FALSE /\ broken = FALSE

Open(s) ==
  /\ stmt' = s /\ base' = 0 /\ handed' = <<>>
  /\ ended' = FALSE /\ broken' = FALSE

(* A broken cursor may go over to another result and stay broken.          *)
Reopen(s) ==
  /\ broken
  /\ stmt' = s /\ base' = 0 /\ handed' = <<>>
  /\ ended' = FALSE /\ UNCHANGED broken

Close ==
  /\ stmt' = NoStmt /\ base' = 0 /\ handed' = <<>>
  /\ ended' = FALSE /\ UNCHANGED broken

NextRows(n) == [i \in 1 .. n |-> <<stmt, base + Len(handed) + i>>]

(* n more rows, none of them beyond the end; behind the last one the read  *)
(* may say that the result ended.                                          *)
Read(n, isEnd) ==
  /\ ~broken /\ stmt \in Stmts
  /\ handed' = handed \o NextRows(n) /\ ended' = isEnd
  /\ n > 0 => base + Len(handed) + n <= Length[stmt]
  /\ isEnd => base + Len(handed) + n >= Length[stmt]
  /\ UNCHANGED <<stmt, base, broken>>

(* Without a statement there is nothing to read.                           *)
ReadNothing ==
  /\ stmt = NoStmt
  /\ ended' = TRUE
  /\ UNCHANGED <<stmt, base, handed, broken>>

Seek(p) ==
  /\ stmt \in Stmts /\ p <= Length[stmt] + 1
  /\ base' = p /\ handed' = <<>> /\ ended' = FALSE
  /\ UNCHANGED <<stmt, broken>>

Break ==
  /\ broken' = TRUE /\ handed' = <<>> /\ ended' = FALSE
  /\ UNCHANGED <<stmt, base>>

ReadBroken ==
  /\ broken
  /\ \A i \in DOMAIN handed' : handed'[i][1] = stmt
  /\ ended' \in BOOLEAN
  /\ UNCHANGED <<stmt, base, broken>>

Next ==
  \/ \E s \in Stmts : Open(s) \/ Reopen(s)
  \/ Close
  \/ \E isEnd \in BOOLEAN : Read(Len(handed') - Len(handed), isEnd)
  \/ ReadNothing
  \/ Seek(base') /\ base' \in Nat
  \/ Break
  \/ ReadBroken

Spec == Init /\ [][Next]_vars
=============================================================================
