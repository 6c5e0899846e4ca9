------------------------- MODULE SyncAdaptedCursor --------------------------
(***************************************************************************)
(* SyncAdaptedCursor (aurora_data_api/async_driver.py): the sync facade    *)
(* SQLAlchemy drives.  Inside a greenlet spawn its methods await those of  *)
(* the async cursor; outside of one an await raises MissingGreenlet.  The  *)
(* soft close reads the rest of a result into a list while still in the    *)
(* spawn, and the fetch methods serve from that list from then on.         *)
(*                                                                         *)
(* The async cursor is taken for what it promises, a ResultStream.         *)
(***************************************************************************)
EXTENDS Integers, Sequences

CONSTANTS
  Stmts,    (* the statements                                             *)
  NoStmt,   (* no statement                                               *)
  Length,   (* Length[s]: the number of rows of the result of s           *)
  Wants,    (* the sizes given to fetchmany                               *)
  Places,   (* the places scrolled to                                     *)
  NotDrained  (* None, where a list of drained rows would be              *)

ASSUME ConstantsOK ==
  /\ NoStmt \notin Stmts
  /\ Length \in [Stmts -> Nat]
  /\ Wants \subseteq Nat \ {0}
  /\ Places \subseteq Nat
  /\ NotDrained \notin Seq(Stmts \X Nat)

VARIABLES
  (* The async cursor. *)
  stmt, base, handed, ended, broken,
  (* The facade and its caller. *)
  drained,     (* _drained_rows                                           *)
  pc,          (* the call in progress: none, execute or a soft close     *)
  collected,   (* the rows it has read                                    *)
  spawn,       (* the caller is inside a greenlet spawn                   *)
  (* What the caller has seen, for the properties. *)
  result,      (* the statement whose rows the fetch methods would serve  *)
  origin,      (* the place of that result last scrolled to               *)
  given,       (* the rows given to the caller from there                 *)
  isEnd,       (* the last fetch gave fewer rows than asked               *)
  raised       (* a call has raised since that result was opened          *)

cursor == <<stmt, base, handed, ended, broken>>
facade == <<drained, pc, collected, spawn>>
seen   == <<result, origin, given, isEnd, raised>>
vars   == <<cursor, facade, seen>>

Cursor == INSTANCE ResultStream

Rows == Stmts \X Nat
All  == -1

PlacesOK ==
  /\ stmt \in Stmts \cup {NoStmt} /\ result \in Stmts \cup {NoStmt}
  /\ base \in Nat /\ origin \in Nat
  /\ pc \in {"idle", "execute", "drain"}

RowsOK ==
  /\ handed \in Seq(Rows) /\ given \in Seq(Rows) /\ collected \in Seq(Rows)
  /\ drained \in Seq(Rows) \cup {NotDrained}

FlagsOK ==
  /\ ended \in BOOLEAN /\ broken \in BOOLEAN /\ spawn \in BOOLEAN
  /\ isEnd \in BOOLEAN /\ raised \in BOOLEAN

TypeOK == PlacesOK /\ RowsOK /\ FlagsOK

Init ==
  /\ Cursor!Init
  /\ drained = NotDrained /\ pc = "idle" /\ collected = <<>>
  /\ spawn = TRUE
  /\ result = NoStmt /\ origin = 0 /\ given = <<>>
  /\ isEnd = FALSE /\ raised = FALSE

AtEnd     == IF stmt = NoStmt THEN TRUE ELSE base + Len(handed) >= Length[stmt]
IsDrained == drained # NotDrained
Ready     == pc = "idle"

-----------------------------------------------------------------------------
(* What the caller sees of a call.                                         *)

Gives(rows, end) ==
  /\ given' = given \o rows /\ isEnd' = end
  /\ UNCHANGED <<result, origin, raised>>

NewResult(s) ==
  /\ result' = s /\ origin' = 0 /\ given' = <<>> /\ isEnd' = FALSE

Raises ==
  /\ raised' = TRUE /\ given' = <<>> /\ isEnd' = FALSE
  /\ UNCHANGED <<result, origin>>

(* The cursor refuses the call, or the task is cancelled.                  *)
CursorRaises ==
  /\ spawn
  /\ Cursor!Break /\ Raises
  /\ UNCHANGED facade

(* Outside a spawn no await begins: the cursor never sees the call.        *)
MissingGreenlet ==
  /\ ~spawn
  /\ Raises
  /\ UNCHANGED <<cursor, facade>>

(* execute, executemany and scroll await whatever rows are drained.        *)
CallOutsideSpawn == Ready /\ MissingGreenlet

-----------------------------------------------------------------------------
(* execute and executemany.                                                *)

(* Mutant: execute leaves the list.                                        *)
DrainedKept == drained

DrainedAtExecute == NotDrained

(* Up to the await: the cursor has dropped the result it held.             *)
Execute(s) ==
  /\ Ready /\ spawn
  /\ pc' = "execute"
  /\ Cursor!Open(s)
  /\ IF IsDrained THEN UNCHANGED <<result, origin, given, isEnd, raised>>
                  ELSE NewResult(s) /\ raised' = FALSE
  /\ UNCHANGED <<drained, collected, spawn>>

ExecuteReturns ==
  /\ pc = "execute" /\ pc' = "idle"
  /\ drained' = DrainedAtExecute
  /\ NewResult(stmt) /\ raised' = FALSE
  /\ UNCHANGED <<cursor, collected, spawn>>

(* The exception leaves the call before the list is dropped.               *)
ExecuteRaises ==
  /\ pc = "execute" /\ pc' = "idle"
  /\ Cursor!Break /\ Raises
  /\ UNCHANGED <<drained, collected, spawn>>

(* executemany of the cursor does not touch the result it holds.           *)
ExecuteMany ==
  /\ Ready /\ spawn
  /\ drained' = NotDrained
  /\ IF IsDrained THEN NewResult(stmt)
                  ELSE UNCHANGED <<result, origin, given, isEnd>>
  /\ UNCHANGED <<cursor, pc, collected, spawn, raised>>

(* A batch is refused: the list of an earlier result is still served.      *)
ExecuteManyRaises ==
  /\ Ready /\ spawn
  /\ Raises
  /\ UNCHANGED <<cursor, facade>>

-----------------------------------------------------------------------------
(* The fetch methods; fetchone is fetchmany(1), fetchall asks for all.     *)

FetchDrained(n) ==
  LET k == IF n = All \/ n > Len(drained) THEN Len(drained) ELSE n
  IN  /\ Gives(SubSeq(drained, 1, k), k # n)
      /\ drained' = SubSeq(drained, k + 1, Len(drained))

(* The cursor hands out the next k rows; one that has raised promises only *)
(* that they belong to its statement.                                      *)
CursorReads(k, end) ==
  IF broken
    THEN /\ handed' = handed \o Cursor!NextRows(k) /\ ended' = end
         /\ Cursor!ReadBroken
    ELSE Cursor!Read(k, end)

RowsLeft == IF AtEnd THEN 0 ELSE Length[stmt] - base - Len(handed)

FetchAwaiting(n) ==
  \E k \in 0 .. RowsLeft :
    /\ n # All => k <= n
    /\ IF stmt = NoStmt THEN Cursor!ReadNothing ELSE CursorReads(k, k # n)
    /\ Gives(Cursor!NextRows(k), k # n)

Fetch(n) ==
  /\ Ready
  /\ \/ /\ IsDrained
        /\ FetchDrained(n)
        /\ UNCHANGED <<cursor, pc, collected, spawn>>
     \/ /\ ~IsDrained /\ spawn
        /\ FetchAwaiting(n)
        /\ UNCHANGED facade
     \/ ~IsDrained /\ stmt # NoStmt /\ CursorRaises
     \/ ~IsDrained /\ MissingGreenlet

(* Passed on to the cursor; drained rows are served from where they were.  *)
Scroll(p) ==
  /\ Ready /\ spawn /\ stmt # NoStmt /\ p <= Length[stmt] + 1
  /\ Cursor!Seek(p)
  /\ IF IsDrained
       THEN UNCHANGED <<origin, given, isEnd>>
       ELSE origin' = p /\ given' = <<>> /\ isEnd' = FALSE
  /\ UNCHANGED <<facade, result, raised>>

(* The cursor scrolls only a result it pages through in a live transaction *)
ScrollRaises == Ready /\ CursorRaises

-----------------------------------------------------------------------------
(* _async_soft_close and close.                                            *)

(* SQLAlchemy closes a result softly once, in the spawn that executed it.  *)
SoftClose ==
  /\ Ready /\ spawn /\ ~IsDrained
  /\ pc' = "drain" /\ collected' = <<>>
  /\ UNCHANGED <<cursor, drained, spawn, seen>>

DrainRow ==
  /\ pc = "drain" /\ ~AtEnd
  /\ CursorReads(1, FALSE)
  /\ collected' = collected \o Cursor!NextRows(1)
  /\ UNCHANGED <<drained, pc, spawn, seen>>

(* Mutant: the list is set before the first row is read.                   *)
NothingCollected == <<>>

(* Mutant: the None that ends the result is collected as a row.            *)
EndIsCollected == Append(collected, NotDrained)

DrainedRows == collected

(* The cursor has no more rows: the list is set, the cursor is closed.     *)
Drained ==
  /\ pc = "drain" /\ (AtEnd \/ broken)
  /\ drained' = DrainedRows /\ pc' = "idle" /\ collected' = <<>>
  /\ Cursor!Close
  /\ UNCHANGED <<spawn, seen>>

(* The rows collected so far are lost.                                     *)
DrainFails ==
  /\ pc = "drain" /\ stmt # NoStmt
  /\ Cursor!Break
  /\ pc' = "idle" /\ collected' = <<>>
  /\ Raises
  /\ UNCHANGED <<drained, spawn>>

(* No await: close may be called outside a spawn.                          *)
Close ==
  /\ Ready
  /\ Cursor!Close /\ drained' = NotDrained
  /\ NewResult(NoStmt)
  /\ UNCHANGED <<pc, collected, spawn, raised>>

(* The caller leaves the spawn, or enters another one.                     *)
Switch ==
  /\ Ready
  /\ spawn' = ~spawn
  /\ UNCHANGED <<cursor, drained, pc, collected, seen>>

-----------------------------------------------------------------------------
Next ==
  \/ \E s \in Stmts : Execute(s)
  \/ ExecuteReturns \/ ExecuteRaises
  \/ ExecuteMany \/ ExecuteManyRaises
  \/ \E n \in Wants \cup {All} : Fetch(n)
  \/ \E p \in Places : Scroll(p)
  \/ ScrollRaises \/ CallOutsideSpawn
  \/ SoftClose \/ DrainRow \/ Drained \/ DrainFails
  \/ Close
  \/ Switch

Spec == Init /\ [][Next]_vars

-----------------------------------------------------------------------------
(* Properties.                                                             *)

Stream == INSTANCE ResultStream WITH
            stmt <- result, base <- origin, handed <- given,
            ended <- isEnd, broken <- raised

(* The facade hands on what the cursor promises: its caller reads a stream *)
(* too, and the switch from awaiting to the drained list loses no row,     *)
(* repeats none and ends where the result ends.                            *)
ImplementsResultStream == Stream!Spec

(* "subsequent fetchone/fetchmany/fetchall calls serve from that buffer"   *)
(* (async_driver.py:519): once the soft close is done, what the caller has *)
(* and the list make up the whole rest of the result.                      *)
DrainedIsTheRest ==
  IsDrained /\ ~raised /\ result # NoStmt =>
    /\ origin + Len(given) + Len(drained) >= Length[result]
    /\ \A i \in DOMAIN drained :
         drained[i] = <<result, origin + Len(given) + i>>

-----------------------------------------------------------------------------
(* The inductive invariant, proved in SyncAdaptedCursorProofs.             *)

(* Without a list the caller reads the result of the cursor; a list is of  *)
(* the result the caller reads, and the cursor is closed behind it unless  *)
(* an execute failed.                                                      *)
SameResult ==
  /\ ~IsDrained => result = stmt
  /\ IsDrained /\ Ready /\ ~raised => stmt = NoStmt /\ base = 0 /\ handed = <<>>
  /\ pc = "execute" =>
       stmt \in Stmts /\ base = 0 /\ handed = <<>> /\ ~broken
  /\ pc = "drain" => ~IsDrained
  /\ pc # "drain" => collected = <<>>
  /\ broken => raised

RowsOfResult ==
  /\ \A i \in DOMAIN given : given[i][1] = result
  /\ \A i \in DOMAIN collected : collected[i][1] = stmt
  /\ IsDrained => \A i \in DOMAIN drained : drained[i][1] = result

(* rows follow what the caller was given, up to the end of the result.     *)
Follow(rows) ==
  /\ \A i \in DOMAIN rows : rows[i] = <<result, origin + Len(given) + i>>
  /\ rows # <<>> => origin + Len(given) + Len(rows) <= Length[result]

InStep ==
  ~raised =>
    /\ ~IsDrained =>
         /\ base + Len(handed) = origin + Len(given) + Len(collected)
         /\ Follow(collected)
    /\ IsDrained => Follow(drained)

(* Cursor and facade are in step: while no call has raised, what the caller*)
(* was given, what a soft close has collected and what the cursor has yet  *)
(* to give are one result, with no row missing or twice.                   *)
FacadeInv == TypeOK /\ SameResult /\ RowsOfResult /\ InStep /\ DrainedIsTheRest
=============================================================================
