---------------------------- MODULE PagedCursor -----------------------------
(***************************************************************************)
(* AuroraDataAPICursor (aurora_data_api/__init__.py): execute with its     *)
(* fallback to a server-side cursor, the page fetcher with its back-off on *)
(* oversized pages, the fetch methods, scroll and close, under the retry   *)
(* decorator of aurora_data_api/retry.py.                                  *)
(*                                                                         *)
(* One thread drives a cursor; each step is one call of the Data API with  *)
(* the code that handles its answer, or one turn of a fetch loop.  The     *)
(* server may refuse a statement, be resuming, find a result too large,    *)
(* end the transaction, or leave the client without an answer.             *)
(***************************************************************************)
EXTENDS PgPortal, Ranking, Sequences, Functions

CONSTANTS
  Stmts,            (* the statements a client executes                    *)
  NoStmt,           (* None, where a statement would be                    *)
  Sizes,            (* Sizes[s][i]: the size of row i of the result of s   *)
  Cols,             (* Cols[s]: the number of columns of that result       *)
  Undeclarable,     (* the statements PostgreSQL declares no cursor for,   *)
                    (* such as INSERT ... RETURNING                        *)
  Limit,            (* the largest result the Data API returns in one call *)
  ArraySize,        (* cursor.arraysize                                    *)
  Wants,            (* the sizes given to fetchmany                        *)
  Moves,            (* the offsets given to scroll                         *)
  Retries,          (* the number of delays of the retry decorator         *)
  Faults            (* the faults of the environment, see FaultKinds       *)

FaultKinds == {"refuse", "resuming", "noAnswer", "txEnds", "oversizeEnds"}

(* fetchall is fetchmany without a bound.                                  *)
All == -1

ASSUME ConstantsOK ==
  /\ NoStmt \notin Stmts
  /\ Sizes \in [Stmts -> Seq(Nat)]
  /\ Cols \in [Stmts -> Nat]
  /\ Undeclarable \subseteq Stmts
  /\ Limit \in Nat
  /\ ArraySize \in Nat \ {0}
  /\ Wants \subseteq Nat \ {0}
  /\ Moves \subseteq Int
  /\ Retries \in Nat
  /\ Faults \subseteq FaultKinds

Total(s) == Len(Sizes[s])

(* Rows a .. b of s fit into one response.                                 *)
Fits(s, a, b) == SumFunctionOnSet(Sizes[s], a .. b) <= Limit

VARIABLES
  (* The cursor object. *)
  description,  (* the statement whose metadata description was built from *)
  response,     (* the statement of _current_response                      *)
  paging,       (* records_per_page of _paging_state, 0 when it is None    *)
  unread,       (* the rows of _buffer from _buffer_idx on                 *)
  (* The call in progress. *)
  pc,           (* what the call does next                                 *)
  stmt,         (* the statement last given to execute, None once closed   *)
  attempt,      (* the attempt of the retry decorator, from 0              *)
  second,       (* in the second _start_paginated_query of execute         *)
  want,         (* rows a fetch method still has to collect, 0 in execute  *)
  out,          (* rows it has collected                                   *)
  (* The server. *)
  tx,           (* the transaction the connection's id names               *)
  portal,       (* the server-side cursor _paging_state names              *)
  (* What the caller has seen, for the properties. *)
  handed,       (* rows returned since the last execute, scroll or error   *)
  base,         (* the server's position after the last scroll             *)
  clean,        (* no call has raised since the last execute               *)
  faulted,      (* a fault has struck since the last execute               *)
  short,        (* the last fetch returned fewer rows than asked           *)
  outcome       (* how the last call ended                                 *)

object  == <<description, response, paging, unread>>
call    == <<pc, stmt, attempt, second, want, out>>
server  == <<tx, portal>>
history == <<handed, base, clean, faulted, short, outcome>>
vars    == <<object, call, server, history>>

Row(s, n) == <<s, n>>
Rows      == Stmts \X Nat

Buffer(s, a, b) == [of |-> s, from |-> a, to |-> b]
EmptyBuffer     == Buffer(NoStmt, 1, 0)
NoPortal        == [of |-> NoStmt, pos |-> 0]

(* How a call ends: it returns; it raises a DB-API error; or it lets through *)
(* the boto3 exception for a database error, a resuming database or a too    *)
(* large result, an IndexError of the conversion, or a lost call's exception.*)
Outcomes == {"ok", "dbapi", "badRequest", "resuming", "tooLarge",
             "conversion", "noAnswer"}

ObjectOK ==
  /\ description \in Stmts \cup {NoStmt}
  /\ response \in Stmts \cup {NoStmt}
  /\ paging \in 0 .. ArraySize
  /\ unread \in [of : Stmts \cup {NoStmt}, from : Nat, to : Nat]

CallOK ==
  /\ pc \in {"idle", "execute", "declare", "fetch", "rewind", "pop"}
  /\ stmt \in Stmts \cup {NoStmt}
  /\ attempt \in 0 .. Retries
  /\ second \in BOOLEAN
  /\ want \in Nat \cup {All}
  /\ out \in Seq(Rows)

ServerOK ==
  /\ tx \in {"none", "open", "dead"}
  /\ portal \in [of : Stmts \cup {NoStmt}, pos : Nat]

HistoryOK ==
  /\ handed \in Seq(Rows)
  /\ base \in Nat
  /\ clean \in BOOLEAN
  /\ faulted \in BOOLEAN
  /\ short \in BOOLEAN
  /\ outcome \in Outcomes

TypeOK == ObjectOK /\ CallOK /\ ServerOK /\ HistoryOK

(* A new cursor on a connection with or without a transaction.             *)
Init ==
  /\ description = NoStmt /\ response = NoStmt
  /\ paging = 0 /\ unread = EmptyBuffer
  /\ pc = "idle" /\ stmt = NoStmt /\ attempt = 0 /\ second = FALSE
  /\ want = 0 /\ out = <<>>
  /\ tx \in {"none", "open"} /\ portal = NoPortal
  /\ handed = <<>> /\ base = 0
  /\ clean = TRUE /\ faulted = FALSE /\ short = FALSE /\ outcome = "ok"

-----------------------------------------------------------------------------
(* The server.                                                             *)

PortalIsOpen == portal # NoPortal
MovedTo(p)   == [portal EXCEPT !.pos = p]

(* The end of the transaction closes every server-side cursor.             *)
EndTx == tx' = "dead" /\ portal' = NoPortal

(* A result over the limit; oversizeEnds is what test.py:149-152 says of a *)
(* changed API, that such a result ends the transaction.                   *)
TooLarge(portalAfter) ==
  \/ portal' = portalAfter /\ UNCHANGED tx
  \/ "oversizeEnds" \in Faults /\ tx = "open" /\ EndTx

(* The page the next FETCH FORWARD asks for, and the position behind it.   *)
PageTo   == FetchEnd(portal.pos, paging, Total(portal.of))
PageFits == PageTo <= portal.pos \/ Fits(portal.of, portal.pos + 1, PageTo)
PastPage == AfterFetch(portal.pos, paging, Total(portal.of))

-----------------------------------------------------------------------------
(* Ends of a call, and the two places where it goes on.                    *)

CallOver ==
  /\ pc' = "idle" /\ attempt' = 0 /\ second' = FALSE /\ want' = 0
  /\ out' = <<>>
  /\ UNCHANGED stmt

(* An exception leaves the call: what fetchmany collected is lost.         *)
Raise(kind) ==
  /\ CallOver
  /\ outcome' = kind /\ clean' = FALSE /\ short' = FALSE
  /\ handed' = <<>>
  /\ UNCHANGED base

Return ==
  /\ CallOver
  /\ outcome' = "ok" /\ short' = FALSE
  /\ UNCHANGED <<handed, base, clean, faulted>>

(* fetchone, fetchmany and fetchall return what they collected.            *)
ReturnRows(isShort) ==
  /\ CallOver
  /\ handed' = handed \o out /\ short' = isShort /\ outcome' = "ok"
  /\ UNCHANGED <<base, clean, faulted>>

InExecute == want = 0

GoTo(step) == pc' = step /\ UNCHANGED <<stmt, attempt, second, want, out>>

-----------------------------------------------------------------------------
(* execute.                                                                *)

(* Mutant: execute forgets to empty the buffer.                            *)
BufferKept == unread

BufferAtExecute == EmptyBuffer

(* The first lines of the body, run anew by every attempt.  The server-side*)
(* cursor of an earlier statement stays open and is forgotten.             *)
StartBody ==
  /\ pc' = "execute" /\ second' = FALSE /\ want' = 0 /\ out' = <<>>
  /\ response' = NoStmt /\ paging' = 0 /\ unread' = BufferAtExecute
  /\ portal' = NoPortal
  /\ UNCHANGED <<description, tx>>

Execute(s) ==
  /\ pc = "idle"
  /\ StartBody
  /\ stmt' = s /\ attempt' = 0
  /\ handed' = <<>> /\ base' = 0
  /\ clean' = TRUE /\ faulted' = FALSE /\ short' = FALSE /\ outcome' = "ok"

(* The description of the first result with columns is kept for good.      *)
DescriptionAfter(s) ==
  IF description = NoStmt /\ Cols[s] > 0 THEN s ELSE description

(* _render_response looks every column of every record up in description.  *)
Renders(s, a, b) ==
  a <= b /\ DescriptionAfter(s) # NoStmt
    => Cols[s] <= Cols[DescriptionAfter(s)]

ExecuteServed ==
  /\ pc = "execute" /\ tx # "dead" /\ Fits(stmt, 1, Total(stmt))
  /\ description' = DescriptionAfter(stmt)
  /\ UNCHANGED <<paging, server>>
  /\ \/ /\ Renders(stmt, 1, Total(stmt))
        /\ response' = stmt /\ unread' = Buffer(stmt, 1, Total(stmt))
        /\ Return
     \/ /\ ~Renders(stmt, 1, Total(stmt))
        /\ UNCHANGED <<response, unread, faulted>>
        /\ Raise("conversion")

ExecuteTooLarge ==
  /\ pc = "execute" /\ tx # "dead" /\ ~Fits(stmt, 1, Total(stmt))
  /\ TooLarge(portal)
  /\ GoTo("declare")
  /\ UNCHANGED <<object, history>>

(* A database error: the statement is wrong, or its transaction is gone.   *)
(* PostgreSQL aborts the transaction of a statement that fails.            *)
ExecuteRefused ==
  /\ pc = "execute"
  /\ \/ tx = "dead" /\ UNCHANGED <<server, faulted>>
     \/ /\ "refuse" \in Faults /\ tx # "dead"
        /\ faulted' = TRUE
        /\ \/ UNCHANGED server
           \/ tx = "open" /\ EndTx
  /\ Raise("dbapi")
  /\ UNCHANGED object

AtLeastOne(n) == IF n < 1 THEN 1 ELSE n

PageSizeAtStart == IF second THEN AtLeastOne(ArraySize \div 2) ELSE ArraySize

(* _start_paginated_query: DECLARE needs a transaction and a query; its    *)
(* refusal is raised inside an except clause, so no handler translates it. *)
Declared ==
  /\ pc = "declare" /\ tx = "open" /\ stmt \notin Undeclarable
  /\ portal' = [of |-> stmt, pos |-> 0]
  /\ paging' = PageSizeAtStart /\ unread' = EmptyBuffer
  /\ GoTo("fetch")
  /\ UNCHANGED <<description, response, tx, history>>

DeclareRefused ==
  /\ pc = "declare"
  /\ \/ tx # "open" /\ UNCHANGED <<server, faulted>>
     \/ tx = "open" /\ stmt \in Undeclarable /\ EndTx /\ UNCHANGED faulted
     \/ tx = "open" /\ "refuse" \in Faults /\ EndTx /\ faulted' = TRUE
  /\ Raise("badRequest")
  /\ UNCHANGED object

-----------------------------------------------------------------------------
(* _fetch_next_page_into_buffer, for execute and for the fetch methods.    *)

PageServed ==
  /\ pc = "fetch" /\ PortalIsOpen /\ PageFits
  /\ portal' = MovedTo(PastPage)
  /\ description' = DescriptionAfter(portal.of)
  /\ UNCHANGED <<response, paging, tx>>
  /\ \/ /\ Renders(portal.of, portal.pos + 1, PageTo)
        /\ unread' = Buffer(portal.of, portal.pos + 1, PageTo)
        /\ \/ InExecute /\ Return
           \/ /\ ~InExecute /\ portal.pos + 1 > PageTo
              /\ ReturnRows(TRUE)
           \/ /\ ~InExecute /\ portal.pos + 1 <= PageTo
              /\ GoTo("pop") /\ UNCHANGED history
     \/ /\ ~Renders(portal.of, portal.pos + 1, PageTo)
        /\ UNCHANGED <<unread, faulted>>
        /\ Raise("conversion")

(* Mutant: pages of two rows are not halved.                               *)
MayHalveAboveTwo == paging > 2

MayHalve == paging > 1

(* Too large with more than one row asked: rewind and try a smaller page.  *)
(* With one row asked execute starts over once, with half of arraysize.    *)
PageTooLarge ==
  /\ pc = "fetch" /\ PortalIsOpen /\ ~PageFits
  /\ TooLarge(MovedTo(PastPage))
  /\ UNCHANGED object
  /\ \/ /\ MayHalve
        /\ GoTo("rewind") /\ UNCHANGED history
     \/ /\ ~MayHalve /\ InExecute /\ ~second
        /\ pc' = "declare" /\ second' = TRUE
        /\ UNCHANGED <<stmt, attempt, want, out, history>>
     \/ /\ ~MayHalve /\ (InExecute => second)
        /\ Raise("tooLarge") /\ UNCHANGED faulted

PageRefused ==
  /\ pc = "fetch"
  /\ \/ ~PortalIsOpen /\ UNCHANGED <<server, faulted>>
     \/ "refuse" \in Faults /\ PortalIsOpen /\ EndTx /\ faulted' = TRUE
  /\ Raise("dbapi")
  /\ UNCHANGED object

(* Mutants: a page is not rewound; a page keeps its size.                  *)
NotRewound == portal.pos
SamePage   == paging

RewindTarget == AfterMoveRelative(portal.pos, -paging, Total(portal.of))
SmallerPage  == AtLeastOne(paging \div 2)

(* self.scroll(-rpp), then half the page size.                             *)
Rewound ==
  /\ pc = "rewind" /\ PortalIsOpen
  /\ portal' = MovedTo(RewindTarget)
  /\ paging' = SmallerPage /\ unread' = EmptyBuffer
  /\ GoTo("fetch")
  /\ UNCHANGED <<description, response, tx, history>>

RewindRefused ==
  /\ pc = "rewind" /\ ~PortalIsOpen
  /\ Raise("badRequest")
  /\ UNCHANGED <<object, server, faulted>>

-----------------------------------------------------------------------------
(* The fetch methods: fetchone is fetchmany(1), iteration repeats it.      *)

(* Mutant: the last row of the buffer is overlooked.                       *)
HasBufferedRowButLast == unread.from < unread.to

HasBufferedRow == unread.from <= unread.to

Fetch(n) ==
  /\ pc = "idle"
  /\ pc' = "pop" /\ want' = n /\ out' = <<>>
  /\ UNCHANGED <<stmt, attempt, second, object, server, history>>

OneLess(n) == IF n = All THEN All ELSE n - 1

PopRow ==
  /\ pc = "pop" /\ want # 0 /\ HasBufferedRow
  /\ out' = Append(out, Row(unread.of, unread.from))
  /\ unread' = [unread EXCEPT !.from = @ + 1]
  /\ want' = OneLess(want)
  /\ UNCHANGED <<description, response, paging>>
  /\ UNCHANGED <<pc, stmt, attempt, second, server, history>>

NextPage ==
  /\ pc = "pop" /\ want # 0 /\ ~HasBufferedRow /\ paging > 0
  /\ GoTo("fetch")
  /\ UNCHANGED <<object, server, history>>

FetchDone ==
  /\ pc = "pop"
  /\ \/ want = 0 /\ ReturnRows(FALSE)
     \/ want # 0 /\ ~HasBufferedRow /\ paging = 0 /\ ReturnRows(TRUE)
  /\ UNCHANGED <<object, server>>

-----------------------------------------------------------------------------
(* scroll and close.                                                       *)

Target(n, mode) ==
  IF mode = "relative"
    THEN AfterMoveRelative(portal.pos, n, Total(portal.of))
    ELSE AfterMoveAbsolute(n, Total(portal.of))

(* Mutant: scroll forgets to empty the buffer.                             *)
BufferAtScroll == unread

BufferAfterScroll == EmptyBuffer

(* The call is refused by the driver without a page state and by the server*)
(* without a server-side cursor; it may be lost before or after it moves.  *)
Scroll(n, mode) ==
  /\ pc = "idle"
  /\ UNCHANGED <<description, response, paging, call, tx>>
  /\ \/ /\ paging = 0
        /\ outcome' = "dbapi"
        /\ UNCHANGED <<unread, portal, handed, base, clean, faulted, short>>
     \/ /\ paging > 0 /\ PortalIsOpen
        /\ portal' = MovedTo(Target(n, mode)) /\ unread' = BufferAfterScroll
        /\ base' = Target(n, mode) /\ handed' = <<>>
        /\ short' = FALSE /\ outcome' = "ok"
        /\ UNCHANGED <<clean, faulted>>
     \/ /\ paging > 0 /\ ~PortalIsOpen
        /\ outcome' = "badRequest" /\ clean' = FALSE /\ short' = FALSE
        /\ handed' = <<>>
        /\ UNCHANGED <<unread, portal, base, faulted>>
     \/ /\ paging > 0 /\ PortalIsOpen /\ "noAnswer" \in Faults
        /\ portal' \in {portal, MovedTo(Target(n, mode))}
        /\ outcome' = "noAnswer" /\ clean' = FALSE /\ faulted' = TRUE
        /\ short' = FALSE /\ handed' = <<>>
        /\ UNCHANGED <<unread, base>>

(* The server-side cursor is not closed.                                   *)
Close ==
  /\ pc = "idle"
  /\ stmt' = NoStmt /\ handed' = <<>> /\ base' = 0
  /\ response' = NoStmt /\ paging' = 0 /\ unread' = EmptyBuffer
  /\ portal' = NoPortal
  /\ outcome' = "ok" /\ short' = FALSE
  /\ UNCHANGED <<description, tx, pc, attempt, second, want, out>>
  /\ UNCHANGED <<clean, faulted>>

-----------------------------------------------------------------------------
(* What can go wrong with any call of the Data API.                        *)

OnTheWire == pc \in {"execute", "declare", "fetch", "rewind"}

AttemptsLeft == attempt < Retries

(* DatabaseResumingException passes every handler; only execute retries it.*)
Resuming ==
  /\ OnTheWire /\ "resuming" \in Faults
  /\ faulted' = TRUE
  /\ \/ /\ InExecute /\ AttemptsLeft
        /\ StartBody
        /\ attempt' = attempt + 1
        /\ UNCHANGED <<stmt, handed, base, clean, short, outcome>>
     \/ /\ ~(InExecute /\ AttemptsLeft)
        /\ Raise("resuming") /\ UNCHANGED <<object, server>>

(* A timeout, a broken connection or another exception: the server may or  *)
(* may not have carried the call out.  A result refused for another reason *)
(* than its size is raised like these (lines 200-203, 295).         *)
NoAnswer ==
  /\ OnTheWire /\ "noAnswer" \in Faults
  /\ faulted' = TRUE
  /\ \/ UNCHANGED server
     \/ /\ pc = "fetch" /\ PortalIsOpen
        /\ portal' = MovedTo(PastPage) /\ UNCHANGED tx
     \/ /\ pc = "rewind" /\ PortalIsOpen
        /\ portal' = MovedTo(RewindTarget) /\ UNCHANGED tx
  /\ Raise("noAnswer")
  /\ UNCHANGED object

(* The server gives the transaction up: idle for too long, fail-over.      *)
TxEnds ==
  /\ "txEnds" \in Faults /\ tx = "open"
  /\ EndTx
  /\ faulted' = TRUE
  /\ UNCHANGED <<object, call, handed, base, clean, short, outcome>>

-----------------------------------------------------------------------------
UserStep ==
  \/ \E s \in Stmts : Execute(s)
  \/ \E n \in Wants \cup {All} : Fetch(n)
  \/ \E n \in Moves, mode \in {"relative", "absolute"} : Scroll(n, mode)
  \/ Close

(* The call in progress goes on: the next call is made and answered.       *)
DriverStep ==
  \/ ExecuteServed \/ ExecuteTooLarge \/ ExecuteRefused
  \/ Declared \/ DeclareRefused
  \/ PageServed \/ PageTooLarge \/ PageRefused \/ Rewound \/ RewindRefused
  \/ PopRow \/ NextPage \/ FetchDone
  \/ Resuming \/ NoAnswer

Next == UserStep \/ DriverStep \/ TxEnds

Spec == Init /\ [][Next]_vars

(* The code of a call runs on, and every call of the Data API is answered  *)
(* or times out.                                                           *)
FairSpec == Spec /\ WF_vars(DriverStep)

-----------------------------------------------------------------------------
(* Properties.                                                             *)

(* Every row a fetch method returns belongs to the statement last given to *)
(* execute, after failed calls and retries too: execute empties the buffer *)
(* before its first call of the Data API.                                  *)
RowsOfLastExecute ==
  /\ \A i \in DOMAIN handed : handed[i][1] = stmt
  /\ \A i \in DOMAIN out : out[i][1] = stmt

(* While no call raised, the fetch methods have handed out the rows from   *)
(* the last position set by execute or scroll on, each once and in order,  *)
(* whatever pages, back-offs and retries it took.                          *)
RowsInOrder ==
  clean => \A i \in DOMAIN handed : handed[i] = Row(stmt, base + i)

(* While no call raised, no row is passed over: the row before each row    *)
(* handed out was handed out too, or lies before the place of the scroll.  *)
NoRowSkipped ==
  clean => \A i \in DOMAIN handed :
             \/ handed[i][2] <= base + 1
             \/ \E j \in 1 .. i - 1 : handed[j][2] = handed[i][2] - 1

(* A fetch that returns less than it was asked for has reached the end of  *)
(* the result: fetchall is complete and None means that no row is left.    *)
ShortMeansEnd ==
  clean /\ short /\ stmt # NoStmt => base + Len(handed) >= Total(stmt)

EachRowFits(s) == \A i \in 1 .. Total(s) : Fits(s, i, i)

(* "automatically wraps the query in a server-side cursor and paginates it *)
(* if required" (README.rst:69): unless a fault strikes, the size of a     *)
(* result makes a call fail only where a row is too large by itself, where *)
(* no cursor can be declared for the statement, or where no transaction is *)
(* open to declare it in: none was begun, or the result itself has ended it*)
(* (test.py:149-152).                                                      *)
PaginatesIfPossible ==
  outcome \in {"badRequest", "tooLarge"} =>
    \/ faulted
    \/ stmt \in Stmts /\ ~EachRowFits(stmt)
    \/ stmt \in Undeclarable
    \/ tx # "open"

(* The cursor implements the result stream.                                *)
Stream == INSTANCE ResultStream WITH
            Length <- [s \in Stmts |-> Total(s)], ended <- short, broken <- ~clean

(* Whatever the pages, back-offs, retries and faults, the caller sees the  *)
(* steps of a result stream, broken from the first call that raises on.    *)
ImplementsResultStream == Stream!Spec

(* Every call of a cursor method returns or raises: the back-off stops     *)
(* halving and the retries stop.                                           *)
CallReturns == pc # "idle" ~> pc = "idle"

-----------------------------------------------------------------------------
(* The inductive invariant, proved in PagedCursorProofs.                   *)

(* A page that runs out of rows by two or more fits, unless it is the      *)
(* first: the rewind of such a page would not end where the page began.    *)
NoTailOverflow ==
  \A s \in Stmts : \A p \in 1 .. Total(s), r \in 1 .. ArraySize :
    p < Total(s) /\ p + r > Total(s) + 1 => Fits(s, p + 1, Total(s))

(* The number of the last row the caller and the call in progress took.    *)
Place == base + Len(handed) + Len(out)

FetchingForExecute == pc \in {"fetch", "rewind"} /\ InExecute

(* Buffer and server-side cursor belong to the statement; a call of the    *)
(* Data API is only made with an empty buffer.                             *)
OfThisStatement ==
  /\ HasBufferedRow => unread.of = stmt /\ stmt \in Stmts
  /\ HasBufferedRow => unread.to <= Total(stmt)
  /\ PortalIsOpen => /\ portal.of = stmt /\ stmt \in Stmts
                     /\ paging > 0
                     /\ portal.pos \in Positions(Total(stmt))
  /\ OnTheWire => ~HasBufferedRow
  /\ OnTheWire \/ paging > 0 => stmt \in Stmts
  /\ pc = "execute" => paging = 0 /\ ~PortalIsOpen
  /\ pc = "rewind" => paging > 1
  /\ pc = "fetch" => paging > 0
  /\ pc \in {"execute", "declare"} => InExecute
  /\ pc \in {"execute", "declare"} \/ FetchingForExecute =>
       clean /\ base = 0 /\ handed = <<>> /\ out = <<>>
  /\ pc = "idle" => out = <<>>

OutInOrder ==
  clean => \A i \in DOMAIN out : out[i] = Row(stmt, base + Len(handed) + i)

(* The first buffered row is the one after the place of the caller.        *)
BufferInStep == clean /\ HasBufferedRow => unread.from = Place + 1

(* The server's position is behind the buffered rows; while a page is being*)
(* rewound, behind that page, whose first row follows the caller's place.  *)
PortalInStep ==
  clean /\ PortalIsOpen =>
    /\ pc \in {"idle", "pop", "fetch"} =>
         LET last == IF HasBufferedRow THEN unread.to ELSE Place
         IN  \/ portal.pos = last
             \/ last >= Total(stmt) /\ portal.pos = Total(stmt) + 1
    /\ pc = "rewind" =>
         /\ portal.pos = AfterFetch(Place, paging, Total(stmt))
         /\ Place < Total(stmt)
         /\ ~Fits(stmt, Place + 1, FetchEnd(Place, paging, Total(stmt)))

(* Without pagination the buffer ends with the last row.                   *)
WholeResult ==
  clean /\ paging = 0 /\ stmt # NoStmt /\ pc \in {"idle", "pop"} =>
    (IF HasBufferedRow THEN unread.to ELSE Place) >= Total(stmt)

(* What holds whatever the sizes of the rows.                              *)
OwnRowsInv ==
  /\ TypeOK
  /\ OfThisStatement
  /\ RowsOfLastExecute

(* What holds of the order of the rows while no call has raised.           *)
OrderInv ==
  /\ OutInOrder
  /\ BufferInStep
  /\ PortalInStep
  /\ WholeResult
  /\ RowsInOrder
  /\ ShortMeansEnd

CursorInv == OwnRowsInv /\ OrderInv

(* Of the results with an oversized tail only the second half of the order *)
(* is left: rows may come again, but none is passed over.                  *)

(* The rows handed out and collected since the last execute or scroll.     *)
Taken == handed \o out

(* The rows from the place of the scroll to row n were taken.              *)
TakenUpTo(n) ==
  \A m \in base + 1 .. n : \E i \in DOMAIN Taken : Taken[i][2] = m

TakenWithoutGap ==
  clean => \A i \in DOMAIN Taken :
             \/ Taken[i][2] <= base + 1
             \/ \E j \in 1 .. i - 1 : Taken[j][2] = Taken[i][2] - 1

(* What the buffer holds and what the server sends next follows a row that *)
(* was taken; behind the last row the server sends nothing.                *)
NextAfterTaken ==
  /\ clean /\ HasBufferedRow => TakenUpTo(unread.from - 1)
  /\ clean /\ PortalIsOpen =>
       /\ pc \in {"idle", "pop", "fetch"} =>
            \/ portal.pos > Total(stmt)
            \/ IF HasBufferedRow THEN portal.pos <= unread.to
                                 ELSE TakenUpTo(portal.pos)
       /\ pc = "rewind" => TakenUpTo(portal.pos - paging)

NoGapInv == OwnRowsInv /\ TakenWithoutGap /\ NextAfterTaken

(* A server-side cursor needs its transaction; while no fault has struck   *)
(* and the transaction lives, the one that _paging_state names is open.    *)
PortalNeedsTx == PortalIsOpen => tx = "open"

PagingHasPortal == ~faulted /\ tx = "open" /\ paging > 0 => PortalIsOpen

PaginationInv ==
  /\ OwnRowsInv
  /\ PortalNeedsTx
  /\ PagingHasPortal
  /\ PaginatesIfPossible

(* The caller's place, the buffer and the server's position agree, the rows*)
(* a fetch has collected are rows of the result, and one that has all it   *)
(* wanted has a statement: what reading a stream needs.                    *)
StreamInv ==
  /\ CursorInv
  /\ clean /\ out # <<>> => Place <= Total(stmt)
  /\ pc = "pop" /\ want = 0 => stmt \in Stmts

-----------------------------------------------------------------------------
(* Why a call ends.                                                        *)

(* How far the call in progress is before its end, the parts that weigh    *)
(* more first: attempts, the parts of execute, the size of a page, rows the*)
(* server and the buffer still have, the turn of the fetch loop, faults.   *)
StepsOfExecute ==
  IF pc = "execute" THEN 4
  ELSE (IF pc = "declare" THEN 1 ELSE 0) + (IF second THEN 0 ELSE 2)

RowsAhead == IF PortalIsOpen THEN Total(portal.of) + 1 - portal.pos ELSE 0

RowsBuffered == IF HasBufferedRow THEN unread.to - unread.from + 1 ELSE 0

Rank == << Retries - attempt, StepsOfExecute, paging, RowsAhead, RowsBuffered,
           IF pc = "pop" THEN 1 ELSE 0, IF tx = "open" THEN 1 ELSE 0 >>

RankIsNat == \A k \in DOMAIN Rank : Rank[k] \in Nat

(* Whatever the pages, back-offs, retries and faults, each step of a call  *)
(* brings it nearer to its end: no call goes round in circles.             *)
CallsRunDown ==
  [][pc # "idle" /\ pc' # "idle" => RankIsNat' /\ Below(Rank', Rank)]_vars
=============================================================================
