------------------------- MODULE AsyncCursorProofs --------------------------
(***************************************************************************)
(* Theorems about AsyncCursor, for any statements, sizes, unsupported      *)
(* values, faults and cancellations: the origin of the rows, the order of  *)
(* those the Data API can return, that only the beginning of a result may  *)
(* be missing, and the result stream that SyncAdaptedCursor is built upon. *)
(* What the steps it shares with the sync cursor keep is proved in         *)
(* PagedCursorProofs.                                                      *)
(***************************************************************************)
EXTENDS AsyncCursor, PagedCursorProofs

(* A page that cannot be sent, swallowed or raised, leaves the buffer empty*)
(* and the server-side cursor with its statement.                          *)
LEMMA UnsupportedPageKeepsOwnRows ==
  ASSUME OwnRowsInv, PageUnsupported
  PROVE  OwnRowsInv'
<1>. USE DEF OwnRowsInv
<1>1. PortalIsOpen /\ pc = "fetch"
  BY DEF PageUnsupported, PageHasUnsupported
<1>2. /\ PastPage \in Nat /\ PastPage \in Positions(Total(stmt))
      /\ stmt \in Stmts /\ portal.of = stmt /\ paging > 0
  BY <1>1, PageIsTyped
<1>3. /\ MovedTo(PastPage) \in [of : Stmts \cup {NoStmt}, pos : Nat]
      /\ MovedTo(PastPage).of = stmt /\ MovedTo(PastPage).pos = PastPage
  BY <1>2, MovedToIsTyped DEF TypeOK
<1>4. Return \/ (Raise("tooLarge") /\ UNCHANGED faulted)
  BY DEF PageUnsupported
<1>5. TypeOK'
  <2>1. ObjectOK' /\ ServerOK'
    BY <1>3, TooLargeIsTyped DEF PageUnsupported, TypeOK, ObjectOK, object
  <2>2. CASE Return
    BY <2>1, <2>2, ReturnIsTyped DEF TypeOK
  <2>3. CASE Raise("tooLarge") /\ UNCHANGED faulted
    <3>1. "tooLarge" \in Outcomes /\ faulted' \in BOOLEAN
      BY <2>3 DEF Outcomes, TypeOK, HistoryOK
    <3>. QED BY <2>1, <2>3, <3>1, RaiseIsTyped DEF TypeOK
  <2>. QED BY <1>4, <2>2, <2>3
<1>6. OfThisStatement'
  <2>1. pc' = "idle" /\ out' = <<>> /\ stmt' = stmt
    BY <1>4 DEF Return, Raise, CallOver
  <2>2. unread' = unread /\ paging' = paging /\ ~HasBufferedRow
    BY <1>1 DEF PageUnsupported, object, OfThisStatement, OnTheWire
  <2>3. portal' = MovedTo(PastPage) \/ portal' = NoPortal
    BY DEF PageUnsupported, TooLarge, EndTx
  <2>4. (PortalIsOpen => /\ portal.of = stmt /\ stmt \in Stmts
                         /\ paging > 0
                         /\ portal.pos \in Positions(Total(stmt)))'
    BY <1>2, <1>3, <2>1, <2>2, <2>3 DEF PortalIsOpen
  <2>5. ~HasBufferedRow'
    BY <2>2 DEF HasBufferedRow
  <2>. QED BY <1>2, <2>1, <2>2, <2>4, <2>5, OwnAtEndOfCall
<1>7. RowsOfLastExecute'
  BY <1>4 DEF Return, Raise, CallOver, RowsOfLastExecute
<1>. QED BY <1>5, <1>6, <1>7

LEMMA UnsupportedResultKeepsOwnRows ==
  ASSUME OwnRowsInv, pc = "execute", TooLarge(portal), Raise("tooLarge"),
         UNCHANGED <<object, faulted>>
  PROVE  OwnRowsInv'
<1>. USE DEF OwnRowsInv
<1>1. stmt \in Stmts /\ ~PortalIsOpen /\ ~HasBufferedRow
  BY DEF OfThisStatement, OnTheWire
<1>2. ObjectOK' /\ ServerOK'
  <2>1. portal \in [of : Stmts \cup {NoStmt}, pos : Nat]
    BY DEF TypeOK, ServerOK
  <2>. QED BY <2>1, TooLargeIsTyped DEF TypeOK, ObjectOK, object
<1>3. CallOK' /\ HistoryOK'
  <2>1. "tooLarge" \in Outcomes /\ faulted' \in BOOLEAN
    BY DEF Outcomes, TypeOK, HistoryOK
  <2>. QED BY <2>1, RaiseIsTyped
<1>4. OfThisStatement'
  <2>1. pc' = "idle" /\ out' = <<>> /\ stmt' = stmt
    BY DEF Raise, CallOver
  <2>2. ~PortalIsOpen'
    BY <1>1 DEF TooLarge, EndTx, PortalIsOpen
  <2>3. ~HasBufferedRow'
    BY <1>1 DEF object, HasBufferedRow
  <2>. QED BY <1>1, <2>1, <2>2, <2>3, OwnAtEndOfCall
<1>5. RowsOfLastExecute'
  BY DEF Raise, CallOver, RowsOfLastExecute
<1>. QED BY <1>2, <1>3, <1>4, <1>5 DEF TypeOK

LEMMA AsyncNextKeepsOwnRows ==
  ASSUME OwnRowsInv, [AsyncNext]_vars
  PROVE  OwnRowsInv'
<1>1. CASE AsyncUserStep
  BY <1>1, UserStepKeepsOwnRows
  DEF AsyncUserStep, UserStep, AsyncExecute, AsyncFetch, AsyncScroll, AsyncClose
<1>2. CASE AsyncServed \/ AsyncNotServed \/ AsyncStart
  BY <1>2, ExecuteStepsKeepOwnRows, UnsupportedResultKeepsOwnRows
  DEF AsyncServed, AsyncNotServed, AsyncStart
<1>3. CASE AsyncPage
  BY <1>3, PageStepsKeepOwnRows, UnsupportedPageKeepsOwnRows DEF AsyncPage
<1>4. CASE AsyncNextRow
  BY <1>4, FetchStepsKeepOwnRows DEF AsyncNextRow
<1>5. CASE Resuming \/ NoAnswer \/ TxEnds
  BY <1>5, FaultsKeepOwnRows
<1>6. CASE UNCHANGED vars
  BY <1>6, StutterKeepsOwnRows
<1>. QED BY <1>1, <1>2, <1>3, <1>4, <1>5, <1>6 DEF AsyncNext, AsyncStep

(* Also with swallowed refusals and cancelled tasks, no row of another     *)
(* statement is ever handed out.                                           *)
THEOREM AsyncRowsAreOfLastExecute == AsyncSpec => []RowsOfLastExecute
<1>1. OwnRowsInv => RowsOfLastExecute
  BY DEF OwnRowsInv
<1>. QED
  BY InitOwnRows, AsyncNextKeepsOwnRows, <1>1, PTL DEF AsyncSpec

-----------------------------------------------------------------------------
(* The order of the rows of a statement whose values are supported.        *)

AsyncInv == OwnRowsInv /\ (Supported => OrderInv)

(* execute and close start afresh, whatever happened before.               *)
LEMMA FreshStartIsInOrder ==
  ASSUME OwnRowsInv, Close \/ \E s \in Stmts : Execute(s)
  PROVE  OrderInv'
BY DEF Close, Execute, StartBody, BufferAtExecute, EmptyBuffer, Buffer,
   OwnRowsInv, OfThisStatement, OrderInv, OutInOrder, BufferInStep,
   PortalInStep, WholeResult, RowsInOrder, ShortMeansEnd, HasBufferedRow,
   PortalIsOpen

(* No other step changes the statement.                                    *)
LEMMA StatementStays ==
  ASSUME AsyncStep \/ TxEnds \/ UNCHANGED vars \/
         (AsyncUserStep /\ ~Close /\ ~ \E s \in Stmts : Execute(s))
  PROVE  stmt' = stmt
<1>. USE DEF GoTo, Raise, Return, ReturnRows, CallOver
<1>1. CASE AsyncServed \/ AsyncNotServed \/ AsyncStart
  BY <1>1 DEF AsyncServed, AsyncNotServed, AsyncStart, ExecuteServed,
     ExecuteTooLarge, ExecuteRefused, Declared, DeclareRefused
<1>2. CASE AsyncPage
  BY <1>2 DEF AsyncPage, PageServed, PageTooLarge, PageUnsupported, PageRefused,
     Rewound, RewindRefused
<1>3. CASE AsyncNextRow
  BY <1>3 DEF AsyncNextRow, PopRow, NextPage, FetchDone
<1>4. CASE Resuming \/ NoAnswer \/ TxEnds \/ UNCHANGED vars
  BY <1>4 DEF Resuming, NoAnswer, TxEnds, vars, call
<1>5. CASE AsyncUserStep /\ ~Close /\ ~ \E s \in Stmts : Execute(s)
  BY <1>5 DEF AsyncUserStep, AsyncExecute, AsyncFetch, AsyncScroll, AsyncClose,
     Fetch, Scroll, call
<1>. QED BY <1>1, <1>2, <1>3, <1>4, <1>5 DEF AsyncStep

LEMMA SupportedStepKeepsOrder ==
  ASSUME NoTailOverflow, CursorInv, Unsupported[stmt] = {} \/ stmt \notin Stmts,
         [AsyncNext]_vars
  PROVE  OrderInv'
<1>1. CASE AsyncUserStep
  BY <1>1, UserStepKeepsOrder
  DEF AsyncUserStep, UserStep, AsyncExecute, AsyncFetch, AsyncScroll, AsyncClose
<1>2. CASE AsyncServed \/ AsyncNotServed \/ AsyncStart
  BY <1>2, ExecuteStepsKeepOrder, RaiseBreaksOrder
  DEF AsyncServed, AsyncNotServed, AsyncStart
<1>3. CASE AsyncPage
  <2>1. ~PageUnsupported
    <3>1. PortalIsOpen => portal.of = stmt /\ stmt \in Stmts
      BY DEF CursorInv, OwnRowsInv, OfThisStatement
    <3>. QED BY <3>1 DEF PageUnsupported, PageHasUnsupported, HasUnsupported
  <2>. QED
    BY <1>3, <2>1, NoTailOverflow, PageServedKeepsOrder, PageTooLargeKeepsOrder,
       RewoundKeepsOrder, FaultsKeepOrder
    DEF AsyncPage
<1>4. CASE AsyncNextRow
  BY <1>4, FetchStepsKeepOrder DEF AsyncNextRow
<1>5. CASE Resuming \/ NoAnswer \/ TxEnds
  BY <1>5, FaultsKeepOrder
<1>6. CASE UNCHANGED vars
  BY <1>6, StutterKeepsOrder DEF CursorInv
<1>. QED BY <1>1, <1>2, <1>3, <1>4, <1>5, <1>6 DEF AsyncNext, AsyncStep

(* Without an oversized tail, the rows of a statement the Data API can send*)
(* come in order and whole until a call raises or is cancelled.            *)
THEOREM SupportedRowsAreInOrder ==
  ASSUME NoTailOverflow
  PROVE  AsyncSpec => []SupportedInOrder
<1>1. Init => AsyncInv
  BY InitOwnRows, InitOrder DEF AsyncInv
<1>2. AsyncInv /\ [AsyncNext]_vars => AsyncInv'
  <2>. SUFFICES ASSUME AsyncInv, [AsyncNext]_vars PROVE AsyncInv'
    OBVIOUS
  <2>1. OwnRowsInv'
    BY AsyncNextKeepsOwnRows DEF AsyncInv
  <2>2. CASE Close \/ \E s \in Stmts : Execute(s)
    BY <2>1, <2>2, FreshStartIsInOrder DEF AsyncInv
  <2>3. CASE ~(Close \/ \E s \in Stmts : Execute(s))
    <3>1. stmt' = stmt
      BY <2>3, StatementStays DEF AsyncNext
    <3>2. ASSUME Supported PROVE OrderInv'
      BY <3>2, NoTailOverflow, SupportedStepKeepsOrder
      DEF AsyncInv, CursorInv, Supported
    <3>. QED BY <2>1, <3>1, <3>2 DEF AsyncInv, Supported
  <2>. QED BY <2>2, <2>3
<1>3. AsyncInv => SupportedInOrder
  BY DEF AsyncInv, SupportedInOrder, OrderInv
<1>. QED BY <1>1, <1>2, <1>3, PTL DEF AsyncSpec

-----------------------------------------------------------------------------
(* Only the beginning of a result may be missing.                          *)

LEMMA SameSuccession ==
  ASSUME Taken' = Taken, clean' = clean, TakenInSuccession
  PROVE  TakenInSuccession' /\ \A n : Follows(n)' <=> Follows(n)
BY DEF TakenInSuccession, Follows

LEMMA NoneInSuccession ==
  ASSUME handed' = <<>>, out' = <<>>
  PROVE  TakenInSuccession' /\ \A n : Follows(n)'
<1>1. Taken' = <<>>
  BY NothingTakenNext
<1>2. Len(Taken') = 0
  BY <1>1
<1>. QED BY <1>1, <1>2 DEF TakenInSuccession, Follows

LEMMA BrokenSuccession ==
  ASSUME clean' = FALSE PROVE TakenInSuccession' /\ NextInSuccession'
BY DEF TakenInSuccession, NextInSuccession

LEMMA RaiseForgetsSuccession ==
  ASSUME NEW kind, Raise(kind)
  PROVE  TakenInSuccession' /\ NextInSuccession'
BY BrokenSuccession DEF Raise

(* As long as no row was taken any row may come next.                      *)
LEMMA AnyRowMayBeFirst ==
  ASSUME handed' = <<>>, out' = <<>>, pc' # "rewind", ~HasBufferedRow'
  PROVE  TakenInSuccession' /\ NextInSuccession'
<1>1. Follows(portal.pos + 1)'
  BY NoneInSuccession DEF Follows
<1>. QED BY <1>1, NoneInSuccession DEF NextInSuccession

LEMMA UserStepKeepsSuccession ==
  ASSUME HeadInv, UserStep
  PROVE  TakenInSuccession' /\ NextInSuccession'
<1>. USE DEF HeadInv, OwnRowsInv
<1>1. ASSUME NEW s \in Stmts, Execute(s)
      PROVE  TakenInSuccession' /\ NextInSuccession'
  <2>1. handed' = <<>> /\ out' = <<>> /\ pc' = "execute" /\ ~HasBufferedRow'
    BY <1>1
    DEF Execute, StartBody, BufferAtExecute, EmptyBuffer, Buffer, HasBufferedRow
  <2>. QED BY <2>1, AnyRowMayBeFirst
<1>2. ASSUME NEW n \in Wants \cup {All}, Fetch(n)
      PROVE  TakenInSuccession' /\ NextInSuccession'
  <2>1. Taken' = Taken /\ clean' = clean
    BY <1>2 DEF Fetch, OfThisStatement, Taken, history
  <2>. QED BY <1>2, <2>1, SameSuccession
    DEF Fetch, NextInSuccession, Follows, HasBufferedRow, PortalIsOpen, object,
        server
<1>3. ASSUME NEW n \in Moves, NEW mode \in {"relative", "absolute"},
             Scroll(n, mode)
      PROVE  TakenInSuccession' /\ NextInSuccession'
  <2>1. pc' = "idle" /\ pc = "idle" /\ out' = <<>> /\ out = <<>>
        /\ stmt' = stmt
    BY <1>3 DEF Scroll, call, OfThisStatement
  <2>2. CASE clean' = FALSE
    BY <2>2, BrokenSuccession
  <2>3. CASE UNCHANGED <<unread, portal, handed, clean>>
    <3>1. Taken' = Taken
      BY <2>1, <2>3 DEF Taken
    <3>. QED BY <2>1, <2>3, <3>1, SameSuccession
      DEF NextInSuccession, Follows, HasBufferedRow, PortalIsOpen
  <2>4. CASE unread' = BufferAfterScroll /\ handed' = <<>>
    <3>1. ~HasBufferedRow'
      BY <2>4 DEF BufferAfterScroll, EmptyBuffer, Buffer, HasBufferedRow
    <3>. QED BY <2>1, <2>4, <3>1, AnyRowMayBeFirst
  <2>. QED BY <1>3, <2>2, <2>3, <2>4 DEF Scroll
<1>4. CASE Close
  <2>1. handed' = <<>> /\ out' = <<>> /\ pc' = "idle" /\ ~HasBufferedRow'
    BY <1>4 DEF Close, OfThisStatement, EmptyBuffer, Buffer, HasBufferedRow
  <2>. QED BY <2>1, AnyRowMayBeFirst
<1>. QED BY <1>1, <1>2, <1>3, <1>4 DEF UserStep

LEMMA ExecuteStepsKeepSuccession ==
  ASSUME HeadInv,
         \/ ExecuteServed \/ ExecuteTooLarge \/ ExecuteRefused
         \/ Declared \/ DeclareRefused
  PROVE  TakenInSuccession' /\ NextInSuccession'
<1>. USE DEF HeadInv, OwnRowsInv
<1>1. CASE ExecuteServed
  <2>1. CASE Raise("conversion")
    BY <2>1, RaiseForgetsSuccession
  <2>2. CASE Return
    <3>1. handed' = <<>> /\ out' = <<>> /\ ~PortalIsOpen'
      BY <1>1, <2>2
      DEF ExecuteServed, OfThisStatement, Return, CallOver, PortalIsOpen, server
    <3>2. Follows(unread.from)'
      BY <3>1, NoneInSuccession DEF Follows
    <3>. QED BY <3>1, <3>2, NoneInSuccession DEF NextInSuccession
  <2>. QED BY <1>1, <2>1, <2>2 DEF ExecuteServed
<1>2. CASE ExecuteTooLarge \/ Declared
  <2>1. handed' = <<>> /\ out' = <<>> /\ pc' # "rewind" /\ ~HasBufferedRow'
    BY <1>2
    DEF ExecuteTooLarge, Declared, GoTo, OfThisStatement, OnTheWire, object,
        history, EmptyBuffer, Buffer, HasBufferedRow
  <2>. QED BY <2>1, AnyRowMayBeFirst
<1>3. CASE ExecuteRefused \/ DeclareRefused
  BY <1>3, RaiseForgetsSuccession DEF ExecuteRefused, DeclareRefused
<1>. QED BY <1>1, <1>2, <1>3

LEMMA PageServedKeepsSuccession ==
  ASSUME HeadInv, PageServed
  PROVE  TakenInSuccession' /\ NextInSuccession'
<1>. USE DEF HeadInv, OwnRowsInv
<1>1. CASE Raise("conversion")
  BY <1>1, RaiseForgetsSuccession
<1>2. CASE /\ unread' = Buffer(portal.of, portal.pos + 1, PageTo)
           /\ \/ InExecute /\ Return
              \/ ReturnRows(TRUE)
              \/ GoTo("pop") /\ UNCHANGED history
  <2>1. /\ stmt \in Stmts /\ Total(stmt) \in Nat /\ portal.of = stmt
        /\ portal.pos \in Nat /\ portal.pos <= Total(stmt) + 1
        /\ paging \in Nat \ {0} /\ PageTo \in Nat /\ PageTo <= Total(stmt)
        /\ PastPage \in Nat
    BY PageIsTyped DEF PageServed
  <2>2. /\ unread'.from = portal.pos + 1 /\ unread'.to = PageTo
        /\ portal'.pos = PastPage
    BY <1>2, <2>1, MovedToIsTyped DEF Buffer, PageServed, TypeOK
  <2>3. /\ Taken' = Taken /\ clean' = clean
        /\ stmt' = stmt /\ pc' \in {"idle", "pop"}
    <3>1. CASE InExecute /\ Return
      <4>1. out = <<>>
        BY <3>1 DEF PageServed, OfThisStatement, FetchingForExecute
      <4>. QED BY <3>1, <4>1 DEF Return, CallOver, Taken
    <3>2. CASE ReturnRows(TRUE)
      BY <3>2, ReturnKeepsTaken DEF ReturnRows, CallOver
    <3>3. CASE GoTo("pop") /\ UNCHANGED history
      BY <3>3 DEF GoTo, history, Taken
    <3>. QED BY <1>2, <3>1, <3>2, <3>3
  <2>4. TakenInSuccession' /\ \A n : Follows(n)' <=> Follows(n)
    BY <2>3, SameSuccession
  <2>5. clean => portal.pos > Total(stmt) \/ Follows(portal.pos + 1)
    BY DEF PageServed, NextInSuccession, OfThisStatement, OnTheWire
  <2>6. /\ portal.pos < PageTo =>
             \/ PastPage = PageTo
             \/ PageTo = Total(stmt) /\ PastPage = Total(stmt) + 1
        /\ ~ portal.pos < PageTo => PastPage = Total(stmt) + 1
    BY <2>1, FetchMeetsPage DEF PageTo, PastPage
  <2>7. HasBufferedRow' <=> portal.pos < PageTo
    BY <2>1, <2>2 DEF HasBufferedRow
  <2>8. (clean /\ HasBufferedRow => Follows(unread.from))'
    <3>1. clean /\ portal.pos < PageTo => Follows(portal.pos + 1)
      BY <2>1, <2>5
    <3>. QED BY <2>2, <2>3, <2>7, <3>1 DEF Follows
  <2>9. \/ portal'.pos > Total(stmt)'
        \/ HasBufferedRow' /\ portal'.pos = unread'.to
    BY <2>1, <2>2, <2>3, <2>6, <2>7
  <2>. QED BY <2>3, <2>4, <2>8, <2>9 DEF NextInSuccession
<1>. QED BY <1>1, <1>2 DEF PageServed

LEMMA BackOffKeepsSuccession ==
  ASSUME NoTailOverflow, HeadInv, PageTooLarge \/ Rewound
  PROVE  TakenInSuccession' /\ NextInSuccession'
<1>. USE DEF HeadInv, OwnRowsInv
<1>1. CASE PageTooLarge /\ Raise("tooLarge")
  BY <1>1, RaiseForgetsSuccession
<1>2. CASE PageTooLarge /\ GoTo("rewind") /\ UNCHANGED history
  <2>1. /\ stmt \in Stmts /\ Total(stmt) \in Nat /\ portal.of = stmt
        /\ portal.pos \in Nat /\ paging \in Nat \ {0} /\ PastPage \in Nat
        /\ PageTo \in Nat /\ PageTo <= Total(stmt)
    BY <1>2, PageIsTyped DEF PageTooLarge
  <2>2. Taken' = Taken /\ clean' = clean
    BY <1>2 DEF GoTo, history, Taken
  <2>3. /\ pc' = "rewind" /\ stmt' = stmt /\ paging' = paging /\ ~HasBufferedRow'
        /\ ~HasBufferedRow
    BY <1>2
    DEF PageTooLarge, GoTo, object, HasBufferedRow, OfThisStatement, OnTheWire
  <2>4. portal.pos < PageTo /\ ~Fits(stmt, portal.pos + 1, PageTo)
    BY <1>2, <2>1 DEF PageTooLarge, PageFits
  <2>5. clean => Follows(portal.pos + 1)
    BY <1>2, <2>1, <2>3, <2>4 DEF PageTooLarge, NextInSuccession
  <2>6. /\ portal.pos \in 0 .. Total(stmt) - 1
        /\ PastPage = AfterFetch(portal.pos, paging, Total(stmt))
        /\ PageTo = FetchEnd(portal.pos, paging, Total(stmt))
    BY <2>1, <2>4 DEF PastPage, PageTo
  <2>7. ~PortalIsOpen' \/ portal'.pos = PastPage
    BY <1>2, <2>1, MovedToIsTyped
    DEF PageTooLarge, TooLarge, EndTx, PortalIsOpen, TypeOK
  <2>8. TakenInSuccession' /\ \A n : Follows(n)' <=> Follows(n)
    BY <2>2, SameSuccession
  <2>9. (clean /\ PortalIsOpen =>
           \E p \in 0 .. Total(stmt) - 1 :
             /\ Follows(p + 1)
             /\ portal.pos = AfterFetch(p, paging, Total(stmt))
             /\ ~Fits(stmt, p + 1, FetchEnd(p, paging, Total(stmt))))'
    BY <2>2, <2>3, <2>4, <2>5, <2>6, <2>7, <2>8
  <2>. QED BY <2>3, <2>8, <2>9 DEF NextInSuccession
<1>3. CASE /\ PageTooLarge /\ pc' = "declare"
           /\ UNCHANGED <<stmt, attempt, want, out, history>>
  <2>1. Taken' = Taken /\ clean' = clean
    BY <1>3 DEF history, Taken
  <2>2. ~HasBufferedRow'
    BY <1>3 DEF PageTooLarge, object, HasBufferedRow, OfThisStatement, OnTheWire
  <2>. QED BY <1>3, <2>1, <2>2, SameSuccession DEF NextInSuccession
<1>4. CASE Rewound
  <2>. SUFFICES ASSUME clean PROVE TakenInSuccession' /\ NextInSuccession'
    BY <1>4, BrokenSuccession DEF Rewound, history, TypeOK, HistoryOK
  <2>1. Total(stmt) \in Nat /\ RewindTarget \in Nat /\ stmt \in Stmts
    BY <1>4, PageIsTyped DEF Rewound
  <2>2. Taken' = Taken /\ clean' = clean
    BY <1>4 DEF Rewound, GoTo, history, Taken
  <2>3. /\ pc' = "fetch" /\ ~HasBufferedRow' /\ portal'.pos = RewindTarget
    BY <1>4, <2>1, MovedToIsTyped
    DEF Rewound, GoTo, EmptyBuffer, Buffer, HasBufferedRow, TypeOK
  <2>4. PICK p \in 0 .. Total(stmt) - 1 :
          /\ Follows(p + 1)
          /\ portal.pos = AfterFetch(p, paging, Total(stmt))
          /\ ~Fits(stmt, p + 1, FetchEnd(p, paging, Total(stmt)))
    BY <1>4 DEF Rewound, NextInSuccession
  <2>5. RewindTarget = p
    <3>1. p \in Nat /\ p < Total(stmt)
      BY <2>1
    <3>. QED BY <1>4, <2>4, <3>1, RewindMeetsPage DEF Rewound
  <2>6. Follows(portal.pos + 1)'
    BY <2>2, <2>3, <2>4, <2>5 DEF Follows
  <2>. QED BY <2>2, <2>3, <2>6, SameSuccession DEF NextInSuccession
<1>. QED BY <1>1, <1>2, <1>3, <1>4 DEF PageTooLarge

LEMMA FetchStepsKeepSuccession ==
  ASSUME HeadInv, PopRow \/ NextPage \/ FetchDone
  PROVE  TakenInSuccession' /\ NextInSuccession'
<1>. USE DEF HeadInv, OwnRowsInv
<1>1. CASE PopRow
  <2>. SUFFICES ASSUME clean PROVE TakenInSuccession' /\ NextInSuccession'
    BY <1>1, BrokenSuccession DEF PopRow, history, TypeOK, HistoryOK
  <2>1. /\ portal' = portal /\ stmt' = stmt /\ pc = "pop" /\ pc' = "pop"
        /\ HasBufferedRow
    BY <1>1 DEF PopRow, server
  <2>2. /\ unread.from \in Nat /\ unread.to \in Nat /\ unread.from <= unread.to
        /\ unread'.from = unread.from + 1 /\ unread'.to = unread.to
    BY <1>1 DEF PopRow, HasBufferedRow, TypeOK, ObjectOK
  <2>3. /\ Len(Taken) \in Nat /\ Len(Taken') = Len(Taken) + 1
        /\ DOMAIN Taken = 1 .. Len(Taken)
        /\ DOMAIN Taken' = 1 .. Len(Taken) + 1
        /\ \A i \in 1 .. Len(Taken) : Taken'[i] = Taken[i]
        /\ Taken'[Len(Taken) + 1][2] = unread.from
    BY <1>1, PoppedRow
  <2>4. Follows(unread.from)
    BY <2>1 DEF NextInSuccession
  <2>5. ASSUME NEW i \in 1 .. Len(Taken)
        PROVE  Taken'[i + 1][2] = Taken'[i][2] + 1
    <3>1. CASE i < Len(Taken)
      <4>1. i \in 1 .. Len(Taken) - 1 /\ i + 1 \in 1 .. Len(Taken)
        BY <2>3, <3>1
      <4>. QED BY <2>3, <4>1 DEF TakenInSuccession
    <3>2. CASE i = Len(Taken)
      <4>1. Taken # <<>>
        BY <2>3
      <4>. QED BY <2>3, <2>4, <3>2, <4>1 DEF Follows
    <3>3. i < Len(Taken) \/ i = Len(Taken)
      <4>. DEFINE n == Len(Taken)
      <4>1. n \in Nat /\ i \in 1 .. n
        BY <2>3
      <4>2. i < n \/ i = n
        <5>. HIDE DEF n
        <5>. QED BY <4>1
      <4>. QED BY <4>2
    <3>. QED BY <3>1, <3>2, <3>3
  <2>6. TakenInSuccession'
    <3>1. Len(Taken') - 1 = Len(Taken)
      BY <2>3
    <3>. QED BY <2>5, <3>1 DEF TakenInSuccession
  <2>7. Follows(unread.from)' /\ (unread.to = unread.from => Follows(unread.to + 1)')
    BY <2>2, <2>3 DEF Follows
  <2>8. PortalIsOpen =>
          portal.pos > Total(stmt) \/ portal.pos = unread.to
    BY <2>1 DEF NextInSuccession
  <2>9. (PortalIsOpen =>
           \/ portal.pos > Total(stmt)
           \/ IF HasBufferedRow THEN portal.pos = unread.to
                                ELSE Follows(portal.pos + 1))'
    <3>1. ~HasBufferedRow' => unread.to = unread.from
      BY <2>2 DEF HasBufferedRow
    <3>. QED BY <2>1, <2>2, <2>7, <2>8, <3>1 DEF PortalIsOpen, Follows
  <2>. QED BY <2>1, <2>6, <2>7, <2>9 DEF NextInSuccession
<1>2. CASE NextPage
  <2>1. Taken' = Taken /\ clean' = clean
    BY <1>2 DEF NextPage, GoTo, history, Taken
  <2>. QED BY <1>2, <2>1, SameSuccession
    DEF NextPage, GoTo, NextInSuccession, Follows, HasBufferedRow, PortalIsOpen,
        object, server
<1>3. CASE FetchDone
  <2>1. PICK isShort \in BOOLEAN : ReturnRows(isShort)
    BY <1>3 DEF FetchDone
  <2>2. Taken' = Taken /\ clean' = clean
    BY <2>1, ReturnKeepsTaken DEF ReturnRows
  <2>. QED BY <1>3, <2>1, <2>2, SameSuccession
    DEF FetchDone, ReturnRows, CallOver, NextInSuccession, Follows,
        HasBufferedRow, PortalIsOpen, object, server
<1>. QED BY <1>1, <1>2, <1>3

(* A swallowed refusal ends execute before a row was taken: the server is  *)
(* behind the page, and its rows are the beginning that is missing.        *)
LEMMA UnsupportedKeepsSuccession ==
  ASSUME HeadInv, PageUnsupported
  PROVE  TakenInSuccession' /\ NextInSuccession'
<1>1. CASE Raise("tooLarge")
  BY <1>1, RaiseForgetsSuccession
<1>2. CASE Swallowed /\ Return
  <2>1. handed' = <<>> /\ out' = <<>> /\ pc' = "idle"
    BY <1>2
    DEF PageUnsupported, Swallowed, Return, CallOver, HeadInv, OwnRowsInv,
        OfThisStatement, FetchingForExecute
  <2>2. ~HasBufferedRow'
    BY DEF PageUnsupported, object, HeadInv, OwnRowsInv, OfThisStatement,
           OnTheWire, HasBufferedRow
  <2>. QED BY <2>1, <2>2, AnyRowMayBeFirst
<1>. QED BY <1>1, <1>2 DEF PageUnsupported

LEMMA FaultsKeepSuccession ==
  ASSUME HeadInv,
         \/ Resuming \/ NoAnswer \/ TxEnds \/ PageRefused \/ RewindRefused
         \/ UNCHANGED vars
  PROVE  TakenInSuccession' /\ NextInSuccession'
<1>. USE DEF HeadInv, OwnRowsInv
<1>1. CASE Resuming
  <2>1. CASE Raise("resuming")
    BY <2>1, RaiseForgetsSuccession
  <2>2. CASE InExecute /\ StartBody /\ handed' = handed
    <3>1. handed' = <<>> /\ out' = <<>> /\ pc' = "execute" /\ ~HasBufferedRow'
      BY <1>1, <2>2
      DEF Resuming, OnTheWire, OfThisStatement, FetchingForExecute, StartBody,
          BufferAtExecute, EmptyBuffer, Buffer, HasBufferedRow
    <3>. QED BY <3>1, AnyRowMayBeFirst
  <2>. QED BY <1>1, <2>1, <2>2 DEF Resuming
<1>2. CASE NoAnswer \/ PageRefused \/ RewindRefused
  BY <1>2, RaiseForgetsSuccession DEF NoAnswer, PageRefused, RewindRefused
<1>3. CASE TxEnds
  <2>1. Taken' = Taken /\ clean' = clean
    BY <1>3 DEF TxEnds, call, Taken
  <2>. QED BY <1>3, <2>1, SameSuccession
    DEF TxEnds, EndTx, object, NextInSuccession, Follows, HasBufferedRow,
        PortalIsOpen
<1>4. CASE UNCHANGED vars
  <2>1. Taken' = Taken /\ clean' = clean
    BY <1>4 DEF vars, call, history, Taken
  <2>. QED BY <1>4, <2>1, SameSuccession
    DEF vars, object, call, server, NextInSuccession, Follows, HasBufferedRow,
        PortalIsOpen
<1>. QED BY <1>1, <1>2, <1>3, <1>4

THEOREM HeadInvAlways == ASSUME NoTailOverflow PROVE AsyncSpec => []HeadInv
<1>1. Init => HeadInv
  <2>. SUFFICES ASSUME Init PROVE HeadInv
    OBVIOUS
  <2>1. Taken = <<>> /\ Len(Taken) = 0
    BY NothingTaken DEF Init
  <2>. QED BY <2>1, InitOwnRows
    DEF Init, HeadInv, TakenInSuccession, NextInSuccession, EmptyBuffer, Buffer,
        HasBufferedRow, PortalIsOpen
<1>2. HeadInv /\ [AsyncNext]_vars => HeadInv'
  <2>. SUFFICES ASSUME HeadInv, [AsyncNext]_vars PROVE HeadInv'
    OBVIOUS
  <2>1. OwnRowsInv'
    BY AsyncNextKeepsOwnRows DEF HeadInv
  <2>2. TakenInSuccession' /\ NextInSuccession'
    <3>1. CASE AsyncUserStep
      BY <3>1, UserStepKeepsSuccession
      DEF AsyncUserStep, UserStep, AsyncExecute, AsyncFetch, AsyncScroll, AsyncClose
    <3>2. CASE AsyncServed \/ AsyncNotServed \/ AsyncStart
      BY <3>2, ExecuteStepsKeepSuccession, RaiseForgetsSuccession
      DEF AsyncServed, AsyncNotServed, AsyncStart
    <3>3. CASE AsyncPage
      BY <3>3, NoTailOverflow, PageServedKeepsSuccession, BackOffKeepsSuccession,
         UnsupportedKeepsSuccession, FaultsKeepSuccession
      DEF AsyncPage
    <3>4. CASE AsyncNextRow
      BY <3>4, FetchStepsKeepSuccession DEF AsyncNextRow
    <3>5. CASE Resuming \/ NoAnswer \/ TxEnds \/ UNCHANGED vars
      BY <3>5, FaultsKeepSuccession
    <3>. QED BY <3>1, <3>2, <3>3, <3>4, <3>5 DEF AsyncNext, AsyncStep
  <2>. QED BY <2>1, <2>2 DEF HeadInv
<1>. QED BY <1>1, <1>2, PTL DEF AsyncSpec

(* Whatever values the Data API refuses, while no call raised nothing but  *)
(* the beginning of a result is missing.                                   *)
THEOREM OnlyTheHeadIsMissing ==
  ASSUME NoTailOverflow PROVE AsyncSpec => []OnlyHeadMissing
<1>1. HeadInv => OnlyHeadMissing
  <2>. SUFFICES ASSUME HeadInv, clean, NEW i \in 1 .. Len(handed) - 1
                PROVE  handed[i + 1][2] = handed[i][2] + 1
    BY DEF OnlyHeadMissing
  <2>1. /\ Len(Taken) = Len(handed) + Len(out)
        /\ Len(handed) \in Nat /\ Len(out) \in Nat
        /\ \A j \in 1 .. Len(handed) : Taken[j] = handed[j]
    BY TakenRows DEF HeadInv, OwnRowsInv
  <2>2. /\ i \in 1 .. Len(Taken) - 1
        /\ i \in 1 .. Len(handed) /\ i + 1 \in 1 .. Len(handed)
    BY <2>1
  <2>. QED BY <2>1, <2>2 DEF HeadInv, TakenInSuccession
<1>. QED BY <1>1, HeadInvAlways, PTL
-----------------------------------------------------------------------------
(* The async cursor as a result stream.                                    *)

AllSupported == \A s \in Stmts : Unsupported[s] = {}

(* Without unsupported values the async cursor takes the steps of the sync *)
(* one.                                                                    *)
LEMMA SupportedStepIsSync ==
  ASSUME AllSupported, OwnRowsInv, [AsyncNext]_vars
  PROVE  [Next]_vars
<1>1. CASE AsyncUserStep
  BY <1>1
  DEF AsyncUserStep, UserStep, Next, AsyncExecute, AsyncFetch, AsyncScroll,
      AsyncClose
<1>2. CASE AsyncServed \/ AsyncNotServed \/ AsyncStart
  <2>1. pc = "execute" => stmt \in Stmts
    BY DEF OwnRowsInv, OfThisStatement, OnTheWire
  <2>. QED
    BY <1>2, <2>1
    DEF AsyncServed, AsyncNotServed, AsyncStart, AllSupported, HasUnsupported,
        Next, DriverStep
<1>3. CASE AsyncPage
  <2>1. ~PageUnsupported
    <3>1. PortalIsOpen => portal.of \in Stmts
      BY DEF OwnRowsInv, OfThisStatement
    <3>. QED
      BY <3>1
      DEF PageUnsupported, PageHasUnsupported, HasUnsupported, AllSupported
  <2>. QED BY <1>3, <2>1 DEF AsyncPage, Next, DriverStep
<1>4. CASE AsyncNextRow \/ Resuming \/ NoAnswer \/ TxEnds
  BY <1>4 DEF AsyncNextRow, Next, DriverStep
<1>. QED BY <1>1, <1>2, <1>3, <1>4 DEF AsyncNext, AsyncStep

(* What SyncAdaptedCursor assumes of the cursor below it: where the Data   *)
(* API can return every value, the async cursor is a result stream to its  *)
(* caller, with back-offs, faults and cancellation.                        *)
THEOREM AsyncCursorIsAStream ==
  ASSUME NoTailOverflow, AllSupported
  PROVE  AsyncSpec => ImplementsResultStream
<1>1. OwnRowsInv /\ [AsyncNext]_vars => OwnRowsInv'
  BY AsyncNextKeepsOwnRows
<1>2. OwnRowsInv /\ [AsyncNext]_vars => [Next]_vars
  BY AllSupported, SupportedStepIsSync
<1>3. AsyncSpec => Spec
  BY <1>1, <1>2, InitOwnRows, PTL DEF AsyncSpec, Spec
<1>. QED BY <1>3, NoTailOverflow, CursorIsAStream, PTL
-----------------------------------------------------------------------------
(* The end of a call.                                                      *)

(* A step that the sync cursor does not take ends the call.                *)
LEMMA OtherStepsEndTheCall ==
  ASSUME AsyncNext, pc' # "idle"
  PROVE  Next
<1>. USE DEF Next, DriverStep
<1>1. CASE AsyncUserStep
  BY <1>1
  DEF AsyncUserStep, UserStep, AsyncExecute, AsyncFetch, AsyncScroll, AsyncClose
<1>2. CASE AsyncServed \/ AsyncNotServed \/ AsyncStart
  BY <1>2 DEF AsyncServed, AsyncNotServed, AsyncStart, Raise, CallOver
<1>3. CASE AsyncPage
  BY <1>3 DEF AsyncPage, PageUnsupported, Return, Raise, CallOver
<1>4. CASE AsyncNextRow \/ Resuming \/ NoAnswer \/ TxEnds
  BY <1>4 DEF AsyncNextRow
<1>. QED BY <1>1, <1>2, <1>3, <1>4 DEF AsyncNext, AsyncStep

(* The calls of the async cursor do not go round in circles either, refused*)
(* values and cancellation included.                                       *)
THEOREM AsyncCallsAreFinite == AsyncSpec => CallsRunDown
<1>1. OwnRowsInv /\ [AsyncNext]_vars => OwnRowsInv'
  BY AsyncNextKeepsOwnRows
<1>2. OwnRowsInv => RankIsNat
  BY RankIsNatInCalls
<1>3. /\ OwnRowsInv /\ OwnRowsInv' /\ RankIsNat /\ RankIsNat' /\ [AsyncNext]_vars
      => [pc # "idle" /\ pc' # "idle" => RankIsNat' /\ Below(Rank', Rank)]_vars
  BY OtherStepsEndTheCall, StepCountsDown
<1>. QED
  BY <1>1, <1>2, <1>3, InitOwnRows, PTL DEF AsyncSpec, CallsRunDown
=============================================================================
