-------------------------- MODULE PagedCursorProofs --------------------------
(***************************************************************************)
(* Theorems about PagedCursor for all statements, row sizes, page sizes,   *)
(* retries and faults: types, the origin of the rows, that none is passed  *)
(* over, that pagination fails in a transaction only after a fault, and,   *)
(* for results without an oversized tail, that the rows are handed out in  *)
(* order and whole, as a result stream does, and never again, also behind  *)
(* a call that raised (CursorHistory).                                     *)
(***************************************************************************)
EXTENDS CursorHistory, SequenceTheorems, TLAPS

-----------------------------------------------------------------------------
(* The arithmetic of the server-side cursor.                               *)

LEMMA TotalIsNat == ASSUME NEW s \in Stmts PROVE Total(s) \in Nat
BY ConstantsOK DEF Total

LEMMA FetchReaches ==
  ASSUME NEW total \in Nat, NEW p \in Nat, NEW n \in Nat
  PROVE  /\ AfterFetch(p, n, total) \in Positions(total)
         /\ AfterFetch(p, n, total) \in Nat
         /\ FetchEnd(p, n, total) \in Nat
         /\ FetchEnd(p, n, total) <= total
BY DEF AfterFetch, FetchEnd, Clamped, Lesser, Positions

LEMMA MoveReaches ==
  ASSUME NEW total \in Nat, NEW p \in Nat, NEW n \in Int
  PROVE  /\ AfterMoveRelative(p, n, total) \in Positions(total)
         /\ AfterMoveRelative(p, n, total) \in Nat
         /\ AfterMoveAbsolute(n, total) \in Positions(total)
         /\ AfterMoveAbsolute(n, total) \in Nat
BY DEF AfterMoveRelative, AfterMoveAbsolute, Clamped, Lesser, Positions

(* A page that is served leaves the position behind its last row, or behind *)
(* the end of the result when it asked for more rows than were left.        *)
LEMMA FetchMeetsPage ==
  ASSUME NEW total \in Nat, NEW p \in Nat, NEW n \in Nat \ {0}, p <= total + 1
  PROVE  LET last == FetchEnd(p, n, total) IN
         /\ p < last => \/ AfterFetch(p, n, total) = last
                        \/ last = total /\ AfterFetch(p, n, total) = total + 1
         /\ ~ p < last => p >= total /\ AfterFetch(p, n, total) = total + 1
BY DEF AfterFetch, FetchEnd, Clamped, Lesser

(* The rewind of a page ends where the page began, unless the page ran out  *)
(* of rows by two or more and was not the first.                            *)
LEMMA RewindMeetsFetch ==
  ASSUME NEW total \in Nat, NEW p \in Nat, NEW n \in Nat, p < total,
         p = 0 \/ p + n <= total + 1
  PROVE  AfterMoveRelative(AfterFetch(p, n, total), -n, total) = p
BY DEF AfterFetch, AfterMoveRelative, Clamped, Lesser

(* Halving keeps a page size between one row and the size it had.           *)
LEMMA HalfIsSmaller ==
  ASSUME NEW n \in Nat \ {0}
  PROVE  AtLeastOne(n \div 2) \in 1 .. n
BY DEF AtLeastOne

-----------------------------------------------------------------------------
(* Types, and the statement that buffer, server-side cursor and rows belong *)
(* to.                                                                      *)

LEMMA PageIsTyped ==
  ASSUME TypeOK, OfThisStatement, PortalIsOpen
  PROVE  /\ stmt \in Stmts /\ portal.of = stmt /\ portal.pos \in Nat
         /\ portal.pos <= Total(stmt) + 1
         /\ Total(stmt) \in Nat
         /\ paging \in Nat \ {0}
         /\ PageTo \in Nat /\ PageTo <= Total(stmt)
         /\ PastPage \in Nat /\ PastPage \in Positions(Total(stmt))
         /\ RewindTarget \in Nat /\ RewindTarget \in Positions(Total(stmt))
<1>1. /\ stmt \in Stmts /\ portal.of = stmt /\ portal.pos \in Nat
      /\ portal.pos \in Positions(Total(stmt)) /\ paging \in Nat \ {0}
  BY ConstantsOK DEF TypeOK, ObjectOK, ServerOK, OfThisStatement
<1>2. Total(stmt) \in Nat
  BY <1>1, TotalIsNat
<1>3. /\ PageTo \in Nat /\ PageTo <= Total(stmt)
      /\ PastPage \in Nat /\ PastPage \in Positions(Total(stmt))
  BY <1>1, <1>2, FetchReaches DEF PageTo, PastPage
<1>4. RewindTarget \in Nat /\ RewindTarget \in Positions(Total(stmt))
  <2>1. -paging \in Int
    BY <1>1
  <2>. QED BY <1>1, <1>2, <2>1, MoveReaches DEF RewindTarget
<1>5. portal.pos <= Total(stmt) + 1
  BY <1>1, <1>2 DEF Positions
<1>. QED BY <1>1, <1>2, <1>3, <1>4, <1>5

LEMMA InitOwnRows == Init => OwnRowsInv
<1>. SUFFICES ASSUME Init PROVE OwnRowsInv
  OBVIOUS
<1>0. <<>> \in Seq(Rows)
  BY EmptySeq
<1>1. ObjectOK
  BY ConstantsOK DEF Init, ObjectOK, EmptyBuffer, Buffer
<1>2. CallOK
  <2>1. attempt \in 0 .. Retries
    BY ConstantsOK DEF Init
  <2>. QED BY <1>0, <2>1 DEF Init, CallOK
<1>3. ServerOK
  BY ConstantsOK DEF Init, ServerOK, NoPortal
<1>4. HistoryOK
  BY <1>0 DEF Init, HistoryOK, Outcomes
<1>5. OfThisStatement
  BY DEF Init, OfThisStatement, EmptyBuffer, Buffer,
     HasBufferedRow, PortalIsOpen, OnTheWire, FetchingForExecute
<1>6. RowsOfLastExecute
  BY DEF Init, RowsOfLastExecute
<1>. QED BY <1>1, <1>2, <1>3, <1>4, <1>5, <1>6 DEF OwnRowsInv, TypeOK

(* The ends of a call and the other common parts of the actions keep types. *)

LEMMA RaiseIsTyped ==
  ASSUME TypeOK, NEW kind \in Outcomes, Raise(kind), faulted' \in BOOLEAN
  PROVE  CallOK' /\ HistoryOK'
<1>1. <<>> \in Seq(Rows) /\ 0 \in 0 .. Retries
  BY EmptySeq, ConstantsOK
<1>. QED BY <1>1 DEF TypeOK, CallOK, HistoryOK, Raise, CallOver

LEMMA ReturnIsTyped ==
  ASSUME TypeOK, Return
  PROVE  CallOK' /\ HistoryOK'
<1>1. <<>> \in Seq(Rows) /\ 0 \in 0 .. Retries /\ "ok" \in Outcomes
  BY EmptySeq, ConstantsOK DEF Outcomes
<1>. QED BY <1>1 DEF TypeOK, CallOK, HistoryOK, Return, CallOver

LEMMA ReturnRowsIsTyped ==
  ASSUME TypeOK, NEW isShort \in BOOLEAN, ReturnRows(isShort)
  PROVE  CallOK' /\ HistoryOK'
<1>1. <<>> \in Seq(Rows) /\ 0 \in 0 .. Retries /\ "ok" \in Outcomes
  BY EmptySeq, ConstantsOK DEF Outcomes
<1>2. handed \o out \in Seq(Rows)
  BY ConcatProperties DEF TypeOK, CallOK, HistoryOK
<1>. QED BY <1>1, <1>2 DEF TypeOK, CallOK, HistoryOK, ReturnRows, CallOver

LEMMA StartBodyIsTyped ==
  ASSUME TypeOK, StartBody, stmt' \in Stmts, attempt' \in 0 .. Retries
  PROVE  ObjectOK' /\ CallOK' /\ ServerOK'
<1>1. <<>> \in Seq(Rows) /\ 0 \in 0 .. ArraySize
  BY EmptySeq, ConstantsOK
<1>2. ObjectOK'
  BY <1>1 DEF TypeOK, ObjectOK, StartBody, BufferAtExecute, EmptyBuffer, Buffer
<1>3. CallOK'
  BY <1>1 DEF TypeOK, CallOK, StartBody
<1>4. ServerOK'
  BY DEF TypeOK, ServerOK, StartBody, NoPortal
<1>. QED BY <1>2, <1>3, <1>4

LEMMA EndTxIsTyped ==
  ASSUME EndTx
  PROVE  ServerOK'
BY ConstantsOK DEF EndTx, ServerOK, NoPortal

LEMMA TooLargeIsTyped ==
  ASSUME ServerOK,
         NEW p \in [of : Stmts \cup {NoStmt}, pos : Nat],
         TooLarge(p)
  PROVE  ServerOK'
BY EndTxIsTyped DEF ServerOK, TooLarge

LEMMA MovedToIsTyped ==
  ASSUME ServerOK, NEW n \in Nat
  PROVE  /\ MovedTo(n) \in [of : Stmts \cup {NoStmt}, pos : Nat]
         /\ MovedTo(n).of = portal.of /\ MovedTo(n).pos = n
BY DEF ServerOK, MovedTo

(* The statement after a call is over; a server-side cursor and the buffer *)
(* are the ones it had, moved or gone.                                     *)
LEMMA OwnAtEndOfCall ==
  ASSUME pc' = "idle", out' = <<>>,
         (HasBufferedRow => /\ unread.of = stmt /\ stmt \in Stmts
                            /\ unread.to <= Total(stmt))',
         (paging > 0 => stmt \in Stmts)',
         (PortalIsOpen => /\ portal.of = stmt /\ stmt \in Stmts
                          /\ paging > 0
                          /\ portal.pos \in Positions(Total(stmt)))'
  PROVE  OfThisStatement'
BY DEF OfThisStatement, OnTheWire, FetchingForExecute

LEMMA UserStepKeepsOwnRows ==
  ASSUME OwnRowsInv, UserStep
  PROVE  OwnRowsInv'
<1>. USE DEF OwnRowsInv
<1>1. ASSUME NEW s \in Stmts, Execute(s)
      PROVE  OwnRowsInv'
  <2>1. TypeOK'
    <3>1. ObjectOK' /\ CallOK' /\ ServerOK'
      <4>1. stmt' \in Stmts /\ attempt' \in 0 .. Retries
        BY <1>1, ConstantsOK DEF Execute
      <4>. QED BY <1>1, <4>1, StartBodyIsTyped DEF Execute
    <3>2. HistoryOK'
      BY <1>1, EmptySeq DEF Execute, HistoryOK, Outcomes
    <3>. QED BY <3>1, <3>2 DEF TypeOK
  <2>2. OfThisStatement'
    BY <1>1 DEF Execute, StartBody, OfThisStatement, BufferAtExecute,
       EmptyBuffer, Buffer, HasBufferedRow, PortalIsOpen, OnTheWire,
       FetchingForExecute, InExecute
  <2>3. RowsOfLastExecute'
    BY <1>1 DEF Execute, StartBody, RowsOfLastExecute
  <2>. QED BY <2>1, <2>2, <2>3
<1>2. ASSUME NEW n \in Wants \cup {All}, Fetch(n)
      PROVE  OwnRowsInv'
  <2>1. TypeOK'
    <3>1. n \in Nat \cup {All} /\ <<>> \in Seq(Rows)
      BY ConstantsOK, EmptySeq
    <3>. QED BY <1>2, <3>1
         DEF Fetch, TypeOK, ObjectOK, CallOK, ServerOK, HistoryOK,
             object, server, history
  <2>2. OfThisStatement'
    BY <1>2 DEF Fetch, OfThisStatement, HasBufferedRow, PortalIsOpen,
       OnTheWire, FetchingForExecute, object, server, history
  <2>3. RowsOfLastExecute'
    BY <1>2 DEF Fetch, RowsOfLastExecute, history
  <2>. QED BY <2>1, <2>2, <2>3
<1>3. ASSUME NEW n \in Moves, NEW mode \in {"relative", "absolute"},
             Scroll(n, mode)
      PROVE  OwnRowsInv'
  <2>1. PortalIsOpen => /\ Target(n, mode) \in Nat
                        /\ Target(n, mode) \in Positions(Total(stmt))
    <3>1. n \in Int
      BY ConstantsOK
    <3>. QED BY <3>1, PageIsTyped, MoveReaches DEF Target
  <2>2. PortalIsOpen =>
          /\ MovedTo(Target(n, mode)) \in [of : Stmts \cup {NoStmt}, pos : Nat]
          /\ MovedTo(Target(n, mode)).of = portal.of
          /\ MovedTo(Target(n, mode)).pos = Target(n, mode)
    BY <2>1, MovedToIsTyped DEF TypeOK
  <2>3. TypeOK'
    <3>1. ObjectOK'
      BY <1>3 DEF Scroll, TypeOK, ObjectOK, BufferAfterScroll, EmptyBuffer, Buffer
    <3>2. CallOK'
      BY <1>3 DEF Scroll, TypeOK, CallOK, call
    <3>3. ServerOK'
      BY <1>3, <2>2 DEF Scroll, TypeOK, ServerOK
    <3>4. HistoryOK'
      BY <1>3, <2>1, EmptySeq DEF Scroll, TypeOK, HistoryOK, Outcomes
    <3>. QED BY <3>1, <3>2, <3>3, <3>4 DEF TypeOK
  <2>4. OfThisStatement'
    <3>1. pc' = "idle" /\ out' = <<>> /\ stmt' = stmt /\ paging' = paging
      BY <1>3 DEF Scroll, call, OfThisStatement
    <3>2. unread' = unread \/ ~HasBufferedRow'
      BY <1>3 DEF Scroll, HasBufferedRow, BufferAfterScroll, EmptyBuffer, Buffer
    <3>3. \/ portal' = portal
          \/ PortalIsOpen /\ portal' = MovedTo(Target(n, mode))
      BY <1>3 DEF Scroll
    <3>4. (HasBufferedRow => /\ unread.of = stmt /\ stmt \in Stmts
                             /\ unread.to <= Total(stmt))'
      BY <3>1, <3>2 DEF OfThisStatement, HasBufferedRow
    <3>5. (PortalIsOpen => /\ portal.of = stmt /\ stmt \in Stmts
                           /\ paging > 0
                           /\ portal.pos \in Positions(Total(stmt)))'
      BY <3>1, <3>3, <2>1, <2>2 DEF OfThisStatement, PortalIsOpen
    <3>6. (paging > 0 => stmt \in Stmts)'
      BY <3>1 DEF OfThisStatement
    <3>. QED BY <3>1, <3>4, <3>5, <3>6, OwnAtEndOfCall
  <2>5. RowsOfLastExecute'
    BY <1>3 DEF Scroll, RowsOfLastExecute, call
  <2>. QED BY <2>3, <2>4, <2>5
<1>4. CASE Close
  <2>1. TypeOK'
    <3>1. ObjectOK' /\ CallOK'
      BY <1>4, ConstantsOK DEF Close, TypeOK, ObjectOK, CallOK, EmptyBuffer, Buffer
    <3>2. ServerOK'
      BY <1>4 DEF Close, TypeOK, ServerOK, NoPortal
    <3>3. HistoryOK'
      BY <1>4, EmptySeq DEF Close, TypeOK, HistoryOK, Outcomes
    <3>. QED BY <3>1, <3>2, <3>3 DEF TypeOK
  <2>2. OfThisStatement'
    BY <1>4 DEF Close, OfThisStatement, EmptyBuffer, Buffer,
       HasBufferedRow, PortalIsOpen, OnTheWire, FetchingForExecute
  <2>3. RowsOfLastExecute'
    BY <1>4 DEF Close, RowsOfLastExecute, OfThisStatement
  <2>. QED BY <2>1, <2>2, <2>3
<1>. QED BY <1>1, <1>2, <1>3, <1>4 DEF UserStep

LEMMA ExecuteStepsKeepOwnRows ==
  ASSUME OwnRowsInv,
         \/ ExecuteServed \/ ExecuteTooLarge \/ ExecuteRefused
         \/ Declared \/ DeclareRefused
  PROVE  OwnRowsInv'
<1>. USE DEF OwnRowsInv
<1>1. CASE ExecuteServed
  <2>1. stmt \in Stmts /\ Total(stmt) \in Nat /\ ~PortalIsOpen
    BY <1>1, TotalIsNat DEF ExecuteServed, OfThisStatement, OnTheWire
  <2>2. TypeOK'
    <3>1. ObjectOK'
      BY <1>1, <2>1
      DEF ExecuteServed, TypeOK, ObjectOK, DescriptionAfter, Buffer, Raise
    <3>2. CallOK' /\ HistoryOK'
      <4>1. CASE Return
        BY <4>1, ReturnIsTyped
      <4>2. CASE Raise("conversion") /\ UNCHANGED faulted
        <5>1. "conversion" \in Outcomes /\ faulted' \in BOOLEAN
          BY <4>2 DEF Outcomes, TypeOK, HistoryOK
        <5>. QED BY <4>2, <5>1, RaiseIsTyped
      <4>. QED BY <1>1, <4>1, <4>2 DEF ExecuteServed
    <3>3. ServerOK'
      BY <1>1 DEF ExecuteServed, TypeOK, ServerOK, server
    <3>. QED BY <3>1, <3>2, <3>3 DEF TypeOK
  <2>3. OfThisStatement'
    <3>1. pc' = "idle" /\ out' = <<>> /\ stmt' = stmt
      BY <1>1 DEF ExecuteServed, Return, Raise, CallOver
    <3>2. (HasBufferedRow => /\ unread.of = stmt /\ stmt \in Stmts
                             /\ unread.to <= Total(stmt))'
      BY <1>1, <2>1, <3>1
      DEF ExecuteServed, OfThisStatement, HasBufferedRow, Buffer
    <3>3. ~PortalIsOpen'
      BY <1>1, <2>1 DEF ExecuteServed, PortalIsOpen, server
    <3>4. (paging > 0 => stmt \in Stmts)'
      BY <2>1, <3>1
    <3>. QED BY <3>1, <3>2, <3>3, <3>4, OwnAtEndOfCall
  <2>4. RowsOfLastExecute'
    BY <1>1
    DEF ExecuteServed, Return, Raise, CallOver, RowsOfLastExecute,
        OfThisStatement
  <2>. QED BY <2>2, <2>3, <2>4
<1>2. CASE ExecuteTooLarge
  <2>1. TypeOK'
    <3>1. ObjectOK' /\ CallOK' /\ HistoryOK'
      BY <1>2
      DEF ExecuteTooLarge, TypeOK, ObjectOK, CallOK, HistoryOK, GoTo,
          object, history
    <3>2. ServerOK'
      BY <1>2, TooLargeIsTyped DEF ExecuteTooLarge, TypeOK, ServerOK
    <3>. QED BY <3>1, <3>2 DEF TypeOK
  <2>2. OfThisStatement'
    <3>1. ~PortalIsOpen'
      BY <1>2
      DEF ExecuteTooLarge, TooLarge, EndTx, PortalIsOpen, OfThisStatement
    <3>. QED BY <1>2, <3>1
         DEF ExecuteTooLarge, OfThisStatement, GoTo, object, history,
             HasBufferedRow, OnTheWire, FetchingForExecute, InExecute
  <2>3. RowsOfLastExecute'
    BY <1>2 DEF ExecuteTooLarge, RowsOfLastExecute, GoTo, history
  <2>. QED BY <2>1, <2>2, <2>3
<1>3. CASE ExecuteRefused
  <2>1. TypeOK'
    <3>1. ObjectOK'
      BY <1>3 DEF ExecuteRefused, TypeOK, ObjectOK, object
    <3>2. ServerOK'
      BY <1>3, EndTxIsTyped DEF ExecuteRefused, TypeOK, ServerOK, server
    <3>3. CallOK' /\ HistoryOK'
      <4>1. "dbapi" \in Outcomes /\ faulted' \in BOOLEAN
        BY <1>3 DEF ExecuteRefused, Outcomes, TypeOK, HistoryOK
      <4>. QED BY <1>3, <4>1, RaiseIsTyped DEF ExecuteRefused
    <3>. QED BY <3>1, <3>2, <3>3 DEF TypeOK
  <2>2. OfThisStatement'
    BY <1>3
    DEF ExecuteRefused, Raise, CallOver, EndTx, OfThisStatement, object,
        server, HasBufferedRow, PortalIsOpen, OnTheWire, FetchingForExecute
  <2>3. RowsOfLastExecute'
    BY <1>3 DEF ExecuteRefused, Raise, CallOver, RowsOfLastExecute
  <2>. QED BY <2>1, <2>2, <2>3
<1>4. CASE Declared
  <2>1. stmt \in Stmts /\ Total(stmt) \in Nat
    BY <1>4, TotalIsNat DEF Declared, OfThisStatement, OnTheWire
  <2>2. PageSizeAtStart \in 1 .. ArraySize
    <3>1. ArraySize \in Nat \ {0}
      BY ConstantsOK
    <3>2. AtLeastOne(ArraySize \div 2) \in 1 .. ArraySize
      BY <3>1, HalfIsSmaller
    <3>. QED BY <3>1, <3>2 DEF PageSizeAtStart
  <2>3. TypeOK'
    <3>1. ObjectOK' /\ CallOK' /\ HistoryOK'
      BY <1>4, <2>2, ConstantsOK
      DEF Declared, TypeOK, ObjectOK, CallOK, HistoryOK, GoTo, history,
          EmptyBuffer, Buffer
    <3>2. ServerOK'
      BY <1>4, <2>1 DEF Declared, TypeOK, ServerOK
    <3>. QED BY <3>1, <3>2 DEF TypeOK
  <2>4. OfThisStatement'
    <3>1. 0 \in Positions(Total(stmt)) /\ PageSizeAtStart > 0
      BY <2>1, <2>2, ConstantsOK DEF Positions
    <3>2. ~HasBufferedRow'
      BY <1>4 DEF Declared, EmptyBuffer, Buffer, HasBufferedRow
    <3>. QED BY <1>4, <2>1, <3>1, <3>2
         DEF Declared, OfThisStatement, GoTo, history, PortalIsOpen,
             OnTheWire, FetchingForExecute, InExecute
  <2>5. RowsOfLastExecute'
    BY <1>4 DEF Declared, RowsOfLastExecute, GoTo, history
  <2>. QED BY <2>3, <2>4, <2>5
<1>5. CASE DeclareRefused
  <2>1. TypeOK'
    <3>1. "badRequest" \in Outcomes /\ faulted' \in BOOLEAN
      BY <1>5 DEF DeclareRefused, Outcomes, TypeOK, HistoryOK
    <3>2. CallOK' /\ HistoryOK'
      BY <1>5, <3>1, RaiseIsTyped DEF DeclareRefused
    <3>3. ServerOK'
      BY <1>5 DEF DeclareRefused, EndTx, NoPortal, TypeOK, ServerOK, server
    <3>4. ObjectOK'
      BY <1>5 DEF DeclareRefused, TypeOK, ObjectOK, object
    <3>. QED BY <3>2, <3>3, <3>4 DEF TypeOK
  <2>2. OfThisStatement'
    BY <1>5
    DEF DeclareRefused, EndTx, Raise, CallOver, OfThisStatement, object, server,
        HasBufferedRow, PortalIsOpen, OnTheWire, FetchingForExecute
  <2>3. RowsOfLastExecute'
    BY <1>5 DEF DeclareRefused, Raise, CallOver, RowsOfLastExecute
  <2>. QED BY <2>1, <2>2, <2>3
<1>. QED BY <1>1, <1>2, <1>3, <1>4, <1>5

LEMMA PageStepsKeepOwnRows ==
  ASSUME OwnRowsInv,
         PageServed \/ PageTooLarge \/ PageRefused \/ Rewound \/ RewindRefused
  PROVE  OwnRowsInv'
<1>. USE DEF OwnRowsInv
<1>1. CASE PageServed
  <2>1. /\ stmt \in Stmts /\ portal.of = stmt
        /\ portal.pos \in Nat /\ paging \in Nat \ {0}
        /\ PageTo \in Nat /\ PageTo <= Total(stmt)
        /\ PastPage \in Nat /\ PastPage \in Positions(Total(stmt))
    BY <1>1, PageIsTyped DEF PageServed
  <2>2. /\ portal' \in [of : Stmts \cup {NoStmt}, pos : Nat]
        /\ portal'.of = stmt /\ portal'.pos = PastPage
    BY <1>1, <2>1, MovedToIsTyped DEF PageServed, TypeOK
  <2>3. \/ Return
        \/ ReturnRows(TRUE)
        \/ GoTo("pop") /\ UNCHANGED history
        \/ Raise("conversion") /\ UNCHANGED faulted
    BY <1>1 DEF PageServed
  <2>4. unread' = Buffer(portal.of, portal.pos + 1, PageTo) \/ unread' = unread
    BY <1>1 DEF PageServed
  <2>5. TypeOK'
    <3>1. ObjectOK'
      BY <1>1, <2>1, <2>4
      DEF PageServed, TypeOK, ObjectOK, DescriptionAfter, Buffer
    <3>2. CallOK' /\ HistoryOK'
      <4>1. CASE Raise("conversion") /\ UNCHANGED faulted
        <5>1. "conversion" \in Outcomes /\ faulted' \in BOOLEAN
          BY <4>1 DEF Outcomes, TypeOK, HistoryOK
        <5>. QED BY <4>1, <5>1, RaiseIsTyped
      <4>2. CASE GoTo("pop") /\ UNCHANGED history
        BY <4>2 DEF GoTo, history, TypeOK, CallOK, HistoryOK
      <4>. QED BY <2>3, <4>1, <4>2, ReturnIsTyped, ReturnRowsIsTyped
    <3>3. ServerOK'
      BY <1>1, <2>2 DEF PageServed, TypeOK, ServerOK
    <3>. QED BY <3>1, <3>2, <3>3 DEF TypeOK
  <2>6. OfThisStatement'
    <3>1. stmt' = stmt /\ pc' \in {"idle", "pop"} /\ (pc' = "idle" => out' = <<>>)
      BY <2>3 DEF Return, ReturnRows, GoTo, Raise, CallOver
    <3>2. HasBufferedRow' => unread'.of = stmt /\ unread'.to <= Total(stmt)
      BY <2>1, <2>4 DEF Buffer, HasBufferedRow, OfThisStatement
    <3>3. paging' = paging /\ paging > 0
      BY <1>1, <2>1 DEF PageServed
    <3>. QED BY <2>1, <2>2, <3>1, <3>2, <3>3
         DEF OfThisStatement, OnTheWire, FetchingForExecute
  <2>7. RowsOfLastExecute'
    <3>1. CASE ReturnRows(TRUE)
      BY <3>1, ConcatProperties
      DEF ReturnRows, CallOver, RowsOfLastExecute, TypeOK, CallOK, HistoryOK
    <3>2. CASE Return \/ Raise("conversion")
      BY <3>2 DEF Return, Raise, CallOver, RowsOfLastExecute
    <3>3. CASE GoTo("pop") /\ UNCHANGED history
      BY <3>3 DEF GoTo, RowsOfLastExecute, history
    <3>. QED BY <2>3, <3>1, <3>2, <3>3
  <2>. QED BY <2>5, <2>6, <2>7
<1>2. CASE PageTooLarge
  <2>1. PastPage \in Nat /\ PastPage \in Positions(Total(stmt)) /\ stmt \in Stmts
    BY <1>2, PageIsTyped DEF PageTooLarge
  <2>2. /\ MovedTo(PastPage) \in [of : Stmts \cup {NoStmt}, pos : Nat]
        /\ MovedTo(PastPage).of = portal.of /\ MovedTo(PastPage).pos = PastPage
    BY <2>1, MovedToIsTyped DEF TypeOK
  <2>3. TypeOK'
    <3>1. ObjectOK' /\ ServerOK'
      BY <1>2, <2>2, TooLargeIsTyped
      DEF PageTooLarge, TypeOK, ObjectOK, object
    <3>2. CallOK' /\ HistoryOK'
      <4>1. CASE Raise("tooLarge") /\ UNCHANGED faulted
        <5>1. "tooLarge" \in Outcomes /\ faulted' \in BOOLEAN
          BY <4>1 DEF Outcomes, TypeOK, HistoryOK
        <5>. QED BY <4>1, <5>1, RaiseIsTyped
      <4>. QED BY <1>2, <4>1
           DEF PageTooLarge, GoTo, history, TypeOK, CallOK, HistoryOK
    <3>. QED BY <3>1, <3>2 DEF TypeOK
  <2>4. OfThisStatement'
    <3>1. stmt' = stmt /\ unread' = unread /\ paging' = paging
      BY <1>2 DEF PageTooLarge, GoTo, Raise, CallOver, object
    <3>2. PortalIsOpen' => /\ portal'.of = stmt
                           /\ portal'.pos \in Positions(Total(stmt))
      BY <1>2, <2>1, <2>2
      DEF PageTooLarge, TooLarge, EndTx, PortalIsOpen, OfThisStatement
    <3>3. ~HasBufferedRow /\ paging > 0
      BY <1>2 DEF PageTooLarge, OfThisStatement, OnTheWire
    <3>4. CASE GoTo("rewind") /\ UNCHANGED history /\ MayHalve
      BY <2>1, <3>1, <3>2, <3>3, <3>4, <1>2
      DEF GoTo, history, MayHalve, PageTooLarge, OfThisStatement,
          HasBufferedRow, OnTheWire, FetchingForExecute, InExecute
    <3>5. CASE /\ InExecute /\ pc' = "declare"
               /\ UNCHANGED <<stmt, attempt, want, out, history>>
      BY <2>1, <3>1, <3>2, <3>3, <3>5, <1>2
      DEF history, PageTooLarge, OfThisStatement, HasBufferedRow, OnTheWire,
          FetchingForExecute, InExecute
    <3>6. CASE Raise("tooLarge")
      BY <2>1, <3>1, <3>2, <3>3, <3>6
      DEF Raise, CallOver, OfThisStatement, HasBufferedRow, OnTheWire,
          FetchingForExecute
    <3>. QED BY <1>2, <3>4, <3>5, <3>6 DEF PageTooLarge
  <2>5. RowsOfLastExecute'
    BY <1>2
    DEF PageTooLarge, GoTo, Raise, CallOver, RowsOfLastExecute, history
  <2>. QED BY <2>3, <2>4, <2>5
<1>3. CASE PageRefused
  <2>1. TypeOK'
    <3>1. ObjectOK' /\ ServerOK'
      BY <1>3, EndTxIsTyped
      DEF PageRefused, TypeOK, ObjectOK, ServerOK, object, server
    <3>2. "dbapi" \in Outcomes /\ faulted' \in BOOLEAN
      BY <1>3 DEF PageRefused, Outcomes, TypeOK, HistoryOK
    <3>3. CallOK' /\ HistoryOK'
      BY <1>3, <3>2, RaiseIsTyped DEF PageRefused
    <3>. QED BY <3>1, <3>3 DEF TypeOK
  <2>2. OfThisStatement'
    BY <1>3
    DEF PageRefused, Raise, CallOver, EndTx, OfThisStatement, object, server,
        HasBufferedRow, PortalIsOpen, OnTheWire, FetchingForExecute
  <2>3. RowsOfLastExecute'
    BY <1>3 DEF PageRefused, Raise, CallOver, RowsOfLastExecute
  <2>. QED BY <2>1, <2>2, <2>3
<1>4. CASE Rewound
  <2>1. /\ stmt \in Stmts /\ portal.of = stmt /\ RewindTarget \in Nat
        /\ RewindTarget \in Positions(Total(stmt))
    BY <1>4, PageIsTyped DEF Rewound
  <2>2. /\ MovedTo(RewindTarget) \in [of : Stmts \cup {NoStmt}, pos : Nat]
        /\ MovedTo(RewindTarget).of = portal.of
        /\ MovedTo(RewindTarget).pos = RewindTarget
    BY <2>1, MovedToIsTyped DEF TypeOK
  <2>3. paging \in Nat \ {0} /\ paging <= ArraySize
    BY <1>4, PageIsTyped, ConstantsOK DEF Rewound, TypeOK, ObjectOK
  <2>4. SmallerPage \in 1 .. paging
    BY <2>3, HalfIsSmaller DEF SmallerPage
  <2>5. SmallerPage \in 0 .. ArraySize /\ SmallerPage > 0
    BY <2>3, <2>4, ConstantsOK
  <2>6. TypeOK'
    BY <1>4, <2>2, <2>5
    DEF Rewound, TypeOK, ObjectOK, CallOK, ServerOK, HistoryOK, GoTo,
        history, EmptyBuffer, Buffer
  <2>7. OfThisStatement'
    <3>1. ~HasBufferedRow'
      BY <1>4 DEF Rewound, EmptyBuffer, Buffer, HasBufferedRow
    <3>. QED BY <1>4, <2>1, <2>2, <2>5, <3>1
         DEF Rewound, OfThisStatement, GoTo, history, OnTheWire,
             FetchingForExecute, InExecute
  <2>8. RowsOfLastExecute'
    BY <1>4 DEF Rewound, RowsOfLastExecute, GoTo, history
  <2>. QED BY <2>6, <2>7, <2>8
<1>5. CASE RewindRefused
  <2>1. TypeOK'
    <3>1. "badRequest" \in Outcomes /\ faulted' \in BOOLEAN
      BY <1>5 DEF RewindRefused, Outcomes, TypeOK, HistoryOK
    <3>2. CallOK' /\ HistoryOK'
      BY <1>5, <3>1, RaiseIsTyped DEF RewindRefused
    <3>. QED BY <1>5, <3>2
         DEF RewindRefused, TypeOK, ObjectOK, ServerOK, object, server
  <2>2. OfThisStatement'
    BY <1>5
    DEF RewindRefused, Raise, CallOver, OfThisStatement, object, server,
        HasBufferedRow, PortalIsOpen, OnTheWire, FetchingForExecute
  <2>3. RowsOfLastExecute'
    BY <1>5 DEF RewindRefused, Raise, CallOver, RowsOfLastExecute
  <2>. QED BY <2>1, <2>2, <2>3
<1>. QED BY <1>1, <1>2, <1>3, <1>4, <1>5

LEMMA FetchStepsKeepOwnRows ==
  ASSUME OwnRowsInv, PopRow \/ NextPage \/ FetchDone
  PROVE  OwnRowsInv'
<1>. USE DEF OwnRowsInv
<1>1. CASE PopRow
  <2>1. /\ unread.of = stmt /\ stmt \in Stmts /\ unread.from \in Nat
        /\ unread.from <= unread.to /\ unread.to <= Total(stmt)
    BY <1>1 DEF PopRow, OfThisStatement, HasBufferedRow, TypeOK, ObjectOK
  <2>2. Row(unread.of, unread.from) \in Rows
    BY <2>1 DEF Row, Rows
  <2>3. TypeOK'
    <3>1. ObjectOK'
      BY <1>1, <2>1 DEF PopRow, TypeOK, ObjectOK
    <3>2. CallOK'
      <4>1. out' \in Seq(Rows)
        BY <1>1, <2>2, AppendProperties DEF PopRow, TypeOK, CallOK
      <4>2. want' \in Nat \cup {All}
        BY <1>1 DEF PopRow, OneLess, TypeOK, CallOK
      <4>. QED BY <1>1, <4>1, <4>2 DEF PopRow, TypeOK, CallOK
    <3>3. ServerOK' /\ HistoryOK'
      BY <1>1 DEF PopRow, TypeOK, ServerOK, HistoryOK, server, history
    <3>. QED BY <3>1, <3>2, <3>3 DEF TypeOK
  <2>4. OfThisStatement'
    <3>1. unread'.of = stmt /\ unread'.to = unread.to
      BY <1>1, <2>1 DEF PopRow, TypeOK, ObjectOK
    <3>. QED BY <1>1, <2>1, <3>1
         DEF PopRow, OfThisStatement, PortalIsOpen, OnTheWire,
             FetchingForExecute, server, history
  <2>5. RowsOfLastExecute'
    BY <1>1, <2>1, <2>2, AppendProperties
    DEF PopRow, RowsOfLastExecute, Row, TypeOK, CallOK, history
  <2>. QED BY <2>3, <2>4, <2>5
<1>2. CASE NextPage
  <2>1. TypeOK' /\ RowsOfLastExecute'
    BY <1>2
    DEF NextPage, TypeOK, ObjectOK, CallOK, ServerOK, HistoryOK, GoTo, object,
        server, history, RowsOfLastExecute
  <2>2. OfThisStatement'
    <3>1. stmt \in Stmts
      BY <1>2 DEF NextPage, OfThisStatement
    <3>. QED BY <1>2, <3>1
         DEF NextPage, OfThisStatement, GoTo, object, server, history,
             HasBufferedRow, PortalIsOpen, OnTheWire, FetchingForExecute,
             InExecute
  <2>. QED BY <2>1, <2>2
<1>3. CASE FetchDone
  <2>1. PICK isShort \in BOOLEAN : ReturnRows(isShort)
    BY <1>3 DEF FetchDone
  <2>2. TypeOK'
    BY <1>3, <2>1, ReturnRowsIsTyped
    DEF FetchDone, TypeOK, ObjectOK, ServerOK, object, server
  <2>3. OfThisStatement'
    BY <1>3, <2>1
    DEF FetchDone, ReturnRows, CallOver, OfThisStatement, object, server,
        HasBufferedRow, PortalIsOpen, OnTheWire, FetchingForExecute
  <2>4. RowsOfLastExecute'
    BY <2>1, ConcatProperties
    DEF ReturnRows, CallOver, RowsOfLastExecute, TypeOK, CallOK, HistoryOK
  <2>. QED BY <2>2, <2>3, <2>4
<1>. QED BY <1>1, <1>2, <1>3

LEMMA FaultsKeepOwnRows ==
  ASSUME OwnRowsInv, Resuming \/ NoAnswer \/ TxEnds
  PROVE  OwnRowsInv'
<1>. USE DEF OwnRowsInv
<1>1. CASE Resuming
  <2>0. stmt \in Stmts /\ ~HasBufferedRow /\ faulted' = TRUE
    BY <1>1 DEF Resuming, OfThisStatement
  <2>1. CASE /\ InExecute /\ AttemptsLeft /\ StartBody
             /\ attempt' = attempt + 1
             /\ UNCHANGED <<stmt, handed, base, clean, short, outcome>>
    <3>1. attempt' \in 0 .. Retries
      BY <2>1, ConstantsOK DEF AttemptsLeft, TypeOK, CallOK
    <3>2. ObjectOK' /\ CallOK' /\ ServerOK'
      BY <2>0, <2>1, <3>1, StartBodyIsTyped
    <3>3. HistoryOK'
      BY <2>0, <2>1 DEF TypeOK, HistoryOK
    <3>4. clean /\ base = 0 /\ handed = <<>>
      BY <1>1, <2>1
      DEF Resuming, OnTheWire, OfThisStatement, FetchingForExecute
    <3>5. OfThisStatement'
      BY <2>0, <2>1, <3>4
      DEF StartBody, OfThisStatement, BufferAtExecute, EmptyBuffer, Buffer,
          HasBufferedRow, PortalIsOpen, OnTheWire, FetchingForExecute, InExecute
    <3>6. RowsOfLastExecute'
      BY <2>1 DEF StartBody, RowsOfLastExecute
    <3>. QED BY <3>2, <3>3, <3>5, <3>6 DEF TypeOK
  <2>2. CASE Raise("resuming") /\ UNCHANGED <<object, server>>
    <3>1. "resuming" \in Outcomes /\ faulted' \in BOOLEAN
      BY <2>0 DEF Outcomes
    <3>2. CallOK' /\ HistoryOK'
      BY <2>2, <3>1, RaiseIsTyped
    <3>3. TypeOK'
      BY <2>2, <3>2 DEF TypeOK, ObjectOK, ServerOK, object, server
    <3>4. OfThisStatement'
      BY <2>2
      DEF Raise, CallOver, OfThisStatement, object, server, HasBufferedRow,
          PortalIsOpen, OnTheWire, FetchingForExecute
    <3>5. RowsOfLastExecute'
      BY <2>2 DEF Raise, CallOver, RowsOfLastExecute
    <3>. QED BY <3>3, <3>4, <3>5
  <2>. QED BY <1>1, <2>1, <2>2 DEF Resuming
<1>2. CASE NoAnswer
  <2>1. "noAnswer" \in Outcomes /\ faulted' \in BOOLEAN
    BY <1>2 DEF NoAnswer, Outcomes
  <2>2. CallOK' /\ HistoryOK'
    BY <1>2, <2>1, RaiseIsTyped DEF NoAnswer
  <2>3. \/ portal' = portal
        \/ PortalIsOpen /\ portal' \in {MovedTo(PastPage), MovedTo(RewindTarget)}
    BY <1>2 DEF NoAnswer, server
  <2>4. PortalIsOpen =>
          \A p \in {PastPage, RewindTarget} :
            /\ MovedTo(p) \in [of : Stmts \cup {NoStmt}, pos : Nat]
            /\ MovedTo(p).of = portal.of
            /\ MovedTo(p).pos \in Positions(Total(stmt))
    BY PageIsTyped, MovedToIsTyped DEF TypeOK
  <2>5. ServerOK'
    BY <1>2, <2>4 DEF NoAnswer, TypeOK, ServerOK, server
  <2>6. TypeOK'
    BY <1>2, <2>2, <2>5 DEF NoAnswer, TypeOK, ObjectOK, object
  <2>7. OfThisStatement'
    <3>1. pc' = "idle" /\ out' = <<>> /\ stmt' = stmt
      BY <1>2 DEF NoAnswer, Raise, CallOver
    <3>2. unread' = unread /\ paging' = paging
      BY <1>2 DEF NoAnswer, object
    <3>3. (PortalIsOpen => /\ portal.of = stmt /\ stmt \in Stmts /\ paging > 0
                           /\ portal.pos \in Positions(Total(stmt)))'
      BY <2>3, <2>4, <3>1, <3>2 DEF OfThisStatement, PortalIsOpen
    <3>. QED BY <3>1, <3>2, <3>3
         DEF OfThisStatement, HasBufferedRow, OnTheWire, FetchingForExecute
  <2>8. RowsOfLastExecute'
    BY <1>2 DEF NoAnswer, Raise, CallOver, RowsOfLastExecute
  <2>. QED BY <2>6, <2>7, <2>8
<1>3. CASE TxEnds
  <2>1. TypeOK'
    BY <1>3, EndTxIsTyped
    DEF TxEnds, TypeOK, ObjectOK, CallOK, HistoryOK, object, call
  <2>2. OfThisStatement'
    BY <1>3
    DEF TxEnds, EndTx, OfThisStatement, object, call, HasBufferedRow,
        PortalIsOpen, OnTheWire, FetchingForExecute, InExecute
  <2>3. RowsOfLastExecute'
    BY <1>3 DEF TxEnds, RowsOfLastExecute, call
  <2>. QED BY <2>1, <2>2, <2>3
<1>. QED BY <1>1, <1>2, <1>3

LEMMA StutterKeepsOwnRows ==
  ASSUME OwnRowsInv, UNCHANGED vars
  PROVE  OwnRowsInv'
BY DEF vars, object, call, server, history, OwnRowsInv, TypeOK, ObjectOK,
       CallOK, ServerOK, HistoryOK, OfThisStatement, RowsOfLastExecute,
       HasBufferedRow, PortalIsOpen, OnTheWire, FetchingForExecute, InExecute

(* Whatever the sizes of rows, faults and calls: the variables keep their   *)
(* types, and buffer and server-side cursor the statement they belong to.   *)
THEOREM OwnRowsAlways == Spec => []OwnRowsInv
<1>1. OwnRowsInv /\ [Next]_vars => OwnRowsInv'
  BY UserStepKeepsOwnRows, ExecuteStepsKeepOwnRows, PageStepsKeepOwnRows,
     FetchStepsKeepOwnRows, FaultsKeepOwnRows, StutterKeepsOwnRows
  DEF Next, DriverStep
<1>. QED BY InitOwnRows, <1>1, PTL DEF Spec

THEOREM TypeCorrect == Spec => []TypeOK
<1>1. OwnRowsInv => TypeOK
  BY DEF OwnRowsInv
<1>. QED BY <1>1, OwnRowsAlways, PTL

(* No fetch method ever returns a row of an earlier statement: execute       *)
(* empties the buffer before its first call, however the calls before ended. *)
THEOREM RowsAreOfLastExecute == Spec => []RowsOfLastExecute
<1>1. OwnRowsInv => RowsOfLastExecute
  BY DEF OwnRowsInv
<1>. QED BY <1>1, OwnRowsAlways, PTL

-----------------------------------------------------------------------------
(* The order of the rows.                                                   *)

LEMMA BrokenOrder == ASSUME clean' = FALSE PROVE OrderInv'
BY DEF OrderInv, OutInOrder, BufferInStep, PortalInStep, WholeResult,
       RowsInOrder, ShortMeansEnd

LEMMA RaiseBreaksOrder ==
  ASSUME NEW kind, Raise(kind)
  PROVE  OrderInv'
BY BrokenOrder DEF Raise

LEMMA InitOrder == Init => OrderInv
BY DEF Init, OrderInv, OutInOrder, BufferInStep, PortalInStep, WholeResult,
       RowsInOrder, ShortMeansEnd, EmptyBuffer, Buffer, HasBufferedRow,
       PortalIsOpen

(* Handing the collected rows out moves them behind the ones handed out      *)
(* before: the caller's place stays.                                         *)
LEMMA ReturnedRowsInOrder ==
  ASSUME TypeOK, OutInOrder, RowsInOrder,
         NEW isShort, ReturnRows(isShort)
  PROVE  Place' = Place /\ OutInOrder' /\ RowsInOrder'
<1>1. /\ handed' = handed \o out /\ out' = <<>> /\ base' = base
      /\ clean' = clean /\ stmt' = stmt
  BY DEF ReturnRows, CallOver
<1>2. /\ Len(handed') = Len(handed) + Len(out)
      /\ Len(handed) \in Nat /\ Len(out) \in Nat
      /\ DOMAIN handed' = 1 .. Len(handed) + Len(out)
      /\ DOMAIN handed = 1 .. Len(handed) /\ DOMAIN out = 1 .. Len(out)
      /\ \A i \in 1 .. Len(handed) + Len(out) :
           handed'[i] = IF i <= Len(handed) THEN handed[i]
                                            ELSE out[i - Len(handed)]
  BY <1>1, ConcatProperties, LenProperties DEF TypeOK, CallOK, HistoryOK
<1>3. Place' = Place
  BY <1>1, <1>2 DEF Place, TypeOK, HistoryOK
<1>4. OutInOrder'
  BY <1>1 DEF OutInOrder
<1>5. RowsInOrder'
  <2>. SUFFICES ASSUME clean, NEW i \in 1 .. Len(handed) + Len(out)
                PROVE  handed'[i] = Row(stmt, base + i)
    BY <1>1, <1>2 DEF RowsInOrder
  <2>1. CASE i <= Len(handed)
    BY <1>2, <2>1 DEF RowsInOrder
  <2>2. CASE i > Len(handed)
    <3>1. i - Len(handed) \in 1 .. Len(out)
      BY <1>2, <2>2
    <3>2. handed'[i] = Row(stmt, base + Len(handed) + (i - Len(handed)))
      BY <1>2, <2>2, <3>1 DEF OutInOrder
    <3>3. base + Len(handed) + (i - Len(handed)) = base + i
      BY <1>2 DEF TypeOK, HistoryOK
    <3>. QED BY <3>2, <3>3
  <2>. QED BY <1>2, <2>1, <2>2
<1>. QED BY <1>3, <1>4, <1>5

LEMMA PlaceIsNat == ASSUME TypeOK PROVE Place \in Nat
<1>1. Len(handed) \in Nat /\ Len(out) \in Nat /\ base \in Nat
  BY LenProperties DEF TypeOK, CallOK, HistoryOK
<1>. QED BY <1>1 DEF Place

LEMMA UserStepKeepsOrder ==
  ASSUME CursorInv, UserStep
  PROVE  OrderInv'
<1>. USE DEF CursorInv, OwnRowsInv
<1>1. ASSUME NEW s \in Stmts, Execute(s)
      PROVE  OrderInv'
  BY <1>1
  DEF Execute, StartBody, OrderInv, OutInOrder, BufferInStep, PortalInStep,
      WholeResult, RowsInOrder, ShortMeansEnd, BufferAtExecute, EmptyBuffer,
      Buffer, HasBufferedRow, PortalIsOpen
<1>2. ASSUME NEW n \in Wants \cup {All}, Fetch(n)
      PROVE  OrderInv'
  <2>1. out = <<>> /\ Place' = Place
    BY <1>2 DEF Fetch, OfThisStatement, Place, history
  <2>. QED BY <1>2, <2>1
    DEF Fetch, OrderInv, OutInOrder, BufferInStep, PortalInStep, WholeResult,
        RowsInOrder, ShortMeansEnd, HasBufferedRow, PortalIsOpen, object,
        server, history
<1>3. ASSUME NEW n \in Moves, NEW mode \in {"relative", "absolute"},
             Scroll(n, mode)
      PROVE  OrderInv'
  <2>0. pc' = "idle" /\ pc = "idle" /\ out' = <<>> /\ out = <<>>
        /\ stmt' = stmt /\ paging' = paging
    BY <1>3 DEF Scroll, call, OfThisStatement
  <2>1. CASE clean' = FALSE
    BY <2>1, BrokenOrder
  <2>2. CASE paging = 0 /\ UNCHANGED <<unread, portal, handed, base, clean, short>>
    <3>1. Place' = Place
      BY <2>0, <2>2 DEF Place
    <3>. QED BY <2>0, <2>2, <3>1
      DEF OrderInv, OutInOrder, BufferInStep, PortalInStep, WholeResult,
          RowsInOrder, ShortMeansEnd, HasBufferedRow, PortalIsOpen
  <2>3. CASE /\ paging > 0 /\ PortalIsOpen
             /\ portal' = MovedTo(Target(n, mode))
             /\ unread' = BufferAfterScroll /\ base' = Target(n, mode)
             /\ handed' = <<>> /\ short' = FALSE
    <3>1. Target(n, mode) \in Nat
      <4>1. n \in Int
        BY ConstantsOK
      <4>. QED BY <2>3, <4>1, PageIsTyped, MoveReaches DEF Target
    <3>2. Place' = Target(n, mode)
      BY <2>0, <2>3, <3>1 DEF Place
    <3>3. portal'.pos = Target(n, mode)
      BY <2>3, <3>1, MovedToIsTyped DEF TypeOK
    <3>. QED BY <2>0, <2>3, <3>2, <3>3
      DEF OrderInv, OutInOrder, BufferInStep, PortalInStep, WholeResult,
          RowsInOrder, ShortMeansEnd, HasBufferedRow, BufferAfterScroll,
          EmptyBuffer, Buffer
  <2>. QED BY <1>3, <2>1, <2>2, <2>3 DEF Scroll
<1>4. CASE Close
  BY <1>4
  DEF Close, OrderInv, OutInOrder, BufferInStep, PortalInStep, WholeResult,
      RowsInOrder, ShortMeansEnd, EmptyBuffer, Buffer, HasBufferedRow,
      PortalIsOpen, OfThisStatement
<1>. QED BY <1>1, <1>2, <1>3, <1>4 DEF UserStep

LEMMA ExecuteStepsKeepOrder ==
  ASSUME CursorInv,
         \/ ExecuteServed \/ ExecuteTooLarge \/ ExecuteRefused
         \/ Declared \/ DeclareRefused
  PROVE  OrderInv'
<1>. USE DEF CursorInv, OwnRowsInv
<1>1. CASE ExecuteServed
  <2>1. CASE Raise("conversion")
    BY <2>1, RaiseBreaksOrder
  <2>2. CASE Return /\ unread' = Buffer(stmt, 1, Total(stmt))
    <3>1. /\ stmt \in Stmts /\ Total(stmt) \in Nat /\ ~PortalIsOpen
          /\ clean /\ base = 0 /\ handed = <<>> /\ out = <<>>
      BY <1>1, TotalIsNat DEF ExecuteServed, OfThisStatement, OnTheWire
    <3>2. /\ pc' = "idle" /\ out' = <<>> /\ handed' = <<>> /\ base' = 0
          /\ stmt' = stmt /\ short' = FALSE /\ ~PortalIsOpen'
      BY <1>1, <2>2, <3>1
      DEF ExecuteServed, Return, CallOver, PortalIsOpen, server
    <3>3. Place' = 0
      BY <3>2 DEF Place
    <3>4. /\ unread'.from = 1 /\ unread'.to = Total(stmt)
      BY <2>2 DEF Buffer
    <3>. QED BY <3>1, <3>2, <3>3, <3>4
      DEF OrderInv, OutInOrder, BufferInStep, PortalInStep, WholeResult,
          RowsInOrder, ShortMeansEnd, HasBufferedRow
  <2>. QED BY <1>1, <2>1, <2>2 DEF ExecuteServed
<1>2. CASE ExecuteTooLarge
  <2>1. pc' = "declare" /\ Place' = Place
    BY <1>2 DEF ExecuteTooLarge, GoTo, history, Place
  <2>. QED BY <1>2, <2>1
    DEF ExecuteTooLarge, GoTo, object, history, OrderInv, OutInOrder,
        BufferInStep, PortalInStep, WholeResult, RowsInOrder, ShortMeansEnd,
        HasBufferedRow
<1>3. CASE ExecuteRefused \/ DeclareRefused
  BY <1>3, RaiseBreaksOrder DEF ExecuteRefused, DeclareRefused
<1>4. CASE Declared
  <2>1. /\ stmt \in Stmts /\ Total(stmt) \in Nat
        /\ clean /\ base = 0 /\ handed = <<>> /\ out = <<>>
    BY <1>4, TotalIsNat DEF Declared, OfThisStatement, OnTheWire
  <2>2. /\ pc' = "fetch" /\ out' = <<>> /\ handed' = <<>> /\ base' = 0
        /\ stmt' = stmt /\ portal'.pos = 0 /\ ~HasBufferedRow'
        /\ clean' = clean /\ short' = short
    BY <1>4, <2>1
    DEF Declared, GoTo, history, EmptyBuffer, Buffer, HasBufferedRow
  <2>3. Place' = 0
    BY <2>2 DEF Place
  <2>. QED BY <2>1, <2>2, <2>3
    DEF OrderInv, OutInOrder, BufferInStep, PortalInStep, WholeResult,
        RowsInOrder, ShortMeansEnd
<1>. QED BY <1>1, <1>2, <1>3, <1>4

LEMMA PageServedKeepsOrder ==
  ASSUME CursorInv, PageServed
  PROVE  OrderInv'
<1>. USE DEF CursorInv, OwnRowsInv
<1>1. CASE Raise("conversion")
  BY <1>1, RaiseBreaksOrder
<1>2. CASE clean' = FALSE
  BY <1>2, BrokenOrder
<1>3. CASE /\ unread' = Buffer(portal.of, portal.pos + 1, PageTo)
           /\ \/ InExecute /\ Return
              \/ portal.pos + 1 > PageTo /\ ReturnRows(TRUE)
              \/ GoTo("pop") /\ UNCHANGED history
           /\ clean'
  <2>1. /\ stmt \in Stmts /\ Total(stmt) \in Nat /\ portal.of = stmt
        /\ portal.pos \in Nat /\ portal.pos <= Total(stmt) + 1
        /\ paging \in Nat \ {0} /\ PageTo \in Nat /\ PageTo <= Total(stmt)
        /\ PastPage \in Nat
    BY PageIsTyped DEF PageServed
  <2>2. /\ unread'.from = portal.pos + 1 /\ unread'.to = PageTo
        /\ portal'.pos = PastPage /\ paging' = paging
    BY <1>3, <2>1, MovedToIsTyped DEF Buffer, PageServed, TypeOK
  <2>3. clean
    BY <1>3 DEF Return, ReturnRows, history
  <2>4. Place' = Place /\ OutInOrder' /\ RowsInOrder' /\ stmt' = stmt
        /\ pc' \in {"idle", "pop"}
    <3>1. CASE InExecute /\ Return
      <4>1. out = <<>>
        BY <3>1 DEF PageServed, OfThisStatement, FetchingForExecute
      <4>. QED BY <3>1, <4>1
        DEF Return, CallOver, Place, OutInOrder, RowsInOrder, OrderInv
    <3>2. CASE ReturnRows(TRUE)
      BY <3>2, ReturnedRowsInOrder DEF OrderInv, ReturnRows, CallOver
    <3>3. CASE GoTo("pop") /\ UNCHANGED history
      BY <3>3 DEF GoTo, history, Place, OutInOrder, RowsInOrder, OrderInv
    <3>. QED BY <1>3, <3>1, <3>2, <3>3
  <2>5. Place \in Nat
    BY PlaceIsNat
  <2>6. \/ portal.pos = Place
        \/ Place >= Total(stmt) /\ portal.pos = Total(stmt) + 1
    BY <2>3 DEF PageServed, OrderInv, PortalInStep, OfThisStatement, OnTheWire
  <2>7. /\ portal.pos < PageTo =>
             \/ PastPage = PageTo
             \/ PageTo = Total(stmt) /\ PastPage = Total(stmt) + 1
        /\ ~ portal.pos < PageTo =>
             portal.pos >= Total(stmt) /\ PastPage = Total(stmt) + 1
    BY <2>1, FetchMeetsPage DEF PageTo, PastPage
  <2>8. HasBufferedRow' <=> portal.pos < PageTo
    BY <2>1, <2>2 DEF HasBufferedRow
  <2>9. ~HasBufferedRow' => Place >= Total(stmt)
    BY <2>1, <2>5, <2>6, <2>7, <2>8
  <2>10. BufferInStep'
    BY <2>1, <2>2, <2>4, <2>5, <2>6, <2>8 DEF BufferInStep
  <2>11. PortalInStep'
    BY <2>1, <2>2, <2>4, <2>5, <2>7, <2>8, <2>9 DEF PortalInStep
  <2>12. WholeResult'
    BY <2>1, <2>2 DEF WholeResult
  <2>13. ShortMeansEnd'
    <3>1. CASE Return
      BY <3>1 DEF Return, ShortMeansEnd
    <3>2. CASE portal.pos + 1 > PageTo /\ ReturnRows(TRUE)
      <4>1. base' + Len(handed') = Place'
        <5>1. base' \in Nat /\ handed' \in Seq(Rows)
          BY <3>2, ReturnRowsIsTyped DEF HistoryOK
        <5>2. Len(handed') \in Nat /\ out' = <<>>
          BY <3>2, <5>1, LenProperties DEF ReturnRows, CallOver
        <5>. QED BY <5>1, <5>2 DEF Place
      <4>2. Place >= Total(stmt)
        BY <3>2, <2>1, <2>8, <2>9
      <4>. QED BY <2>4, <4>1, <4>2 DEF ShortMeansEnd
    <3>3. CASE GoTo("pop") /\ UNCHANGED history
      BY <3>3 DEF GoTo, history, ShortMeansEnd, OrderInv
    <3>. QED BY <1>3, <3>1, <3>2, <3>3
  <2>. QED BY <2>4, <2>10, <2>11, <2>12, <2>13 DEF OrderInv
<1>4. \/ Raise("conversion")
      \/ /\ unread' = Buffer(portal.of, portal.pos + 1, PageTo)
         /\ \/ InExecute /\ Return
            \/ portal.pos + 1 > PageTo /\ ReturnRows(TRUE)
            \/ GoTo("pop") /\ UNCHANGED history
  BY DEF PageServed
<1>5. Raise("conversion") \/ clean' \in BOOLEAN
  BY <1>4 DEF Return, ReturnRows, history, TypeOK, HistoryOK
<1>. QED BY <1>1, <1>2, <1>3, <1>4, <1>5

LEMMA PageTooLargeKeepsOrder ==
  ASSUME CursorInv, PageTooLarge
  PROVE  OrderInv'
<1>. USE DEF CursorInv, OwnRowsInv
<1>1. CASE Raise("tooLarge")
  BY <1>1, RaiseBreaksOrder
<1>2. CASE GoTo("rewind") /\ UNCHANGED history
  <2>. SUFFICES ASSUME clean PROVE OrderInv'
    BY <1>2, BrokenOrder DEF history, TypeOK, HistoryOK
  <2>1. /\ stmt \in Stmts /\ Total(stmt) \in Nat /\ portal.of = stmt
        /\ portal.pos \in Nat /\ paging \in Nat \ {0} /\ PastPage \in Nat
    BY PageIsTyped DEF PageTooLarge
  <2>2. pc' = "rewind" /\ Place' = Place /\ stmt' = stmt /\ unread' = unread
        /\ paging' = paging /\ ~HasBufferedRow
    BY <1>2
    DEF PageTooLarge, GoTo, history, object, Place, OfThisStatement, OnTheWire
  <2>3. Place \in Nat
    BY PlaceIsNat
  <2>4. portal.pos < PageTo /\ ~Fits(stmt, portal.pos + 1, PageTo)
    BY <2>1, PageIsTyped DEF PageTooLarge, PageFits
  <2>5. PageTo = FetchEnd(portal.pos, paging, Total(stmt))
        /\ PageTo <= Total(stmt) /\ PageTo \in Nat
    BY <2>1, FetchReaches DEF PageTo
  <2>6. portal.pos = Place /\ Place < Total(stmt)
    <3>1. \/ portal.pos = Place
          \/ Place >= Total(stmt) /\ portal.pos = Total(stmt) + 1
      BY <2>2 DEF PageTooLarge, OrderInv, PortalInStep
    <3>. QED BY <2>1, <2>3, <2>4, <2>5, <3>1
  <2>7. ~PortalIsOpen' \/ portal'.pos = PastPage
    BY <2>1, MovedToIsTyped
    DEF PageTooLarge, TooLarge, EndTx, PortalIsOpen, TypeOK
  <2>8. PortalInStep'
    BY <2>1, <2>2, <2>4, <2>5, <2>6, <2>7 DEF PortalInStep, PastPage
  <2>9. OutInOrder' /\ BufferInStep' /\ WholeResult' /\ RowsInOrder'
        /\ ShortMeansEnd'
    BY <1>2, <2>2
    DEF GoTo, history, OrderInv, OutInOrder, BufferInStep, WholeResult,
        RowsInOrder, ShortMeansEnd, HasBufferedRow
  <2>. QED BY <2>8, <2>9 DEF OrderInv
<1>3. CASE pc' = "declare" /\ UNCHANGED <<stmt, attempt, want, out, history>>
  <2>1. Place' = Place /\ unread' = unread /\ paging' = paging
    BY <1>3 DEF PageTooLarge, Place, history, object
  <2>. QED BY <1>3, <2>1
    DEF history, OrderInv, OutInOrder, BufferInStep, PortalInStep, WholeResult,
        RowsInOrder, ShortMeansEnd, HasBufferedRow
<1>. QED BY <1>1, <1>2, <1>3 DEF PageTooLarge

(* A page that was too large is rewound to where it began: the one fact that *)
(* needs the results to have no oversized tail.                              *)
LEMMA RewindMeetsPage ==
  ASSUME NoTailOverflow, OwnRowsInv, PortalIsOpen,
         NEW p \in Nat, p < Total(stmt),
         portal.pos = AfterFetch(p, paging, Total(stmt)),
         ~Fits(stmt, p + 1, FetchEnd(p, paging, Total(stmt)))
  PROVE  RewindTarget = p
<1>1. /\ stmt \in Stmts /\ Total(stmt) \in Nat /\ portal.of = stmt
      /\ paging \in Nat \ {0} /\ paging \in 1 .. ArraySize
  BY PageIsTyped, ConstantsOK DEF OwnRowsInv, TypeOK, ObjectOK
<1>2. p = 0 \/ p + paging <= Total(stmt) + 1
  <2>. SUFFICES ASSUME p # 0, ~(p + paging <= Total(stmt) + 1)
                PROVE  FALSE
    OBVIOUS
  <2>1. p \in 1 .. Total(stmt) /\ p + paging > Total(stmt) + 1
    BY <1>1
  <2>2. Fits(stmt, p + 1, Total(stmt))
    BY <1>1, <2>1 DEF NoTailOverflow
  <2>3. FetchEnd(p, paging, Total(stmt)) = Total(stmt)
    BY <1>1, <2>1 DEF FetchEnd, Lesser
  <2>. QED BY <2>2, <2>3
<1>. QED BY <1>1, <1>2, RewindMeetsFetch DEF RewindTarget

LEMMA RewoundKeepsOrder ==
  ASSUME NoTailOverflow, CursorInv, Rewound
  PROVE  OrderInv'
<1>. USE DEF CursorInv, OwnRowsInv
<1>. SUFFICES ASSUME clean PROVE OrderInv'
  BY BrokenOrder DEF Rewound, history, TypeOK, HistoryOK
<1>1. RewindTarget \in Nat
  BY PageIsTyped DEF Rewound
<1>2. /\ Place \in Nat /\ Place < Total(stmt)
      /\ portal.pos = AfterFetch(Place, paging, Total(stmt))
      /\ ~Fits(stmt, Place + 1, FetchEnd(Place, paging, Total(stmt)))
  BY PlaceIsNat DEF Rewound, OrderInv, PortalInStep
<1>3. RewindTarget = Place
  BY <1>2, RewindMeetsPage DEF Rewound
<1>4. /\ pc' = "fetch" /\ Place' = Place /\ stmt' = stmt /\ ~HasBufferedRow'
  BY DEF Rewound, GoTo, history, Place, EmptyBuffer, Buffer, HasBufferedRow
<1>5. portal'.pos = Place
  BY <1>1, <1>3, MovedToIsTyped DEF Rewound, TypeOK
<1>6. BufferInStep' /\ PortalInStep' /\ WholeResult'
  BY <1>4, <1>5 DEF BufferInStep, PortalInStep, WholeResult
<1>7. OutInOrder' /\ RowsInOrder' /\ ShortMeansEnd'
  BY DEF Rewound, GoTo, history, OrderInv, OutInOrder, RowsInOrder, ShortMeansEnd
<1>. QED BY <1>6, <1>7 DEF OrderInv

LEMMA FetchStepsKeepOrder ==
  ASSUME CursorInv, PopRow \/ NextPage \/ FetchDone
  PROVE  OrderInv'
<1>. USE DEF CursorInv, OwnRowsInv
<1>1. CASE PopRow
  <2>. SUFFICES ASSUME clean PROVE OrderInv'
    BY <1>1, BrokenOrder DEF PopRow, history, TypeOK, HistoryOK
  <2>1. /\ unread.of = stmt /\ stmt \in Stmts /\ unread.from \in Nat
        /\ unread.to \in Nat /\ unread.from <= unread.to
        /\ unread.to <= Total(stmt) /\ unread.from = Place + 1
    BY <1>1
    DEF PopRow, OfThisStatement, HasBufferedRow, TypeOK, ObjectOK, OrderInv,
        BufferInStep
  <2>2. /\ Len(out) \in Nat /\ Len(handed) \in Nat /\ base \in Nat
        /\ DOMAIN out = 1 .. Len(out)
    BY LenProperties DEF TypeOK, CallOK, HistoryOK
  <2>3. /\ unread'.from = unread.from + 1 /\ unread'.to = unread.to
        /\ unread'.of = stmt
    BY <1>1, <2>1 DEF PopRow, TypeOK, ObjectOK
  <2>4. Row(unread.of, unread.from) \in Rows
    BY <2>1 DEF Row, Rows
  <2>5. /\ Len(out') = Len(out) + 1 /\ DOMAIN out' = 1 .. Len(out) + 1
        /\ \A i \in 1 .. Len(out) : out'[i] = out[i]
        /\ out'[Len(out) + 1] = Row(unread.of, unread.from)
    BY <1>1, <2>2, <2>4, AppendProperties, LenProperties
    DEF PopRow, TypeOK, CallOK
  <2>6. Place' = Place + 1 /\ Place \in Nat
    BY <1>1, <2>2, <2>5 DEF PopRow, Place, history
  <2>7. OutInOrder'
    <3>1. \A i \in 1 .. Len(out) + 1 :
            out'[i] = Row(stmt, base + Len(handed) + i)
      <4>1. \A i \in 1 .. Len(out) : out[i] = Row(stmt, base + Len(handed) + i)
        BY <2>2 DEF OrderInv, OutInOrder
      <4>2. unread.from = base + Len(handed) + (Len(out) + 1)
        BY <2>1, <2>2 DEF Place
      <4>3. out'[Len(out) + 1] = Row(stmt, base + Len(handed) + (Len(out) + 1))
        BY <2>1, <2>5, <4>2
      <4>. QED BY <2>2, <2>5, <4>1, <4>3
    <3>. QED BY <1>1, <2>5, <3>1 DEF PopRow, OutInOrder, history
  <2>8. BufferInStep'
    BY <2>1, <2>3, <2>6 DEF BufferInStep
  <2>9. PortalInStep'
    BY <1>1, <2>1, <2>3, <2>6
    DEF PopRow, OrderInv, PortalInStep, HasBufferedRow, PortalIsOpen, server
  <2>10. WholeResult'
    BY <1>1, <2>1, <2>3, <2>6
    DEF PopRow, OrderInv, WholeResult, HasBufferedRow, history
  <2>11. RowsInOrder' /\ ShortMeansEnd'
    BY <1>1 DEF PopRow, OrderInv, RowsInOrder, ShortMeansEnd, history
  <2>. QED BY <2>7, <2>8, <2>9, <2>10, <2>11 DEF OrderInv
<1>2. CASE NextPage
  <2>1. Place' = Place
    BY <1>2 DEF NextPage, GoTo, history, Place
  <2>. QED BY <1>2, <2>1
    DEF NextPage, GoTo, OrderInv, OutInOrder, BufferInStep, PortalInStep,
        WholeResult, RowsInOrder, ShortMeansEnd, HasBufferedRow, PortalIsOpen,
        object, server, history
<1>3. CASE FetchDone
  <2>1. PICK isShort \in BOOLEAN : ReturnRows(isShort)
    BY <1>3 DEF FetchDone
  <2>2. Place' = Place /\ OutInOrder' /\ RowsInOrder'
    BY <2>1, ReturnedRowsInOrder DEF OrderInv
  <2>3. /\ pc = "pop" /\ pc' = "idle" /\ stmt' = stmt /\ clean' = clean
        /\ UNCHANGED <<object, server>>
    BY <1>3, <2>1 DEF FetchDone, ReturnRows, CallOver
  <2>4. BufferInStep' /\ PortalInStep' /\ WholeResult'
    BY <2>2, <2>3
    DEF OrderInv, BufferInStep, PortalInStep, WholeResult, HasBufferedRow,
        PortalIsOpen, object, server
  <2>5. base' + Len(handed') = Place'
    <3>1. base' \in Nat /\ handed' \in Seq(Rows)
      BY <2>1, ReturnRowsIsTyped DEF HistoryOK
    <3>2. Len(handed') \in Nat /\ out' = <<>>
      BY <2>1, <3>1, LenProperties DEF ReturnRows, CallOver
    <3>. QED BY <3>1, <3>2 DEF Place
  <2>6. short' => ~HasBufferedRow /\ paging = 0
    BY <1>3 DEF FetchDone, ReturnRows
  <2>7. ShortMeansEnd'
    BY <2>2, <2>3, <2>5, <2>6 DEF OrderInv, WholeResult, ShortMeansEnd
  <2>. QED BY <2>2, <2>4, <2>7 DEF OrderInv
<1>. QED BY <1>1, <1>2, <1>3

LEMMA FaultsKeepOrder ==
  ASSUME CursorInv,
         \/ Resuming \/ NoAnswer \/ TxEnds \/ PageRefused \/ RewindRefused
  PROVE  OrderInv'
<1>. USE DEF CursorInv, OwnRowsInv
<1>1. CASE Resuming
  <2>1. CASE Raise("resuming")
    BY <2>1, RaiseBreaksOrder
  <2>2. CASE StartBody /\ UNCHANGED <<stmt, handed, base, clean, short, outcome>>
    BY <2>2
    DEF StartBody, OrderInv, OutInOrder, BufferInStep, PortalInStep,
        WholeResult, RowsInOrder, ShortMeansEnd, BufferAtExecute, EmptyBuffer,
        Buffer, HasBufferedRow, PortalIsOpen
  <2>. QED BY <1>1, <2>1, <2>2 DEF Resuming
<1>2. CASE NoAnswer \/ PageRefused \/ RewindRefused
  BY <1>2, RaiseBreaksOrder DEF NoAnswer, PageRefused, RewindRefused
<1>3. CASE TxEnds
  <2>1. Place' = Place
    BY <1>3 DEF TxEnds, call, Place
  <2>. QED BY <1>3, <2>1
    DEF TxEnds, EndTx, call, object, OrderInv, OutInOrder, BufferInStep,
        PortalInStep, WholeResult, RowsInOrder, ShortMeansEnd, HasBufferedRow,
        PortalIsOpen
<1>. QED BY <1>1, <1>2, <1>3

LEMMA StutterKeepsOrder ==
  ASSUME OrderInv, UNCHANGED vars
  PROVE  OrderInv'
BY DEF vars, object, call, server, history, OrderInv, OutInOrder, BufferInStep,
       PortalInStep, WholeResult, RowsInOrder, ShortMeansEnd, HasBufferedRow,
       PortalIsOpen, Place

(* The inductive invariant, for results without an oversized tail.           *)
THEOREM CursorInvAlways == ASSUME NoTailOverflow PROVE Spec => []CursorInv
<1>1. Init => CursorInv
  BY InitOwnRows, InitOrder DEF CursorInv
<1>2. CursorInv /\ [Next]_vars => CursorInv'
  <2>. SUFFICES ASSUME CursorInv, [Next]_vars PROVE CursorInv'
    OBVIOUS
  <2>1. OwnRowsInv'
    BY UserStepKeepsOwnRows, ExecuteStepsKeepOwnRows, PageStepsKeepOwnRows,
       FetchStepsKeepOwnRows, FaultsKeepOwnRows, StutterKeepsOwnRows
    DEF CursorInv, Next, DriverStep
  <2>2. OrderInv'
    BY NoTailOverflow, UserStepKeepsOrder, ExecuteStepsKeepOrder,
       PageServedKeepsOrder, PageTooLargeKeepsOrder, RewoundKeepsOrder,
       FetchStepsKeepOrder, FaultsKeepOrder, StutterKeepsOrder
    DEF CursorInv, Next, DriverStep
  <2>. QED BY <2>1, <2>2 DEF CursorInv
<1>. QED BY <1>1, <1>2, PTL DEF Spec

(* While no call raised, the fetch methods hand out the rows of the result   *)
(* in order, each once, for every page size, back-off and retry.             *)
THEOREM RowsAreInOrder == ASSUME NoTailOverflow PROVE Spec => []RowsInOrder
<1>1. CursorInv => RowsInOrder
  BY DEF CursorInv, OrderInv
<1>. QED BY <1>1, CursorInvAlways, PTL

(* A fetch method that returns fewer rows than it was asked for, with no     *)
(* call having raised, has handed out the last row.                          *)
THEOREM ShortResultsAreWhole == ASSUME NoTailOverflow PROVE Spec => []ShortMeansEnd
<1>1. CursorInv => ShortMeansEnd
  BY DEF CursorInv, OrderInv
<1>. QED BY <1>1, CursorInvAlways, PTL

-----------------------------------------------------------------------------
(* No row is passed over, whatever the sizes of the rows.                    *)

LEMMA ConcatRows ==
  ASSUME NEW h \in Seq(Rows), NEW o \in Seq(Rows)
  PROVE  /\ h \o o \in Seq(Rows)
         /\ Len(h \o o) = Len(h) + Len(o)
         /\ Len(h \o o) \in Nat /\ Len(h) \in Nat /\ Len(o) \in Nat
         /\ DOMAIN (h \o o) = 1 .. Len(h \o o)
         /\ DOMAIN h = 1 .. Len(h) /\ DOMAIN o = 1 .. Len(o)
         /\ \A i \in 1 .. Len(h) : (h \o o)[i] = h[i]
         /\ \A i \in 1 .. Len(o) : (h \o o)[Len(h) + i] = o[i]
<1>1. /\ h \o o \in Seq(Rows)
      /\ Len(h \o o) = Len(h) + Len(o)
      /\ \A i \in 1 .. Len(h) + Len(o) :
           (h \o o)[i] = IF i <= Len(h) THEN h[i] ELSE o[i - Len(h)]
  BY ConcatProperties
<1>2. Len(h) \in Nat /\ Len(o) \in Nat
  BY LenProperties
<1>3. /\ DOMAIN (h \o o) = 1 .. Len(h \o o)
      /\ DOMAIN h = 1 .. Len(h) /\ DOMAIN o = 1 .. Len(o)
  BY <1>1, LenProperties
<1>4. ASSUME NEW i \in 1 .. Len(o)
      PROVE  (h \o o)[Len(h) + i] = o[i]
  <2>1. /\ Len(h) + i \in 1 .. Len(h) + Len(o)
        /\ ~(Len(h) + i <= Len(h)) /\ Len(h) + i - Len(h) = i
    BY <1>2
  <2>. QED BY <1>1, <2>1
<1>. QED BY <1>1, <1>2, <1>3, <1>4

LEMMA TakenRows ==
  ASSUME TypeOK
  PROVE  /\ Len(Taken) = Len(handed) + Len(out)
         /\ Len(Taken) \in Nat /\ Len(handed) \in Nat /\ Len(out) \in Nat
         /\ DOMAIN Taken = 1 .. Len(Taken)
         /\ DOMAIN handed = 1 .. Len(handed) /\ DOMAIN out = 1 .. Len(out)
         /\ \A i \in 1 .. Len(handed) : Taken[i] = handed[i]
         /\ \A i \in 1 .. Len(out) : Taken[Len(handed) + i] = out[i]
<1>1. handed \in Seq(Rows) /\ out \in Seq(Rows)
  BY DEF TypeOK, CallOK, HistoryOK
<1>. QED BY <1>1, ConcatRows DEF Taken

(* The rows collected join the ones handed out.                              *)
LEMMA ReturnKeepsTaken ==
  ASSUME TypeOK, NEW isShort, ReturnRows(isShort)
  PROVE  Taken' = Taken
<1>1. handed' = handed \o out /\ out' = <<>>
  BY DEF ReturnRows, CallOver
<1>2. handed \o out \in Seq(Rows)
  BY ConcatProperties DEF TypeOK, CallOK, HistoryOK
<1>. QED BY <1>1, <1>2, ConcatEmptySeq DEF Taken

LEMMA NothingTaken ==
  ASSUME handed = <<>>, out = <<>>
  PROVE  Taken = <<>> /\ DOMAIN Taken = {}
BY DEF Taken

LEMMA NothingTakenNext ==
  ASSUME handed' = <<>>, out' = <<>>
  PROVE  Taken' = <<>> /\ DOMAIN Taken' = {}
BY DEF Taken

(* What was taken up to a row was taken up to every row before it.           *)
LEMMA TakenUpToLess ==
  ASSUME TypeOK, NEW n \in Int, NEW m \in Int, m <= n, TakenUpTo(n)
  PROVE  TakenUpTo(m)
<1>1. base \in Nat
  BY DEF TypeOK, HistoryOK
<1>. QED BY <1>1 DEF TakenUpTo

LEMMA SameTaken ==
  ASSUME Taken' = Taken, base' = base, clean' = clean, TakenWithoutGap
  PROVE  /\ TakenWithoutGap'
         /\ \A n : TakenUpTo(n)' <=> TakenUpTo(n)
BY DEF TakenWithoutGap, TakenUpTo

LEMMA BrokenHasGaps == ASSUME clean' = FALSE PROVE TakenWithoutGap' /\ NextAfterTaken'
BY DEF TakenWithoutGap, NextAfterTaken

LEMMA RaiseForgetsTaken ==
  ASSUME NEW kind, Raise(kind)
  PROVE  TakenWithoutGap' /\ NextAfterTaken'
BY BrokenHasGaps DEF Raise

(* An empty buffer and no server-side cursor: nothing follows.               *)
LEMMA NothingFollows ==
  ASSUME ~HasBufferedRow', ~PortalIsOpen'
  PROVE  NextAfterTaken'
BY DEF NextAfterTaken

LEMMA InitNoGap == Init => NoGapInv
<1>. SUFFICES ASSUME Init PROVE NoGapInv
  OBVIOUS
<1>1. Taken = <<>> /\ DOMAIN Taken = {}
  BY NothingTaken DEF Init
<1>. QED
  BY <1>1, InitOwnRows
  DEF Init, NoGapInv, TakenWithoutGap, NextAfterTaken, EmptyBuffer, Buffer,
      HasBufferedRow, PortalIsOpen

LEMMA UserStepLeavesNoGap ==
  ASSUME NoGapInv, UserStep
  PROVE  TakenWithoutGap' /\ NextAfterTaken'
<1>. USE DEF NoGapInv, OwnRowsInv
<1>1. ASSUME NEW s \in Stmts, Execute(s)
      PROVE  TakenWithoutGap' /\ NextAfterTaken'
  <2>1. DOMAIN Taken' = {}
    BY <1>1, NothingTakenNext DEF Execute, StartBody
  <2>2. ~HasBufferedRow' /\ ~PortalIsOpen'
    BY <1>1
    DEF Execute, StartBody, BufferAtExecute, EmptyBuffer, Buffer,
        HasBufferedRow, PortalIsOpen
  <2>. QED BY <2>1, <2>2, NothingFollows DEF TakenWithoutGap
<1>2. ASSUME NEW n \in Wants \cup {All}, Fetch(n)
      PROVE  TakenWithoutGap' /\ NextAfterTaken'
  <2>1. Taken' = Taken /\ base' = base /\ clean' = clean
    BY <1>2 DEF Fetch, OfThisStatement, Taken, history
  <2>. QED BY <1>2, <2>1, SameTaken
    DEF Fetch, NextAfterTaken, HasBufferedRow, PortalIsOpen, object, server
<1>3. ASSUME NEW n \in Moves, NEW mode \in {"relative", "absolute"},
             Scroll(n, mode)
      PROVE  TakenWithoutGap' /\ NextAfterTaken'
  <2>0. pc' = "idle" /\ pc = "idle" /\ out' = <<>> /\ out = <<>>
        /\ stmt' = stmt /\ paging' = paging
    BY <1>3 DEF Scroll, call, OfThisStatement
  <2>1. CASE clean' = FALSE
    BY <2>1, BrokenHasGaps
  <2>2. CASE UNCHANGED <<unread, portal, handed, base, clean>>
    <3>1. Taken' = Taken
      BY <2>0, <2>2 DEF Taken
    <3>. QED BY <2>0, <2>2, <3>1, SameTaken
      DEF NextAfterTaken, HasBufferedRow, PortalIsOpen
  <2>3. CASE /\ paging > 0 /\ PortalIsOpen
             /\ portal' = MovedTo(Target(n, mode))
             /\ unread' = BufferAfterScroll /\ base' = Target(n, mode)
             /\ handed' = <<>>
    <3>1. Target(n, mode) \in Nat
      <4>1. n \in Int
        BY ConstantsOK
      <4>. QED BY <2>3, <4>1, PageIsTyped, MoveReaches DEF Target
    <3>2. portal'.pos = base' /\ base' \in Nat
      BY <2>3, <3>1, MovedToIsTyped DEF TypeOK
    <3>3. DOMAIN Taken' = {}
      BY <2>0, <2>3, NothingTakenNext
    <3>4. ~HasBufferedRow'
      BY <2>3 DEF HasBufferedRow, BufferAfterScroll, EmptyBuffer, Buffer
    <3>5. TakenUpTo(portal.pos)'
      <4>1. ASSUME NEW m \in base' + 1 .. portal'.pos PROVE FALSE
        <5>1. \A b \in Nat : b + 1 .. b = {}
          OBVIOUS
        <5>. QED BY <3>2, <5>1
      <4>. QED BY <4>1 DEF TakenUpTo
    <3>. QED BY <2>0, <3>3, <3>4, <3>5 DEF TakenWithoutGap, NextAfterTaken
  <2>. QED BY <1>3, <2>1, <2>2, <2>3 DEF Scroll
<1>4. CASE Close
  <2>1. DOMAIN Taken' = {}
    BY <1>4, NothingTakenNext DEF Close, OfThisStatement
  <2>2. ~HasBufferedRow' /\ ~PortalIsOpen'
    BY <1>4 DEF Close, EmptyBuffer, Buffer, HasBufferedRow, PortalIsOpen
  <2>. QED BY <2>1, <2>2, NothingFollows DEF TakenWithoutGap
<1>. QED BY <1>1, <1>2, <1>3, <1>4 DEF UserStep

LEMMA ExecuteStepsLeaveNoGap ==
  ASSUME NoGapInv,
         \/ ExecuteServed \/ ExecuteTooLarge \/ ExecuteRefused
         \/ Declared \/ DeclareRefused
  PROVE  TakenWithoutGap' /\ NextAfterTaken'
<1>. USE DEF NoGapInv, OwnRowsInv
<1>1. CASE ExecuteServed
  <2>1. CASE Raise("conversion")
    BY <2>1, RaiseForgetsTaken
  <2>2. CASE Return /\ unread' = Buffer(stmt, 1, Total(stmt))
    <3>1. ~PortalIsOpen /\ base = 0 /\ handed = <<>>
      BY <1>1 DEF ExecuteServed, OfThisStatement
    <3>2. out' = <<>> /\ handed' = <<>> /\ base' = 0 /\ ~PortalIsOpen'
      BY <1>1, <2>2, <3>1
      DEF ExecuteServed, Return, CallOver, PortalIsOpen, server
    <3>3. DOMAIN Taken' = {}
      BY <3>2, NothingTakenNext
    <3>4. unread'.from = 1
      BY <2>2 DEF Buffer
    <3>. QED BY <3>2, <3>3, <3>4
      DEF TakenWithoutGap, NextAfterTaken, TakenUpTo
  <2>. QED BY <1>1, <2>1, <2>2 DEF ExecuteServed
<1>2. CASE ExecuteTooLarge
  <2>1. Taken' = Taken /\ base' = base /\ clean' = clean
    BY <1>2 DEF ExecuteTooLarge, GoTo, history, Taken
  <2>2. ~HasBufferedRow' /\ pc' = "declare"
    BY <1>2
    DEF ExecuteTooLarge, GoTo, OfThisStatement, OnTheWire, HasBufferedRow, object
  <2>. QED BY <2>1, <2>2, SameTaken DEF NextAfterTaken
<1>3. CASE ExecuteRefused \/ DeclareRefused
  BY <1>3, RaiseForgetsTaken DEF ExecuteRefused, DeclareRefused
<1>4. CASE Declared
  <2>1. base' = 0 /\ handed' = <<>> /\ out' = <<>>
    BY <1>4 DEF Declared, OfThisStatement, GoTo, history
  <2>2. DOMAIN Taken' = {}
    BY <2>1, NothingTakenNext
  <2>3. pc' = "fetch" /\ portal'.pos = 0 /\ ~HasBufferedRow'
    BY <1>4 DEF Declared, GoTo, EmptyBuffer, Buffer, HasBufferedRow
  <2>. QED BY <2>1, <2>2, <2>3
    DEF TakenWithoutGap, NextAfterTaken, TakenUpTo
<1>. QED BY <1>1, <1>2, <1>3, <1>4

LEMMA PageServedLeavesNoGap ==
  ASSUME NoGapInv, PageServed
  PROVE  TakenWithoutGap' /\ NextAfterTaken'
<1>. USE DEF NoGapInv, OwnRowsInv
<1>1. CASE Raise("conversion")
  BY <1>1, RaiseForgetsTaken
<1>2. CASE /\ unread' = Buffer(portal.of, portal.pos + 1, PageTo)
           /\ \/ InExecute /\ Return
              \/ ReturnRows(TRUE)
              \/ GoTo("pop") /\ UNCHANGED history
  <2>1. /\ stmt \in Stmts /\ Total(stmt) \in Nat /\ portal.of = stmt
        /\ portal.pos \in Nat /\ portal.pos <= Total(stmt) + 1
        /\ paging \in Nat \ {0} /\ PageTo \in Nat /\ PageTo <= Total(stmt)
        /\ PastPage \in Nat
    BY PageIsTyped DEF PageServed
  <2>2. /\ unread'.from = portal.pos + 1 /\ unread'.to = PageTo
        /\ portal'.pos = PastPage
    BY <1>2, <2>1, MovedToIsTyped DEF Buffer, PageServed, TypeOK
  <2>3. /\ Taken' = Taken /\ base' = base /\ clean' = clean
        /\ stmt' = stmt /\ pc' \in {"idle", "pop"}
    <3>1. CASE InExecute /\ Return
      <4>1. out = <<>>
        BY <3>1 DEF PageServed, OfThisStatement, FetchingForExecute
      <4>. QED BY <3>1, <4>1 DEF Return, CallOver, Taken
    <3>2. CASE ReturnRows(TRUE)
      BY <3>2, ReturnKeepsTaken DEF ReturnRows, CallOver
    <3>3. CASE GoTo("pop") /\ UNCHANGED history
      BY <3>3 DEF GoTo, history, Taken
    <3>. QED BY <1>2, <3>1, <3>2, <3>3
  <2>4. TakenWithoutGap' /\ \A n : TakenUpTo(n)' <=> TakenUpTo(n)
    BY <2>3, SameTaken
  <2>5. clean => portal.pos > Total(stmt) \/ TakenUpTo(portal.pos)
    BY DEF PageServed, NextAfterTaken, OfThisStatement, OnTheWire
  <2>6. /\ portal.pos < PageTo =>
             \/ PastPage = PageTo
             \/ PageTo = Total(stmt) /\ PastPage = Total(stmt) + 1
        /\ ~ portal.pos < PageTo => PastPage = Total(stmt) + 1
    BY <2>1, FetchMeetsPage DEF PageTo, PastPage
  <2>7. HasBufferedRow' <=> portal.pos < PageTo
    BY <2>1, <2>2 DEF HasBufferedRow
  <2>8. (clean /\ HasBufferedRow => TakenUpTo(unread.from - 1))'
    <3>1. unread'.from - 1 = portal.pos
      BY <2>1, <2>2
    <3>2. clean /\ portal.pos < PageTo => TakenUpTo(portal.pos)
      BY <2>1, <2>5
    <3>. QED BY <2>3, <2>7, <3>1, <3>2 DEF TakenUpTo
  <2>9. \/ portal'.pos > Total(stmt)'
        \/ HasBufferedRow' /\ portal'.pos <= unread'.to
    BY <2>1, <2>2, <2>3, <2>6, <2>7
  <2>. QED BY <2>3, <2>4, <2>8, <2>9 DEF NextAfterTaken
<1>. QED BY <1>1, <1>2 DEF PageServed

LEMMA BackOffLeavesNoGap ==
  ASSUME NoGapInv, PageTooLarge \/ Rewound
  PROVE  TakenWithoutGap' /\ NextAfterTaken'
<1>. USE DEF NoGapInv, OwnRowsInv
<1>1. CASE PageTooLarge /\ Raise("tooLarge")
  BY <1>1, RaiseForgetsTaken
<1>2. CASE PageTooLarge /\ GoTo("rewind") /\ UNCHANGED history
  <2>1. /\ stmt \in Stmts /\ Total(stmt) \in Nat /\ portal.of = stmt
        /\ portal.pos \in Nat /\ paging \in Nat \ {0} /\ PastPage \in Nat
        /\ PageTo \in Nat /\ PageTo <= Total(stmt)
    BY <1>2, PageIsTyped DEF PageTooLarge
  <2>2. Taken' = Taken /\ base' = base /\ clean' = clean
    BY <1>2 DEF GoTo, history, Taken
  <2>3. /\ pc' = "rewind" /\ stmt' = stmt /\ paging' = paging /\ ~HasBufferedRow'
        /\ ~HasBufferedRow
    BY <1>2
    DEF PageTooLarge, GoTo, object, HasBufferedRow, OfThisStatement, OnTheWire
  <2>4. portal.pos < PageTo
    BY <1>2, <2>1 DEF PageTooLarge, PageFits
  <2>5. clean => TakenUpTo(portal.pos)
    BY <1>2, <2>1, <2>3, <2>4 DEF PageTooLarge, NextAfterTaken
  <2>6. PastPage - paging <= portal.pos
    BY <2>1 DEF PastPage, AfterFetch, Clamped, Lesser
  <2>7. clean => TakenUpTo(PastPage - paging)
    BY <2>1, <2>5, <2>6, TakenUpToLess
  <2>8. ~PortalIsOpen' \/ portal'.pos = PastPage
    BY <1>2, <2>1, MovedToIsTyped
    DEF PageTooLarge, TooLarge, EndTx, PortalIsOpen, TypeOK
  <2>9. TakenWithoutGap' /\ \A n : TakenUpTo(n)' <=> TakenUpTo(n)
    BY <2>2, SameTaken
  <2>. QED BY <2>2, <2>3, <2>7, <2>8, <2>9 DEF NextAfterTaken
<1>3. CASE /\ PageTooLarge /\ pc' = "declare"
           /\ UNCHANGED <<stmt, attempt, want, out, history>>
  <2>1. Taken' = Taken /\ base' = base /\ clean' = clean
    BY <1>3 DEF history, Taken
  <2>2. ~HasBufferedRow'
    BY <1>3 DEF PageTooLarge, object, HasBufferedRow, OfThisStatement, OnTheWire
  <2>. QED BY <1>3, <2>1, <2>2, SameTaken DEF NextAfterTaken
<1>4. CASE Rewound
  <2>1. /\ stmt \in Stmts /\ Total(stmt) \in Nat /\ portal.of = stmt
        /\ portal.pos \in Nat /\ paging \in Nat \ {0} /\ RewindTarget \in Nat
    BY <1>4, PageIsTyped DEF Rewound
  <2>2. Taken' = Taken /\ base' = base /\ clean' = clean
    BY <1>4 DEF Rewound, GoTo, history, Taken
  <2>3. /\ pc' = "fetch" /\ ~HasBufferedRow' /\ portal'.pos = RewindTarget
    BY <1>4, <2>1, MovedToIsTyped
    DEF Rewound, GoTo, EmptyBuffer, Buffer, HasBufferedRow, TypeOK
  <2>4. clean => TakenUpTo(portal.pos - paging)
    BY <1>4 DEF Rewound, NextAfterTaken
  <2>5. RewindTarget = 0 \/ RewindTarget <= portal.pos - paging
    BY <2>1 DEF RewindTarget, AfterMoveRelative, Clamped, Lesser
  <2>6. TakenUpTo(0)
    BY DEF TakenUpTo, TypeOK, HistoryOK
  <2>7. clean => TakenUpTo(RewindTarget)
    BY <2>1, <2>4, <2>5, <2>6, TakenUpToLess
  <2>8. TakenWithoutGap' /\ \A n : TakenUpTo(n)' <=> TakenUpTo(n)
    BY <2>2, SameTaken
  <2>. QED BY <2>2, <2>3, <2>7, <2>8 DEF NextAfterTaken
<1>. QED BY <1>1, <1>2, <1>3, <1>4 DEF PageTooLarge

(* A row popped from the buffer is taken behind the ones taken before.       *)
LEMMA PoppedRow ==
  ASSUME OwnRowsInv, PopRow
  PROVE  /\ Len(Taken) \in Nat /\ Len(Taken') = Len(Taken) + 1
         /\ DOMAIN Taken = 1 .. Len(Taken)
         /\ DOMAIN Taken' = 1 .. Len(Taken) + 1
         /\ \A i \in 1 .. Len(Taken) : Taken'[i] = Taken[i]
         /\ Taken'[Len(Taken) + 1][2] = unread.from
<1>. USE DEF OwnRowsInv
<1>1. handed' = handed
  BY DEF PopRow, history
<1>2. /\ unread.from \in Nat /\ stmt \in Stmts /\ unread.of = stmt
  BY DEF PopRow, HasBufferedRow, TypeOK, ObjectOK, OfThisStatement
<1>3. Row(unread.of, unread.from) \in Rows
      /\ Row(unread.of, unread.from)[2] = unread.from
  BY <1>2 DEF Row, Rows
<1>4. /\ Len(out') = Len(out) + 1
      /\ \A i \in 1 .. Len(out) : out'[i] = out[i]
      /\ out'[Len(out) + 1] = Row(unread.of, unread.from)
  <2>1. out \in Seq(Rows)
    BY DEF TypeOK, CallOK
  <2>. QED BY <1>3, <2>1, AppendProperties, LenProperties DEF PopRow
<1>5. TypeOK'
  BY FetchStepsKeepOwnRows
<1>6. /\ Len(Taken) \in Nat /\ Len(Taken') = Len(Taken) + 1
      /\ DOMAIN Taken = 1 .. Len(Taken)
      /\ DOMAIN Taken' = 1 .. Len(Taken) + 1
      /\ \A i \in 1 .. Len(Taken) : Taken'[i] = Taken[i]
      /\ Taken'[Len(Taken) + 1][2] = unread.from
  <2>1. /\ Len(Taken) = Len(handed) + Len(out)
        /\ Len(Taken) \in Nat /\ Len(handed) \in Nat /\ Len(out) \in Nat
        /\ DOMAIN Taken = 1 .. Len(Taken)
        /\ \A i \in 1 .. Len(handed) : Taken[i] = handed[i]
        /\ \A i \in 1 .. Len(out) : Taken[Len(handed) + i] = out[i]
    BY TakenRows
  <2>2. /\ Len(Taken') = Len(handed) + Len(out) + 1
        /\ DOMAIN Taken' = 1 .. Len(Taken')
        /\ \A i \in 1 .. Len(handed) : Taken'[i] = handed[i]
        /\ \A i \in 1 .. Len(out) + 1 : Taken'[Len(handed) + i] = out'[i]
    <3>1. handed' \in Seq(Rows) /\ out' \in Seq(Rows)
      BY <1>5 DEF TypeOK, CallOK, HistoryOK
    <3>2. /\ Len(Taken') = Len(handed') + Len(out')
          /\ DOMAIN Taken' = 1 .. Len(Taken')
          /\ \A i \in 1 .. Len(handed') : Taken'[i] = handed'[i]
          /\ \A i \in 1 .. Len(out') : Taken'[Len(handed') + i] = out'[i]
      BY <3>1, ConcatRows DEF Taken
    <3>. QED BY <1>1, <1>4, <2>1, <3>2
  <2>3. ASSUME NEW i \in 1 .. Len(Taken) PROVE Taken'[i] = Taken[i]
    <3>1. CASE i <= Len(handed)
      BY <2>1, <2>2, <3>1
    <3>2. CASE i > Len(handed)
      <4>1. PICK j \in 1 .. Len(out) : i = Len(handed) + j
        <5>1. i - Len(handed) \in 1 .. Len(out)
              /\ i = Len(handed) + (i - Len(handed))
          BY <2>1, <3>2
        <5>. QED BY <5>1
      <4>2. j \in 1 .. Len(out) + 1
        BY <2>1
      <4>. QED BY <1>4, <2>1, <2>2, <4>1, <4>2
    <3>. QED BY <2>1, <3>1, <3>2
  <2>4. Taken'[Len(handed) + (Len(out) + 1)] = out'[Len(out) + 1]
    <3>1. Len(out) + 1 \in 1 .. Len(out) + 1
      BY <2>1
    <3>. QED BY <2>2, <3>1
  <2>5. Len(Taken) + 1 = Len(handed) + (Len(out) + 1)
        /\ Len(Taken') = Len(Taken) + 1
    BY <2>1, <2>2
  <2>. QED BY <1>3, <1>4, <2>1, <2>2, <2>3, <2>4, <2>5
<1>. QED BY <1>6

LEMMA FetchStepsLeaveNoGap ==
  ASSUME NoGapInv, PopRow \/ NextPage \/ FetchDone
  PROVE  TakenWithoutGap' /\ NextAfterTaken'
<1>. USE DEF NoGapInv, OwnRowsInv
<1>1. CASE PopRow
  <2>. SUFFICES ASSUME clean PROVE TakenWithoutGap' /\ NextAfterTaken'
    BY <1>1, BrokenHasGaps DEF PopRow, history, TypeOK, HistoryOK
  <2>1. /\ base' = base /\ portal' = portal /\ stmt' = stmt /\ pc = "pop"
        /\ pc' = "pop" /\ base \in Nat /\ handed' = handed
    BY <1>1 DEF PopRow, history, server, TypeOK, HistoryOK
  <2>2. /\ unread.from \in Nat /\ unread.to \in Nat
        /\ unread.from <= unread.to /\ stmt \in Stmts /\ unread.of = stmt
    BY <1>1 DEF PopRow, HasBufferedRow, TypeOK, ObjectOK, OfThisStatement
  <2>3. unread'.from = unread.from + 1 /\ unread'.to = unread.to
    BY <1>1 DEF PopRow, TypeOK, ObjectOK
  <2>4. /\ Len(Taken) \in Nat /\ DOMAIN Taken = 1 .. Len(Taken)
        /\ DOMAIN Taken' = 1 .. Len(Taken) + 1
        /\ \A i \in 1 .. Len(Taken) : Taken'[i] = Taken[i]
        /\ Taken'[Len(Taken) + 1][2] = unread.from
    BY <1>1, PoppedRow
  <2>5. TakenUpTo(unread.from - 1)
    BY <1>1 DEF PopRow, NextAfterTaken
  <2>6. TakenWithoutGap'
    <3>. SUFFICES ASSUME NEW i \in 1 .. Len(Taken) + 1
                  PROVE  \/ Taken'[i][2] <= base + 1
                         \/ \E j \in 1 .. i - 1 : Taken'[j][2] = Taken'[i][2] - 1
      BY <2>1, <2>4 DEF TakenWithoutGap
    <3>1. CASE i <= Len(Taken)
      BY <2>4, <3>1 DEF TakenWithoutGap
    <3>2. CASE i = Len(Taken) + 1 /\ unread.from > base + 1
      <4>1. unread.from - 1 \in base + 1 .. unread.from - 1
        BY <2>1, <2>2, <3>2
      <4>2. PICK j \in 1 .. Len(Taken) : Taken[j][2] = unread.from - 1
        BY <2>4, <2>5, <4>1 DEF TakenUpTo
      <4>3. j \in 1 .. i - 1
        BY <2>4, <3>2
      <4>. QED BY <2>4, <3>2, <4>2, <4>3
    <3>3. CASE i = Len(Taken) + 1 /\ unread.from <= base + 1
      BY <2>4, <3>3
    <3>. QED BY <2>1, <2>2, <2>4, <3>1, <3>2, <3>3
  <2>7. ASSUME NEW n \in Int, n <= unread.from
        PROVE  TakenUpTo(n)'
    <3>. SUFFICES ASSUME NEW m \in base + 1 .. n
                  PROVE  \E i \in 1 .. Len(Taken) + 1 : Taken'[i][2] = m
      BY <2>1, <2>4 DEF TakenUpTo
    <3>1. CASE m = unread.from
      <4>1. Len(Taken) + 1 \in 1 .. Len(Taken) + 1
        BY <2>4
      <4>. QED BY <2>4, <3>1, <4>1
    <3>2. CASE m < unread.from
      <4>1. m \in base + 1 .. unread.from - 1
        BY <2>1, <2>2, <3>2
      <4>2. PICK i \in 1 .. Len(Taken) : Taken[i][2] = m
        BY <2>4, <2>5, <4>1 DEF TakenUpTo
      <4>3. i \in 1 .. Len(Taken) + 1
        BY <2>4
      <4>. QED BY <2>4, <4>2, <4>3
    <3>. QED BY <2>1, <2>2, <2>7, <3>1, <3>2
  <2>8. TakenUpTo(unread.from - 1)'
    <3>1. unread'.from - 1 = unread.from /\ unread.from \in Int
      BY <2>2, <2>3
    <3>. QED BY <2>2, <2>7, <3>1 DEF TakenUpTo
  <2>9. PortalIsOpen => portal.pos \in Nat /\ Total(stmt) \in Nat
    BY PageIsTyped
  <2>10. PortalIsOpen =>
           \/ portal.pos > Total(stmt)
           \/ portal.pos <= unread.to
    BY <1>1, <2>1 DEF PopRow, NextAfterTaken
  <2>11. PortalIsOpen /\ ~HasBufferedRow' =>
           portal.pos > Total(stmt) \/ TakenUpTo(portal.pos)'
    <3>1. ~HasBufferedRow' => unread.to <= unread.from
      BY <2>2, <2>3 DEF HasBufferedRow
    <3>. QED BY <2>1, <2>2, <2>7, <2>9, <2>10, <3>1 DEF TakenUpTo
  <2>12. (PortalIsOpen =>
            \/ portal.pos > Total(stmt)
            \/ IF HasBufferedRow THEN portal.pos <= unread.to
                                 ELSE TakenUpTo(portal.pos))'
    BY <2>1, <2>3, <2>10, <2>11 DEF PortalIsOpen
  <2>. QED BY <2>1, <2>6, <2>8, <2>12 DEF NextAfterTaken
<1>2. CASE NextPage
  <2>1. Taken' = Taken /\ base' = base /\ clean' = clean
    BY <1>2 DEF NextPage, GoTo, history, Taken
  <2>. QED BY <1>2, <2>1, SameTaken
    DEF NextPage, GoTo, NextAfterTaken, HasBufferedRow, PortalIsOpen, object,
        server
<1>3. CASE FetchDone
  <2>1. PICK isShort \in BOOLEAN : ReturnRows(isShort)
    BY <1>3 DEF FetchDone
  <2>2. Taken' = Taken /\ base' = base /\ clean' = clean
    BY <2>1, ReturnKeepsTaken DEF ReturnRows
  <2>. QED BY <1>3, <2>1, <2>2, SameTaken
    DEF FetchDone, ReturnRows, CallOver, NextAfterTaken, HasBufferedRow,
        PortalIsOpen, object, server
<1>. QED BY <1>1, <1>2, <1>3

LEMMA FaultsLeaveNoGap ==
  ASSUME NoGapInv,
         \/ Resuming \/ NoAnswer \/ TxEnds \/ PageRefused \/ RewindRefused
         \/ UNCHANGED vars
  PROVE  TakenWithoutGap' /\ NextAfterTaken'
<1>. USE DEF NoGapInv, OwnRowsInv
<1>1. CASE Resuming
  <2>1. CASE Raise("resuming")
    BY <2>1, RaiseForgetsTaken
  <2>2. CASE /\ InExecute /\ StartBody
             /\ UNCHANGED <<stmt, handed, base, clean, short, outcome>>
    <3>1. handed = <<>>
      BY <1>1, <2>2 DEF Resuming, OnTheWire, OfThisStatement, FetchingForExecute
    <3>2. DOMAIN Taken' = {}
      BY <2>2, <3>1, NothingTakenNext DEF StartBody
    <3>3. ~HasBufferedRow' /\ ~PortalIsOpen'
      BY <2>2
      DEF StartBody, BufferAtExecute, EmptyBuffer, Buffer, HasBufferedRow,
          PortalIsOpen
    <3>. QED BY <3>2, <3>3, NothingFollows DEF TakenWithoutGap
  <2>. QED BY <1>1, <2>1, <2>2 DEF Resuming
<1>2. CASE NoAnswer \/ PageRefused \/ RewindRefused
  BY <1>2, RaiseForgetsTaken DEF NoAnswer, PageRefused, RewindRefused
<1>3. CASE TxEnds
  <2>1. Taken' = Taken /\ base' = base /\ clean' = clean
    BY <1>3 DEF TxEnds, call, Taken
  <2>. QED BY <1>3, <2>1, SameTaken
    DEF TxEnds, EndTx, object, NextAfterTaken, HasBufferedRow, PortalIsOpen
<1>4. CASE UNCHANGED vars
  <2>1. Taken' = Taken /\ base' = base /\ clean' = clean
    BY <1>4 DEF vars, call, history, Taken
  <2>. QED BY <1>4, <2>1, SameTaken
    DEF vars, object, call, server, NextAfterTaken, HasBufferedRow, PortalIsOpen
<1>. QED BY <1>1, <1>2, <1>3, <1>4

(* What was taken has no gap, and what comes next follows it.                *)
THEOREM NoGapInvAlways == Spec => []NoGapInv
<1>1. NoGapInv /\ OwnRowsInv' /\ [Next]_vars => NoGapInv'
  BY UserStepLeavesNoGap, ExecuteStepsLeaveNoGap, PageServedLeavesNoGap,
     BackOffLeavesNoGap, FetchStepsLeaveNoGap, FaultsLeaveNoGap
  DEF NoGapInv, Next, DriverStep
<1>. QED BY InitNoGap, <1>1, OwnRowsAlways, PTL DEF Spec

(* While no call raised, no row before one handed out is missing, also when  *)
(* an oversized tail makes a rewind go back too far.                         *)
THEOREM NoRowIsSkipped == Spec => []NoRowSkipped
<1>1. NoGapInv => NoRowSkipped
  <2>. SUFFICES ASSUME NoGapInv, clean, NEW i \in DOMAIN handed
                PROVE  \/ handed[i][2] <= base + 1
                       \/ \E j \in 1 .. i - 1 : handed[j][2] = handed[i][2] - 1
    BY DEF NoRowSkipped
  <2>1. /\ Len(Taken) = Len(handed) + Len(out)
        /\ Len(handed) \in Nat /\ Len(out) \in Nat
        /\ DOMAIN Taken = 1 .. Len(Taken) /\ DOMAIN handed = 1 .. Len(handed)
        /\ \A j \in 1 .. Len(handed) : Taken[j] = handed[j]
    BY TakenRows DEF NoGapInv, OwnRowsInv
  <2>2. \/ Taken[i][2] <= base + 1
        \/ \E j \in 1 .. i - 1 : Taken[j][2] = Taken[i][2] - 1
    BY <2>1 DEF NoGapInv, TakenWithoutGap
  <2>3. \A j \in 1 .. i - 1 : j \in 1 .. Len(handed)
    BY <2>1
  <2>. QED BY <2>1, <2>2, <2>3
<1>. QED BY <1>1, NoGapInvAlways, PTL

-----------------------------------------------------------------------------
(* Pagination in a transaction.                                              *)

LEMMA EndTxKeepsPortal == ASSUME EndTx PROVE PortalNeedsTx'
BY DEF EndTx, PortalNeedsTx, PortalIsOpen

(* A server-side cursor stays in its transaction.                            *)
LEMMA PortalStaysInTx ==
  ASSUME OwnRowsInv, PortalNeedsTx, [Next]_vars
  PROVE  PortalNeedsTx'
<1>1. \/ portal' = NoPortal
      \/ tx' = tx /\ (PortalIsOpen' => PortalIsOpen \/ tx = "open")
  <2>1. CASE UserStep
    <3>1. ASSUME NEW s \in Stmts, Execute(s) PROVE portal' = NoPortal
      BY <3>1 DEF Execute, StartBody
    <3>2. ASSUME NEW n \in Wants \cup {All}, Fetch(n)
          PROVE  tx' = tx /\ portal' = portal
      BY <3>2 DEF Fetch, server
    <3>3. ASSUME NEW n \in Moves, NEW mode \in {"relative", "absolute"},
                 Scroll(n, mode)
          PROVE  tx' = tx /\ (portal' = portal \/ PortalIsOpen)
      BY <3>3 DEF Scroll
    <3>4. CASE Close
      BY <3>4 DEF Close
    <3>. QED BY <2>1, <3>1, <3>2, <3>3, <3>4 DEF UserStep, PortalIsOpen
  <2>2. CASE ExecuteServed \/ ExecuteTooLarge \/ ExecuteRefused
             \/ Declared \/ DeclareRefused
    BY <2>2
    DEF ExecuteServed, ExecuteTooLarge, ExecuteRefused, Declared,
        DeclareRefused, TooLarge, EndTx, server, PortalIsOpen
  <2>3. CASE PageServed \/ PageTooLarge \/ PageRefused \/ Rewound \/ RewindRefused
    BY <2>3
    DEF PageServed, PageTooLarge, PageRefused, Rewound, RewindRefused, TooLarge,
        EndTx, server, PortalIsOpen
  <2>4. CASE PopRow \/ NextPage \/ FetchDone
    BY <2>4 DEF PopRow, NextPage, FetchDone, server, PortalIsOpen
  <2>5. CASE Resuming \/ NoAnswer \/ TxEnds
    BY <2>5
    DEF Resuming, StartBody, NoAnswer, TxEnds, EndTx, server, PortalIsOpen
  <2>6. CASE UNCHANGED vars
    BY <2>6 DEF vars, server, PortalIsOpen
  <2>. QED BY <2>1, <2>2, <2>3, <2>4, <2>5, <2>6 DEF Next, DriverStep
<1>. QED BY <1>1 DEF PortalNeedsTx, PortalIsOpen

(* Without a fault and with its transaction open, paging goes on with the    *)
(* server-side cursor it declared.                                           *)
LEMMA MovedPortalIsOpen ==
  ASSUME TypeOK, OfThisStatement, PortalIsOpen, NEW n \in Nat, portal' = MovedTo(n)
  PROVE  PortalIsOpen'
<1>1. portal'.of = stmt /\ stmt \in Stmts
  BY PageIsTyped, MovedToIsTyped DEF TypeOK
<1>. QED BY <1>1, ConstantsOK DEF PortalIsOpen, NoPortal

LEMMA PagingKeepsPortal ==
  ASSUME OwnRowsInv, PortalNeedsTx, PagingHasPortal, [Next]_vars
  PROVE  PagingHasPortal'
<1>. USE DEF OwnRowsInv
<1>. SUFFICES ASSUME ~faulted', tx' = "open", paging' > 0
              PROVE  PortalIsOpen'
  BY DEF PagingHasPortal
<1>1. CASE UserStep
  <2>1. ASSUME NEW s \in Stmts, Execute(s) PROVE paging' = 0
    BY <2>1 DEF Execute, StartBody
  <2>2. ASSUME NEW n \in Wants \cup {All}, Fetch(n)
        PROVE  UNCHANGED <<paging, portal, tx, faulted>>
    BY <2>2 DEF Fetch, object, server, history
  <2>3. ASSUME NEW n \in Moves, NEW mode \in {"relative", "absolute"},
               Scroll(n, mode)
        PROVE  /\ UNCHANGED <<paging, tx, faulted>>
               /\ portal' = portal \/ PortalIsOpen'
    <3>1. PortalIsOpen => Target(n, mode) \in Nat
      <4>1. n \in Int
        BY ConstantsOK
      <4>. QED BY <4>1, PageIsTyped, MoveReaches DEF Target
    <3>2. \/ portal' = portal
          \/ PortalIsOpen /\ portal' = MovedTo(Target(n, mode))
      BY <2>3 DEF Scroll
    <3>. QED BY <2>3, <3>1, <3>2, MovedPortalIsOpen DEF Scroll, call
  <2>4. CASE Close
    BY <2>4 DEF Close
  <2>. QED BY <1>1, <2>1, <2>2, <2>3, <2>4
    DEF UserStep, PagingHasPortal, PortalIsOpen
<1>2. CASE ExecuteServed \/ ExecuteRefused \/ DeclareRefused
  BY <1>2
  DEF ExecuteServed, ExecuteRefused, DeclareRefused, EndTx, Return, Raise,
      CallOver, PagingHasPortal, PortalIsOpen, object, server
<1>3. CASE ExecuteTooLarge
  <2>1. paging' = 0
    BY <1>3 DEF ExecuteTooLarge, OfThisStatement, object
  <2>. QED BY <2>1
<1>4. CASE Declared
  <2>1. stmt \in Stmts
    BY <1>4 DEF Declared, OfThisStatement, OnTheWire
  <2>2. portal'.of = stmt
    BY <1>4 DEF Declared
  <2>. QED BY <1>4, <2>1, <2>2, ConstantsOK DEF Declared, GoTo, PortalIsOpen, NoPortal
<1>5. CASE PageServed \/ Rewound \/ PageTooLarge
  <2>1. PortalIsOpen /\ PastPage \in Nat /\ RewindTarget \in Nat
    BY <1>5, PageIsTyped DEF PageServed, Rewound, PageTooLarge
  <2>2. portal' = MovedTo(PastPage) \/ portal' = MovedTo(RewindTarget)
    BY <1>5 DEF PageServed, Rewound, PageTooLarge, TooLarge, EndTx
  <2>. QED BY <2>1, <2>2, MovedPortalIsOpen
<1>6. CASE PageRefused \/ RewindRefused
  BY <1>6
  DEF PageRefused, RewindRefused, EndTx, Raise, CallOver, PagingHasPortal,
      PortalIsOpen, object, server
<1>7. CASE PopRow \/ NextPage \/ FetchDone
  <2>1. UNCHANGED <<paging, portal, tx>>
    BY <1>7 DEF PopRow, NextPage, FetchDone, object, server
  <2>2. faulted' = faulted
    BY <1>7 DEF PopRow, NextPage, FetchDone, ReturnRows, history
  <2>. QED BY <2>1, <2>2 DEF PagingHasPortal, PortalIsOpen
<1>8. CASE Resuming \/ NoAnswer \/ TxEnds
  BY <1>8 DEF Resuming, NoAnswer, TxEnds
<1>9. CASE UNCHANGED vars
  BY <1>9
  DEF vars, object, call, server, history, PagingHasPortal, PortalIsOpen
<1>. QED
  BY <1>1, <1>2, <1>3, <1>4, <1>5, <1>6, <1>7, <1>8, <1>9 DEF Next, DriverStep

(* One row is the smallest page; it fits if every row of the result does.    *)
LEMMA OneRowFits ==
  ASSUME TypeOK, OfThisStatement, PortalIsOpen, EachRowFits(stmt), paging = 1
  PROVE  PageFits
<1>1. /\ stmt \in Stmts /\ portal.of = stmt /\ portal.pos \in Nat
      /\ Total(stmt) \in Nat /\ PageTo \in Nat /\ PageTo <= Total(stmt)
  BY PageIsTyped
<1>2. PageTo = portal.pos + 1 \/ PageTo <= portal.pos
  BY <1>1 DEF PageTo, FetchEnd, Lesser
<1>3. CASE PageTo = portal.pos + 1
  <2>1. PageTo \in 1 .. Total(stmt)
    BY <1>1, <1>3
  <2>. QED BY <1>1, <1>3, <2>1 DEF EachRowFits, PageFits
<1>. QED BY <1>2, <1>3 DEF PageFits

(* The two ends of a call that pagination is there to avoid.                 *)
LEMMA PaginationIsNotInTheWay ==
  ASSUME PaginationInv, [Next]_vars
  PROVE  PaginatesIfPossible'
<1>. USE DEF PaginationInv, OwnRowsInv
<1>. SUFFICES ASSUME ~faulted', tx' = "open", stmt' \notin Undeclarable,
                     stmt' \in Stmts => EachRowFits(stmt')
              PROVE  outcome' \notin {"badRequest", "tooLarge"}
  BY DEF PaginatesIfPossible
<1>1. CASE UserStep
  <2>1. ASSUME NEW s \in Stmts, Execute(s) PROVE outcome' = "ok"
    BY <2>1 DEF Execute
  <2>2. ASSUME NEW n \in Wants \cup {All}, Fetch(n)
        PROVE  UNCHANGED <<tx, faulted, stmt, outcome>>
    BY <2>2 DEF Fetch, server, history
  <2>3. ASSUME NEW n \in Moves, NEW mode \in {"relative", "absolute"},
               Scroll(n, mode)
        PROVE  outcome' \in {"dbapi", "ok"}
    BY <2>3 DEF Scroll, PagingHasPortal
  <2>4. CASE Close
    BY <2>4 DEF Close
  <2>. QED BY <1>1, <2>1, <2>2, <2>3, <2>4 DEF UserStep, PaginatesIfPossible
<1>2. CASE ExecuteServed \/ ExecuteRefused \/ PageRefused
  BY <1>2 DEF ExecuteServed, ExecuteRefused, PageRefused, Return, Raise
<1>3. CASE ExecuteTooLarge
  <2>1. UNCHANGED <<tx, faulted, stmt, outcome>>
    BY <1>3 DEF ExecuteTooLarge, TooLarge, EndTx, GoTo, history
  <2>. QED BY <2>1 DEF PaginatesIfPossible
<1>4. CASE Declared \/ Rewound \/ PopRow \/ NextPage
  <2>1. UNCHANGED <<tx, faulted, stmt, outcome>>
    BY <1>4 DEF Declared, Rewound, PopRow, NextPage, GoTo, server, history
  <2>. QED BY <2>1 DEF PaginatesIfPossible
<1>5. CASE DeclareRefused
  <2>1. FALSE
    BY <1>5 DEF DeclareRefused, EndTx, Raise, CallOver, server
  <2>. QED BY <2>1
<1>6. CASE PageServed
  <2>1. outcome' \in {"ok", "conversion"} \/ UNCHANGED <<faulted, outcome>>
    BY <1>6 DEF PageServed, Return, ReturnRows, Raise, history
  <2>2. UNCHANGED <<tx, stmt>>
    BY <1>6 DEF PageServed, Return, ReturnRows, Raise, CallOver, GoTo
  <2>. QED BY <2>1, <2>2 DEF PaginatesIfPossible
<1>7. CASE PageTooLarge
  <2>1. /\ PortalIsOpen /\ ~PageFits /\ stmt \in Stmts /\ paging \in Nat \ {0}
        /\ stmt' = stmt /\ tx' = tx
    BY <1>7, PageIsTyped
    DEF PageTooLarge, TooLarge, EndTx, GoTo, Raise, CallOver
  <2>2. MayHalve
    BY <2>1, OneRowFits DEF MayHalve
  <2>3. UNCHANGED <<faulted, outcome>>
    BY <1>7, <2>2 DEF PageTooLarge, history
  <2>. QED BY <2>1, <2>3 DEF PaginatesIfPossible
<1>8. CASE RewindRefused
  <2>1. paging > 0
    BY <1>8, ConstantsOK DEF RewindRefused, OfThisStatement, TypeOK, ObjectOK
  <2>2. faulted' = faulted /\ tx' = tx
    BY <1>8 DEF RewindRefused, server
  <2>. QED BY <1>8, <2>1, <2>2 DEF RewindRefused, PagingHasPortal
<1>9. CASE FetchDone
  BY <1>9 DEF FetchDone, ReturnRows
<1>10. CASE Resuming \/ NoAnswer \/ TxEnds
  BY <1>10 DEF Resuming, NoAnswer, TxEnds
<1>11. CASE UNCHANGED vars
  BY <1>11 DEF vars, call, server, history, PaginatesIfPossible
<1>. QED
  BY <1>1, <1>2, <1>3, <1>4, <1>5, <1>6, <1>7, <1>8, <1>9, <1>10, <1>11
  DEF Next, DriverStep

THEOREM PaginationInvAlways == Spec => []PaginationInv
<1>1. Init => PaginationInv
  BY InitOwnRows
  DEF Init, PaginationInv, PortalNeedsTx, PagingHasPortal, PortalIsOpen,
      PaginatesIfPossible
<1>2. PaginationInv /\ OwnRowsInv' /\ [Next]_vars => PaginationInv'
  BY PortalStaysInTx, PagingKeepsPortal, PaginationIsNotInTheWay
  DEF PaginationInv
<1>. QED BY <1>1, <1>2, OwnRowsAlways, PTL DEF Spec

(* Unless a fault strikes, the size of a result makes a call fail only where *)
(* a single row is too large, no cursor can be declared for the statement, or*)
(* no transaction is open to declare it in, be it that the oversized result  *)
(* has ended it: for every arraysize, size of rows, limit and set of faults. *)
THEOREM PaginatesAsRequired == Spec => []PaginatesIfPossible
<1>1. PaginationInv => PaginatesIfPossible
  BY DEF PaginationInv
<1>. QED BY <1>1, PaginationInvAlways, PTL

-----------------------------------------------------------------------------
(* The result stream.                                                        *)

LEMMA CollectedRowsExist ==
  ASSUME StreamInv, CursorInv', [Next]_vars
  PROVE  (clean /\ out # <<>> => Place <= Total(stmt))'
<1>. USE DEF StreamInv, CursorInv, OwnRowsInv
<1>1. CASE UserStep
  <2>1. ASSUME NEW s \in Stmts, Execute(s) PROVE out' = <<>>
    BY <2>1 DEF Execute, StartBody
  <2>2. ASSUME NEW n \in Wants \cup {All}, Fetch(n) PROVE out' = <<>>
    BY <2>2 DEF Fetch
  <2>3. ASSUME NEW n \in Moves, NEW mode \in {"relative", "absolute"},
               Scroll(n, mode)
        PROVE  out' = <<>>
    BY <2>3 DEF Scroll, call, OfThisStatement
  <2>4. CASE Close
    BY <2>4 DEF Close, OfThisStatement
  <2>. QED BY <1>1, <2>1, <2>2, <2>3, <2>4 DEF UserStep
<1>2. CASE ExecuteServed \/ ExecuteRefused \/ DeclareRefused \/ PageRefused
           \/ RewindRefused \/ FetchDone \/ NoAnswer
  BY <1>2
  DEF ExecuteServed, ExecuteRefused, DeclareRefused, PageRefused, RewindRefused,
      FetchDone, NoAnswer, Return, ReturnRows, Raise, CallOver
<1>3. CASE UNCHANGED <<out, stmt, history>>
  BY <1>3 DEF history, Place
<1>4. CASE ExecuteTooLarge \/ Declared \/ Rewound \/ NextPage
  BY <1>3, <1>4 DEF ExecuteTooLarge, Declared, Rewound, NextPage, GoTo
<1>5. CASE PageServed \/ PageTooLarge
  <2>1. out' = <<>> \/ UNCHANGED <<out, stmt, history>>
    BY <1>5
    DEF PageServed, PageTooLarge, GoTo, Return, ReturnRows, Raise, CallOver
  <2>. QED BY <1>3, <2>1
<1>6. CASE PopRow
  <2>. SUFFICES ASSUME clean PROVE Place' <= Total(stmt)
    BY <1>6 DEF PopRow, history
  <2>1. /\ unread.from \in Nat /\ unread.to \in Nat /\ unread.of = stmt
        /\ unread.from <= unread.to /\ unread.to <= Total(stmt)
        /\ unread.from = Place + 1 /\ Total(stmt) \in Nat
    BY <1>6, TotalIsNat
    DEF PopRow, OfThisStatement, HasBufferedRow, TypeOK, ObjectOK, OrderInv,
        BufferInStep
  <2>2. Row(unread.of, unread.from) \in Rows
    BY <1>6, <2>1
    DEF PopRow, OfThisStatement, HasBufferedRow, Row, Rows
  <2>3. Len(out') = Len(out) + 1
    BY <1>6, <2>2, AppendProperties DEF PopRow, TypeOK, CallOK
  <2>4. Place' = Place + 1 /\ Place \in Nat
    <3>1. Len(handed) \in Nat /\ Len(out) \in Nat /\ base \in Nat
      BY LenProperties DEF TypeOK, CallOK, HistoryOK
    <3>2. base' = base /\ handed' = handed
      BY <1>6 DEF PopRow, history
    <3>. QED BY <2>3, <3>1, <3>2 DEF Place
  <2>. QED BY <2>1, <2>4
<1>7. CASE Resuming
  BY <1>7 DEF Resuming, StartBody, Raise, CallOver
<1>8. CASE TxEnds
  BY <1>8 DEF TxEnds, call, Place
<1>9. CASE UNCHANGED vars
  BY <1>3, <1>9 DEF vars, call
<1>. QED BY <1>1, <1>2, <1>4, <1>5, <1>6, <1>7, <1>8, <1>9 DEF Next, DriverStep

LEMMA FullFetchHasStatement ==
  ASSUME StreamInv, [Next]_vars
  PROVE  (pc = "pop" /\ want = 0 => stmt \in Stmts)'
<1>. USE DEF StreamInv, CursorInv, OwnRowsInv
<1>1. CASE UserStep
  <2>1. ASSUME NEW n \in Wants \cup {All}, Fetch(n) PROVE want' # 0
    BY <2>1, ConstantsOK DEF Fetch, All
  <2>. QED BY <1>1, <2>1 DEF UserStep, Execute, StartBody, Scroll, Close, call
<1>2. CASE PopRow
  BY <1>2 DEF PopRow, OfThisStatement
<1>3. CASE DriverStep /\ ~PopRow
  <2>1. \/ pc' # "pop"
        \/ ~InExecute /\ want' = want
    BY <1>3
    DEF DriverStep, ExecuteServed, ExecuteTooLarge, ExecuteRefused, Declared,
        DeclareRefused, PageServed, PageTooLarge, PageRefused, Rewound,
        RewindRefused, NextPage, FetchDone, Resuming, NoAnswer, StartBody, GoTo,
        Return, ReturnRows, Raise, CallOver
  <2>. QED BY <2>1 DEF InExecute
<1>4. CASE TxEnds \/ UNCHANGED vars
  BY <1>4 DEF TxEnds, vars, call
<1>. QED BY <1>1, <1>2, <1>3, <1>4 DEF Next

THEOREM StreamInvAlways == ASSUME NoTailOverflow PROVE Spec => []StreamInv
<1>1. Init => StreamInv
  BY InitOwnRows, InitOrder DEF Init, StreamInv, CursorInv
<1>2. StreamInv /\ CursorInv' /\ [Next]_vars => StreamInv'
  BY CollectedRowsExist, FullFetchHasStatement DEF StreamInv
<1>. QED BY <1>1, <1>2, CursorInvAlways, PTL DEF Spec

(* The ends of a call are steps of the stream.                               *)

LEMMA RaiseBreaksStream ==
  ASSUME NEW kind, Raise(kind)
  PROVE  Stream!Next
BY DEF Raise, CallOver, Stream!Next, Stream!Break

(* The return of execute opens the stream again, as new as it was.           *)
LEMMA ReturnIsOfStream ==
  ASSUME Return, stmt \in Stmts, clean, base = 0, handed = <<>>
  PROVE  Stream!Next
BY DEF Return, CallOver, Stream!Next, Stream!Open

(* What a fetch method collected are the next rows of the stream.            *)
LEMMA ReadIsOfStream ==
  ASSUME StreamInv, CursorInv', NEW isShort \in BOOLEAN, ReturnRows(isShort),
         stmt = NoStmt => isShort
  PROVE  Stream!Next
<1>. USE DEF StreamInv, CursorInv, OwnRowsInv
<1>1. /\ handed' = handed \o out /\ short' = isShort
      /\ UNCHANGED <<stmt, base, clean>>
  BY DEF ReturnRows, CallOver
<1>2. /\ handed \in Seq(Rows) /\ out \in Seq(Rows)
      /\ Len(handed) \in Nat /\ Len(out) \in Nat /\ base \in Nat
      /\ DOMAIN out = 1 .. Len(out)
  BY LenProperties DEF TypeOK, CallOK, HistoryOK
<1>3. CASE ~clean
  <2>1. \A i \in DOMAIN handed' : handed'[i][1] = stmt
    BY <1>1 DEF RowsOfLastExecute
  <2>2. Stream!ReadBroken
    BY <1>1, <1>3, <2>1 DEF Stream!ReadBroken
  <2>. QED BY <2>2 DEF Stream!Next
<1>4. CASE stmt = NoStmt
  <2>1. out = <<>>
    <3>1. ASSUME NEW i \in 1 .. Len(out) PROVE FALSE
      <4>1. out[i] \in Rows
        BY <1>2, <3>1, ElementOfSeq
      <4>2. out[i][1] = NoStmt
        BY <1>2, <1>4 DEF RowsOfLastExecute
      <4>. QED BY <4>1, <4>2, ConstantsOK DEF Rows
    <3>2. Len(out) = 0
      BY <1>2, <3>1
    <3>. QED BY <1>2, <3>2, EmptySeq
  <2>2. handed' = handed
    BY <1>1, <1>2, <2>1, ConcatEmptySeq
  <2>3. Stream!ReadNothing
    BY <1>1, <1>4, <2>2 DEF Stream!ReadNothing
  <2>. QED BY <2>3 DEF Stream!Next
<1>5. CASE clean /\ stmt \in Stmts
  <2>1. Len(handed') - Len(handed) = Len(out)
    BY <1>1, <1>2, ConcatProperties
  <2>2. out = Stream!NextRows(Len(out))
    <3>. DEFINE next == Stream!NextRows(Len(out))
    <3>1. next = [i \in 1 .. Len(out) |-> <<stmt, base + Len(handed) + i>>]
      BY DEF Stream!NextRows
    <3>2. \A i \in 1 .. Len(out) : <<stmt, base + Len(handed) + i>> \in Rows
      BY <1>2, <1>5 DEF Rows
    <3>3. next \in Seq(Rows) /\ Len(next) = Len(out) /\ DOMAIN next = 1 .. Len(out)
      <4>1. next \in [1 .. Len(out) -> Rows]
        BY <3>1, <3>2
      <4>. QED BY <1>2, <4>1, IsASeq, LenProperties
    <3>4. \A i \in 1 .. Len(out) : out[i] = next[i]
      BY <1>2, <1>5, <3>1 DEF OrderInv, OutInOrder, Row
    <3>. HIDE DEF next
    <3>5. out = next
      BY <1>2, <3>3, <3>4, SeqEqual
    <3>. QED BY <3>5 DEF next
  <2>3. Len(out) > 0 => base + Len(handed) + Len(out) <= Total(stmt)
    BY <1>2, <1>5, EmptySeq DEF Place
  <2>4. isShort => base + Len(handed) + Len(out) >= Total(stmt)
    <3>1. base' + Len(handed') = base + Len(handed) + Len(out)
      BY <1>1, <1>2, <2>1, ConcatProperties
    <3>. QED BY <1>1, <1>5, <3>1, ConstantsOK DEF OrderInv, ShortMeansEnd
  <2>5. Stream!Read(Len(out), isShort)
    BY <1>1, <1>5, <2>2, <2>3, <2>4 DEF Stream!Read
  <2>6. \E isEnd \in BOOLEAN : Stream!Read(Len(handed') - Len(handed), isEnd)
    BY <2>1, <2>5
  <2>. QED BY <2>6 DEF Stream!Next
<1>. QED BY <1>3, <1>4, <1>5 DEF TypeOK, CallOK, HistoryOK

(* What every step is to the caller: one of the stream, or nothing.          *)
LEMMA StepIsOfStream ==
  ASSUME StreamInv, CursorInv', [Next]_vars
  PROVE  [Stream!Next]_(Stream!vars)
<1>. USE DEF StreamInv, CursorInv, OwnRowsInv
<1>1. CASE UNCHANGED <<stmt, base, handed, short, clean>>
  BY <1>1 DEF Stream!vars
<1>2. CASE UserStep
  <2>1. ASSUME NEW s \in Stmts, Execute(s) PROVE Stream!Next
    BY <2>1 DEF Execute, Stream!Next, Stream!Open
  <2>2. ASSUME NEW n \in Wants \cup {All}, Fetch(n)
        PROVE  UNCHANGED <<stmt, base, handed, short, clean>>
    BY <2>2 DEF Fetch, history
  <2>3. ASSUME NEW n \in Moves, NEW mode \in {"relative", "absolute"},
               Scroll(n, mode)
        PROVE  Stream!Next \/ UNCHANGED <<stmt, base, handed, short, clean>>
    <3>0. stmt' = stmt
      BY <2>3 DEF Scroll, call
    <3>1. CASE clean' = FALSE /\ short' = FALSE /\ handed' = <<>> /\ base' = base
      BY <3>0, <3>1 DEF Stream!Next, Stream!Break
    <3>2. CASE /\ PortalIsOpen /\ base' = Target(n, mode) /\ handed' = <<>>
               /\ short' = FALSE /\ clean' = clean
      <4>1. /\ Target(n, mode) \in Nat /\ stmt \in Stmts /\ Total(stmt) \in Nat
            /\ Target(n, mode) \in Positions(Total(stmt))
        <5>1. n \in Int
          BY ConstantsOK
        <5>. QED BY <3>2, <5>1, PageIsTyped, MoveReaches DEF Target
      <4>2. Target(n, mode) <= Total(stmt) + 1
        BY <4>1 DEF Positions
      <4>3. Stream!Seek(base') /\ base' \in Nat
        BY <3>0, <3>2, <4>1, <4>2 DEF Stream!Seek
      <4>. QED BY <4>3 DEF Stream!Next
    <3>. QED BY <2>3, <3>0, <3>1, <3>2 DEF Scroll
  <2>4. CASE Close
    BY <2>4 DEF Close, Stream!Next, Stream!Close
  <2>. QED BY <1>1, <1>2, <2>1, <2>2, <2>3, <2>4 DEF UserStep
<1>3. CASE ExecuteServed
  <2>1. stmt \in Stmts /\ clean /\ base = 0 /\ handed = <<>>
    BY <1>3 DEF ExecuteServed, OfThisStatement, OnTheWire
  <2>. QED BY <1>3, <2>1, ReturnIsOfStream, RaiseBreaksStream DEF ExecuteServed
<1>4. CASE ExecuteRefused \/ DeclareRefused \/ PageRefused \/ RewindRefused
           \/ NoAnswer
  BY <1>4, RaiseBreaksStream
  DEF ExecuteRefused, DeclareRefused, PageRefused, RewindRefused, NoAnswer
<1>5. CASE ExecuteTooLarge \/ Declared \/ Rewound \/ NextPage \/ PopRow \/ TxEnds
  BY <1>1, <1>5
  DEF ExecuteTooLarge, Declared, Rewound, NextPage, PopRow, TxEnds, GoTo, call,
      history
<1>6. CASE PageServed
  <2>1. stmt \in Stmts /\ stmt # NoStmt
    BY <1>6, ConstantsOK DEF PageServed, OfThisStatement
  <2>2. CASE InExecute /\ Return
    BY <1>6, <2>1, <2>2, ReturnIsOfStream
    DEF PageServed, OfThisStatement, FetchingForExecute
  <2>3. CASE ReturnRows(TRUE)
    BY <2>1, <2>3, ReadIsOfStream
  <2>4. CASE GoTo("pop") /\ UNCHANGED history
    BY <1>1, <2>4 DEF GoTo, history
  <2>. QED BY <1>6, <2>2, <2>3, <2>4, RaiseBreaksStream DEF PageServed
<1>7. CASE PageTooLarge
  BY <1>1, <1>7, RaiseBreaksStream DEF PageTooLarge, GoTo, history
<1>8. CASE FetchDone
  <2>1. PICK isShort \in BOOLEAN : ReturnRows(isShort) /\ (want # 0 => isShort)
    BY <1>8 DEF FetchDone
  <2>2. stmt = NoStmt => isShort
    BY <1>8, <2>1, ConstantsOK DEF FetchDone
  <2>. QED BY <2>1, <2>2, ReadIsOfStream
<1>9. CASE Resuming
  BY <1>1, <1>9, RaiseBreaksStream DEF Resuming
<1>10. CASE UNCHANGED vars
  BY <1>1, <1>10 DEF vars, call, history
<1>. QED
  BY <1>2, <1>3, <1>4, <1>5, <1>6, <1>7, <1>8, <1>9, <1>10
  DEF Next, DriverStep, Stream!vars

(* Whatever pages, back-offs, retries and faults, the caller of a cursor     *)
(* sees the steps of a result stream.                                        *)
THEOREM CursorIsAStream ==
  ASSUME NoTailOverflow PROVE Spec => ImplementsResultStream
<1>1. Init => Stream!Init
  BY DEF Init, Stream!Init
<1>. QED
  BY <1>1, StepIsOfStream, StreamInvAlways, CursorInvAlways, PTL
  DEF Spec, ImplementsResultStream, Stream!Spec

-----------------------------------------------------------------------------
(* The history: a row is never returned again.                               *)

LEMMA ReturnedRows ==
  ASSUME TypeOK, NEW isShort, ReturnRows(isShort)
  PROVE  /\ Len(handed') = Len(handed) + Len(out)
         /\ Len(handed) \in Nat /\ Len(out) \in Nat
         /\ Returned = Len(handed) + 1 .. Len(handed) + Len(out)
         /\ \A i \in 1 .. Len(out) : handed'[Len(handed) + i] = out[i]
<1>1. handed' = handed \o out
  BY DEF ReturnRows
<1>2. handed \in Seq(Rows) /\ out \in Seq(Rows)
  BY DEF TypeOK, CallOK, HistoryOK
<1>. QED BY <1>1, <1>2, ConcatRows DEF Returned

LEMMA NothingReturned ==
  ASSUME TypeOK, handed' = handed \/ handed' = <<>>
  PROVE  Returned = {}
<1>1. Len(handed) \in Nat
  BY LenProperties DEF TypeOK, HistoryOK
<1>2. CASE handed' = handed
  BY <1>1, <1>2 DEF Returned
<1>3. CASE handed' = <<>>
  <2>1. Len(handed') = 0
    BY <1>3
  <2>. QED BY <1>1, <2>1 DEF Returned
<1>. QED BY <1>2, <1>3

(* The last row taken follows the one returned last.                         *)
LEMMA LastTakenFollows ==
  ASSUME TypeOK, latest \in Nat, OutAscends
  PROVE  /\ LastTaken \in Nat /\ latest <= LastTaken
         /\ \A i \in DOMAIN out : out[i][2] \in Nat /\ out[i][2] <= LastTaken
<1>1. /\ out \in Seq(Rows) /\ Len(out) \in Nat /\ DOMAIN out = 1 .. Len(out)
      /\ (out # <<>> => Len(out) \in 1 .. Len(out))
  BY LenProperties, EmptySeq DEF TypeOK, CallOK
<1>2. \A i \in DOMAIN out : out[i][2] \in Nat
  <2>. SUFFICES ASSUME NEW i \in 1 .. Len(out) PROVE out[i][2] \in Nat
    BY <1>1
  <2>1. out[i] \in Rows
    BY <1>1, ElementOfSeq
  <2>. QED BY <2>1 DEF Rows
<1>3. CASE out = <<>>
  BY <1>1, <1>2, <1>3 DEF LastTaken
<1>4. CASE out # <<>>
  <2>1. LastTaken = out[Len(out)][2] /\ Len(out) \in DOMAIN out
    BY <1>1, <1>4 DEF LastTaken
  <2>2. LastTaken \in Nat /\ latest < LastTaken
    BY <1>2, <2>1 DEF OutAscends
  <2>3. ASSUME NEW i \in DOMAIN out PROVE out[i][2] <= LastTaken
    <3>1. i \in 1 .. Len(out)
      BY <1>1
    <3>2. CASE i = Len(out)
      BY <1>2, <2>1, <3>2
    <3>3. CASE i < Len(out)
      <4>1. out[i][2] < out[Len(out)][2]
        BY <2>1, <3>3 DEF OutAscends
      <4>. QED BY <1>2, <2>1, <4>1
    <3>. QED BY <1>1, <3>1, <3>2, <3>3
  <2>. QED BY <1>2, <2>2, <2>3
<1>. QED BY <1>3, <1>4

LEMMA SameLastTaken ==
  ASSUME out' = out, latest' = latest
  PROVE  LastTaken' = LastTaken /\ (OutAscends => OutAscends')
BY DEF LastTaken, OutAscends

LEMMA NoneTaken ==
  ASSUME out' = <<>>
  PROVE  LastTaken' = latest' /\ OutAscends'
BY DEF LastTaken, OutAscends

(* A step that returns rows goes behind them, every other step leaves the    *)
(* row returned last as it is.                                               *)
LEMMA QuietStep ==
  ASSUME TypeOK, FetchStep, handed' = handed \/ handed' = <<>>
  PROVE  latest' = latest
BY NothingReturned DEF FetchStep

LEMMA ReturningStep ==
  ASSUME TypeOK, latest \in Nat, FetchStep, NEW isShort, ReturnRows(isShort)
  PROVE  latest' = LastTaken /\ out' = <<>>
<1>1. /\ Len(handed') = Len(handed) + Len(out)
      /\ Len(handed) \in Nat /\ Len(out) \in Nat
      /\ Returned = Len(handed) + 1 .. Len(handed) + Len(out)
      /\ \A i \in 1 .. Len(out) : handed'[Len(handed) + i] = out[i]
  BY ReturnedRows
<1>2. out' = <<>> /\ out \in Seq(Rows) /\ latest # Lost
  BY DEF ReturnRows, CallOver, TypeOK, CallOK, Lost
<1>3. CASE out = <<>>
  <2>1. Returned = {}
    BY <1>1, <1>3
  <2>. QED BY <1>2, <1>3, <2>1 DEF FetchStep, LastTaken
<1>4. CASE out # <<>>
  <2>1. Len(out) # 0
    BY <1>2, <1>4, EmptySeq
  <2>2. Len(out) \in 1 .. Len(out) /\ Returned # {}
    <3>1. Len(handed) + 1 \in Len(handed) + 1 .. Len(handed) + Len(out)
      BY <1>1, <2>1
    <3>. QED BY <1>1, <2>1, <3>1
  <2>3. handed'[Len(handed')] = out[Len(out)]
    BY <1>1, <2>2
  <2>. QED BY <1>2, <1>4, <2>2, <2>3 DEF FetchStep, LastTaken
<1>. QED BY <1>3, <1>4

LEMMA StepReturns ==
  ASSUME TypeOK, [HistoryNext]_<<vars, latest>>
  PROVE  \/ handed' = handed \/ handed' = <<>>
         \/ \E isShort \in BOOLEAN : ReturnRows(isShort)
<1>1. CASE UNCHANGED <<vars, latest>>
  BY <1>1 DEF vars, history
<1>2. CASE DriverStep
  BY <1>2
  DEF DriverStep, ExecuteServed, ExecuteTooLarge, ExecuteRefused, Declared,
      DeclareRefused, PageServed, PageTooLarge, PageRefused, Rewound,
      RewindRefused, PopRow, NextPage, FetchDone, Resuming, NoAnswer, Return,
      Raise, history
<1>3. CASE HistoryNext /\ ~DriverStep
  BY <1>3
  DEF HistoryNext, FetchStep, ScrollStep, Execute, Close, Fetch, Scroll, TxEnds,
      history
<1>. QED BY <1>1, <1>2, <1>3

(* While execute is under way no row has been returned.                      *)
LEMMA ExecuteReturnsNothing ==
  ASSUME OwnRowsInv, HistoryInv, FetchStep
  PROVE  (pc \in {"execute", "declare"} \/ FetchingForExecute => latest = 0)'
<1>. USE DEF OwnRowsInv
<1>1. \/ ~(pc \in {"execute", "declare"} \/ FetchingForExecute)'
      \/ /\ pc \in {"execute", "declare"} \/ FetchingForExecute
         /\ handed' = handed
  <2>1. CASE \E n \in Wants \cup {All} : Fetch(n)
    BY <2>1 DEF Fetch, FetchingForExecute
  <2>2. CASE ExecuteServed \/ ExecuteRefused \/ DeclareRefused \/ PageRefused
             \/ RewindRefused \/ PopRow \/ FetchDone \/ NoAnswer
    BY <2>2
    DEF ExecuteServed, ExecuteRefused, DeclareRefused, PageRefused,
        RewindRefused, PopRow, FetchDone, NoAnswer, Return, ReturnRows, Raise,
        CallOver, FetchingForExecute
  <2>3. CASE ExecuteTooLarge \/ Declared \/ Rewound \/ NextPage
    BY <2>3
    DEF ExecuteTooLarge, Declared, Rewound, NextPage, GoTo, FetchingForExecute,
        InExecute, OfThisStatement, history
  <2>4. CASE PageServed \/ PageTooLarge
    BY <2>4
    DEF PageServed, PageTooLarge, Return, ReturnRows, Raise, CallOver, GoTo,
        FetchingForExecute, InExecute, history
  <2>5. CASE Resuming
    BY <2>5
    DEF Resuming, OnTheWire, Raise, CallOver, FetchingForExecute, InExecute
  <2>6. CASE TxEnds
    BY <2>6 DEF TxEnds, call, FetchingForExecute, InExecute
  <2>. QED BY <2>1, <2>2, <2>3, <2>4, <2>5, <2>6 DEF FetchStep, DriverStep
<1>. QED BY <1>1, QuietStep DEF HistoryInv

(* The two ways to be in step after a page was asked for or a call is over.  *)
LEMMA NextIsBehindEmptyBuffer ==
  ASSUME ~HasBufferedRow', pc' # "rewind",
         (PortalIsOpen => portal.pos >= LastTaken)'
  PROVE  NextIsBehind'
BY DEF NextIsBehind

LEMMA UserStepKeepsHistory ==
  ASSUME OwnRowsInv, HistoryInv,
         \/ (\E s \in Stmts : Execute(s)) /\ latest' = 0
         \/ Close /\ latest' = 0
         \/ \E n \in Moves, mode \in {"relative", "absolute"} : ScrollStep(n, mode)
  PROVE  HistoryInv'
<1>. USE DEF OwnRowsInv
<1>1. ASSUME NEW s \in Stmts, Execute(s), latest' = 0
      PROVE  HistoryInv'
  <2>1. out' = <<>> /\ ~HasBufferedRow' /\ ~PortalIsOpen' /\ pc' = "execute"
    BY <1>1
    DEF Execute, StartBody, BufferAtExecute, EmptyBuffer, Buffer,
        HasBufferedRow, PortalIsOpen
  <2>. QED BY <1>1, <2>1, NoneTaken, NextIsBehindEmptyBuffer DEF HistoryInv
<1>2. CASE Close /\ latest' = 0
  <2>1. out' = <<>> /\ ~HasBufferedRow' /\ ~PortalIsOpen' /\ pc' = "idle"
    BY <1>2
    DEF Close, OfThisStatement, EmptyBuffer, Buffer, HasBufferedRow, PortalIsOpen
  <2>. QED BY <1>2, <2>1, NoneTaken, NextIsBehindEmptyBuffer DEF HistoryInv
<1>3. ASSUME NEW n \in Moves, NEW mode \in {"relative", "absolute"},
             ScrollStep(n, mode)
      PROVE  HistoryInv'
  <2>1. pc = "idle" /\ pc' = "idle" /\ out = <<>> /\ out' = <<>>
    BY <1>3 DEF ScrollStep, Scroll, call, OfThisStatement
  <2>2. CASE latest' = Lost
    BY <2>1, <2>2 DEF HistoryInv, FetchingForExecute
  <2>3. CASE latest' = latest /\ UNCHANGED <<unread, portal>>
    <3>1. LastTaken' = LastTaken /\ OutAscends'
      BY <2>1, <2>3, SameLastTaken, NoneTaken
    <3>2. latest # Lost => NextIsBehind'
      BY <2>1, <2>3, <3>1
      DEF HistoryInv, NextIsBehind, HasBufferedRow, PortalIsOpen
    <3>. QED BY <2>1, <2>3, <3>1, <3>2 DEF HistoryInv, FetchingForExecute
  <2>4. CASE /\ latest' = 0 /\ PortalIsOpen
             /\ portal' = MovedTo(Target(n, mode)) /\ unread' = BufferAfterScroll
    <3>1. Target(n, mode) \in Nat
      <4>1. n \in Int
        BY ConstantsOK
      <4>. QED BY <2>4, <4>1, PageIsTyped, MoveReaches DEF Target
    <3>2. portal'.pos >= 0
      BY <2>4, <3>1, MovedToIsTyped DEF TypeOK
    <3>3. ~HasBufferedRow'
      BY <2>4 DEF BufferAfterScroll, EmptyBuffer, Buffer, HasBufferedRow
    <3>4. LastTaken' = 0 /\ OutAscends'
      BY <2>1, <2>4, NoneTaken
    <3>. QED BY <2>1, <2>4, <3>2, <3>3, <3>4, NextIsBehindEmptyBuffer
         DEF HistoryInv
  <2>. QED BY <1>3, <2>2, <2>3, <2>4 DEF ScrollStep, Scroll
<1>. QED BY <1>1, <1>2, <1>3

LEMMA ExecuteStepsKeepHistory ==
  ASSUME OwnRowsInv, HistoryInv, FetchStep, latest # Lost,
         \/ \E n \in Wants \cup {All} : Fetch(n)
         \/ ExecuteServed \/ ExecuteTooLarge \/ Declared
  PROVE  OutAscends' /\ NextIsBehind'
<1>. USE DEF OwnRowsInv
<1>1. handed' = handed \/ handed' = <<>>
  BY DEF Fetch, ExecuteServed, ExecuteTooLarge, Declared, Return, Raise, history
<1>2. latest' = latest /\ latest \in Nat
  BY <1>1, QuietStep DEF HistoryInv
<1>3. OutAscends /\ NextIsBehind
  BY DEF HistoryInv
<1>4. ASSUME NEW n \in Wants \cup {All}, Fetch(n)
      PROVE  OutAscends' /\ NextIsBehind'
  <2>1. out' = out /\ pc' = "pop" /\ UNCHANGED <<unread, portal>>
    BY <1>4 DEF Fetch, OfThisStatement, object, server
  <2>. QED BY <1>2, <1>3, <2>1, SameLastTaken
    DEF NextIsBehind, HasBufferedRow, PortalIsOpen
<1>5. CASE ExecuteServed
  <2>1. /\ latest = 0 /\ out' = <<>> /\ ~PortalIsOpen' /\ ~HasBufferedRow
        /\ pc' = "idle"
    BY <1>5
    DEF ExecuteServed, HistoryInv, OfThisStatement, OnTheWire, Return, Raise,
        CallOver, PortalIsOpen, server
  <2>2. unread' = unread \/ unread'.from = 1
    BY <1>5 DEF ExecuteServed, Buffer
  <2>. QED BY <1>2, <2>1, <2>2, NoneTaken DEF NextIsBehind, HasBufferedRow
<1>6. CASE ExecuteTooLarge
  <2>1. /\ out' = out /\ ~PortalIsOpen' /\ ~HasBufferedRow' /\ pc' = "declare"
    BY <1>6
    DEF ExecuteTooLarge, TooLarge, EndTx, GoTo, OfThisStatement, OnTheWire,
        HasBufferedRow, PortalIsOpen, object
  <2>. QED BY <1>2, <1>3, <2>1, SameLastTaken, NextIsBehindEmptyBuffer
<1>7. CASE Declared
  <2>1. /\ out' = <<>> /\ latest = 0 /\ portal'.pos = 0 /\ ~HasBufferedRow'
        /\ pc' = "fetch"
    BY <1>7
    DEF Declared, GoTo, OfThisStatement, HistoryInv, EmptyBuffer, Buffer,
        HasBufferedRow
  <2>. QED BY <1>2, <2>1, NoneTaken, NextIsBehindEmptyBuffer
<1>. QED BY <1>4, <1>5, <1>6, <1>7

(* A call that raises in the middle of a page loses what it has collected,   *)
(* but the server has not gone back.                                         *)
LEMMA RaiseKeepsHistory ==
  ASSUME OwnRowsInv, HistoryInv, FetchStep, latest # Lost,
         NEW kind, Raise(kind), unread' = unread, ~HasBufferedRow,
         (PortalIsOpen => portal.pos \in Nat)',
         PortalIsOpen' => portal'.pos >= LastTaken
  PROVE  OutAscends' /\ NextIsBehind'
<1>1. latest' = latest /\ latest \in Nat
  BY QuietStep DEF Raise, HistoryInv, OwnRowsInv
<1>2. latest <= LastTaken /\ LastTaken \in Nat
  BY <1>1, LastTakenFollows DEF HistoryInv, OwnRowsInv
<1>3. out' = <<>> /\ pc' = "idle" /\ ~HasBufferedRow'
  BY DEF Raise, CallOver, HasBufferedRow
<1>4. LastTaken' = latest /\ OutAscends'
  BY <1>1, <1>3, NoneTaken
<1>. QED BY <1>1, <1>2, <1>3, <1>4, NextIsBehindEmptyBuffer

LEMMA PageStepsKeepHistory ==
  ASSUME OwnRowsInv, HistoryInv, FetchStep, latest # Lost,
         PageServed \/ PageTooLarge
  PROVE  OutAscends' /\ NextIsBehind'
<1>. USE DEF OwnRowsInv
<1>1. latest \in Nat /\ OutAscends /\ NextIsBehind
  BY DEF HistoryInv
<1>2. /\ LastTaken \in Nat /\ latest <= LastTaken
  BY <1>1, LastTakenFollows
<1>3. /\ PortalIsOpen /\ ~HasBufferedRow /\ pc = "fetch"
  BY DEF PageServed, PageTooLarge, OfThisStatement, OnTheWire
<1>4. /\ stmt \in Stmts /\ Total(stmt) \in Nat /\ portal.of = stmt
      /\ portal.pos \in Nat /\ portal.pos <= Total(stmt) + 1
      /\ paging \in Nat \ {0} /\ PageTo \in Nat /\ PageTo <= Total(stmt)
      /\ PastPage \in Nat
  BY <1>3, PageIsTyped
<1>5. portal.pos >= LastTaken
  BY <1>1, <1>3 DEF NextIsBehind
<1>6. PastPage >= portal.pos /\ PastPage >= PageTo
  BY <1>4 DEF PastPage, PageTo, AfterFetch, FetchEnd, Clamped, Lesser
<1>7. MovedTo(PastPage).pos = PastPage
  BY <1>4, MovedToIsTyped DEF TypeOK
<1>8. CASE PageServed /\ Raise("conversion") /\ unread' = unread
  <2>1. portal'.pos = PastPage
    BY <1>7, <1>8 DEF PageServed
  <2>. QED BY <1>2, <1>3, <1>4, <1>5, <1>6, <1>8, <2>1, RaiseKeepsHistory
<1>9. CASE /\ PageServed
           /\ unread' = Buffer(portal.of, portal.pos + 1, PageTo)
           /\ \/ InExecute /\ Return
              \/ ReturnRows(TRUE)
              \/ GoTo("pop") /\ UNCHANGED history
  <2>1. /\ portal'.pos = PastPage /\ unread'.from = portal.pos + 1
        /\ unread'.to = PageTo
    BY <1>7, <1>9 DEF PageServed, Buffer
  <2>2. /\ OutAscends' /\ LastTaken' \in Nat /\ LastTaken' <= LastTaken
        /\ pc' # "rewind"
    <3>1. CASE Return
      <4>1. latest' = latest /\ out' = <<>> /\ pc' = "idle"
        BY <3>1, QuietStep DEF Return, CallOver
      <4>. QED BY <1>1, <1>2, <4>1, NoneTaken
    <3>2. CASE ReturnRows(TRUE)
      <4>1. latest' = LastTaken /\ out' = <<>> /\ pc' = "idle"
        BY <1>1, <3>2, ReturningStep DEF ReturnRows, CallOver
      <4>. QED BY <1>2, <4>1, NoneTaken
    <3>3. CASE GoTo("pop") /\ UNCHANGED history
      <4>1. latest' = latest /\ out' = out /\ pc' = "pop"
        BY <3>3, QuietStep DEF GoTo, history
      <4>. QED BY <1>1, <1>2, <4>1, SameLastTaken
    <3>. QED BY <1>9, <3>1, <3>2, <3>3
  <2>. QED BY <1>2, <1>4, <1>5, <1>6, <2>1, <2>2 DEF NextIsBehind
<1>10. CASE PageTooLarge /\ Raise("tooLarge")
  <2>1. PortalIsOpen' => portal'.pos = PastPage
    BY <1>7, <1>10 DEF PageTooLarge, TooLarge, EndTx, PortalIsOpen
  <2>2. unread' = unread
    BY <1>10 DEF PageTooLarge, object
  <2>. QED BY <1>2, <1>3, <1>4, <1>5, <1>6, <1>10, <2>1, <2>2, RaiseKeepsHistory
<1>11. CASE /\ PageTooLarge /\ UNCHANGED <<stmt, out, history>>
            /\ pc' \in {"rewind", "declare"}
  <2>1. PortalIsOpen' => portal'.pos = PastPage
    BY <1>7, <1>11 DEF PageTooLarge, TooLarge, EndTx, PortalIsOpen
  <2>2. /\ paging' = paging /\ stmt' = stmt /\ ~HasBufferedRow'
        /\ latest' = latest /\ out' = out
    BY <1>3, <1>11, QuietStep DEF PageTooLarge, HasBufferedRow, object, history
  <2>3. LastTaken' = LastTaken /\ OutAscends'
    BY <1>1, <2>2, SameLastTaken
  <2>4. /\ portal.pos < PageTo /\ ~Fits(stmt, portal.pos + 1, PageTo)
    BY <1>4, <1>11 DEF PageTooLarge, PageFits
  <2>5. /\ portal.pos \in LastTaken .. Total(stmt) - 1
        /\ PastPage = AfterFetch(portal.pos, paging, Total(stmt))
        /\ PageTo = FetchEnd(portal.pos, paging, Total(stmt))
    BY <1>2, <1>4, <1>5, <2>4 DEF PastPage, PageTo
  <2>. QED BY <1>2, <1>4, <1>5, <1>6, <2>1, <2>2, <2>3, <2>4, <2>5
    DEF NextIsBehind
<1>12. CASE PageServed
  BY <1>8, <1>9, <1>12 DEF PageServed
<1>13. CASE PageTooLarge
  BY <1>10, <1>11, <1>13 DEF PageTooLarge, GoTo
<1>. QED BY <1>12, <1>13

(* The rewind goes back to where the page began, and not before it.          *)
LEMMA RewindKeepsBehind ==
  ASSUME NoTailOverflow, OwnRowsInv, HistoryInv, latest # Lost,
         pc = "rewind", PortalIsOpen
  PROVE  /\ RewindTarget \in Nat /\ RewindTarget >= LastTaken
         /\ MovedTo(RewindTarget).pos = RewindTarget
<1>1. LastTaken \in Nat
  BY LastTakenFollows DEF HistoryInv, OwnRowsInv
<1>2. Total(stmt) \in Nat /\ RewindTarget \in Nat
  BY PageIsTyped DEF OwnRowsInv
<1>3. PICK p \in LastTaken .. Total(stmt) - 1 :
        /\ portal.pos = AfterFetch(p, paging, Total(stmt))
        /\ ~Fits(stmt, p + 1, FetchEnd(p, paging, Total(stmt)))
  BY DEF HistoryInv, NextIsBehind
<1>4. p \in Nat /\ p < Total(stmt) /\ p >= LastTaken
  BY <1>1, <1>2
<1>5. RewindTarget = p
  BY <1>3, <1>4, RewindMeetsPage
<1>6. MovedTo(RewindTarget).pos = RewindTarget
  BY <1>2, MovedToIsTyped DEF OwnRowsInv, TypeOK
<1>. QED BY <1>2, <1>4, <1>5, <1>6

LEMMA RewoundKeepsHistory ==
  ASSUME NoTailOverflow, OwnRowsInv, HistoryInv, FetchStep, latest # Lost, Rewound
  PROVE  OutAscends' /\ NextIsBehind'
<1>1. portal'.pos >= LastTaken
  BY RewindKeepsBehind DEF Rewound
<1>2. out' = out /\ latest' = latest /\ pc' = "fetch" /\ ~HasBufferedRow'
  BY QuietStep
  DEF Rewound, GoTo, history, EmptyBuffer, Buffer, HasBufferedRow, OwnRowsInv
<1>. QED BY <1>1, <1>2, SameLastTaken, NextIsBehindEmptyBuffer DEF HistoryInv

LEMMA FetchStepsKeepHistory ==
  ASSUME OwnRowsInv, HistoryInv, FetchStep, latest # Lost,
         PopRow \/ NextPage \/ FetchDone
  PROVE  OutAscends' /\ NextIsBehind'
<1>. USE DEF OwnRowsInv
<1>1. latest \in Nat /\ OutAscends /\ NextIsBehind
  BY DEF HistoryInv
<1>2. /\ LastTaken \in Nat /\ latest <= LastTaken
      /\ \A i \in DOMAIN out : out[i][2] \in Nat /\ out[i][2] <= LastTaken
  BY <1>1, LastTakenFollows
<1>3. CASE PopRow
  <2>1. /\ unread.from \in Nat /\ unread.to \in Nat /\ unread.from <= unread.to
        /\ unread.from > LastTaken
        /\ unread'.from = unread.from + 1 /\ unread'.to = unread.to
        /\ unread.of \in Stmts
    BY <1>1, <1>3
    DEF PopRow, HasBufferedRow, OfThisStatement, NextIsBehind, TypeOK, ObjectOK
  <2>2. latest' = latest /\ portal' = portal /\ pc' = "pop"
    BY <1>3, QuietStep DEF PopRow, history, server
  <2>3. Row(unread.of, unread.from) \in Rows
        /\ Row(unread.of, unread.from)[2] = unread.from
    BY <2>1 DEF Row, Rows
  <2>4. /\ Len(out) \in Nat /\ DOMAIN out = 1 .. Len(out)
        /\ Len(out') = Len(out) + 1 /\ DOMAIN out' = 1 .. Len(out) + 1
        /\ \A i \in 1 .. Len(out) : out'[i] = out[i]
        /\ out'[Len(out) + 1][2] = unread.from
    <3>1. out \in Seq(Rows)
      BY DEF TypeOK, CallOK
    <3>. QED BY <1>3, <2>3, <3>1, AppendProperties, LenProperties DEF PopRow
  <2>5. LastTaken' = unread.from
    <3>1. out' # <<>>
      BY <2>4
    <3>. QED BY <2>4, <3>1 DEF LastTaken
  <2>6. OutAscends'
    <3>1. ASSUME NEW i \in 1 .. Len(out) + 1
          PROVE  /\ out'[i][2] > latest
                 /\ \A j \in 1 .. Len(out) + 1 : i < j => out'[i][2] < out'[j][2]
      <4>1. CASE i = Len(out) + 1
        BY <1>1, <1>2, <2>1, <2>4, <4>1
      <4>2. CASE i \in 1 .. Len(out)
        <5>1. out'[i] = out[i] /\ out[i][2] \in Nat /\ out[i][2] <= LastTaken
              /\ out[i][2] > latest
          BY <1>1, <1>2, <2>4, <4>2 DEF OutAscends
        <5>2. ASSUME NEW j \in 1 .. Len(out) + 1, i < j
              PROVE  out'[i][2] < out'[j][2]
          <6>1. CASE j = Len(out) + 1
            BY <1>2, <2>1, <2>4, <5>1, <6>1
          <6>2. CASE j \in 1 .. Len(out)
            BY <1>1, <2>4, <4>2, <5>2, <6>2 DEF OutAscends
          <6>. QED BY <2>4, <6>1, <6>2
        <5>. QED BY <5>1, <5>2
      <4>. QED BY <2>4, <4>1, <4>2
    <3>. QED BY <2>2, <2>4, <3>1 DEF OutAscends
  <2>7. PortalIsOpen => portal.pos >= unread.to /\ portal.pos \in Nat
    BY <1>1, <1>3, PageIsTyped DEF PopRow, NextIsBehind
  <2>8. NextIsBehind'
    BY <2>1, <2>2, <2>5, <2>7 DEF NextIsBehind, HasBufferedRow, PortalIsOpen
  <2>. QED BY <2>6, <2>8
<1>4. CASE NextPage
  <2>1. /\ latest' = latest /\ out' = out /\ pc' = "fetch"
        /\ UNCHANGED <<unread, portal>>
    BY <1>4, QuietStep DEF NextPage, GoTo, object, server, history
  <2>. QED BY <1>1, <2>1, SameLastTaken
    DEF NextIsBehind, HasBufferedRow, PortalIsOpen
<1>5. CASE FetchDone
  <2>1. PICK isShort \in BOOLEAN : ReturnRows(isShort)
    BY <1>5 DEF FetchDone
  <2>2. /\ latest' = LastTaken /\ out' = <<>> /\ pc' = "idle"
        /\ UNCHANGED <<unread, portal>>
    BY <1>1, <1>5, <2>1, ReturningStep
    DEF FetchDone, ReturnRows, CallOver, object, server
  <2>. QED BY <1>1, <2>2, NoneTaken
    DEF NextIsBehind, HasBufferedRow, PortalIsOpen
<1>. QED BY <1>3, <1>4, <1>5

LEMMA FaultsKeepHistory ==
  ASSUME NoTailOverflow, OwnRowsInv, OwnRowsInv', HistoryInv, FetchStep,
         latest # Lost,
         \/ Resuming \/ NoAnswer \/ TxEnds \/ ExecuteRefused \/ DeclareRefused
         \/ PageRefused \/ RewindRefused
  PROVE  OutAscends' /\ NextIsBehind'
<1>. USE DEF OwnRowsInv
<1>1. latest \in Nat /\ OutAscends /\ NextIsBehind
  BY DEF HistoryInv
<1>2. LastTaken \in Nat
  BY <1>1, LastTakenFollows
<1>3. PortalIsOpen' => portal'.pos \in Nat
  BY DEF TypeOK, ServerOK
<1>4. OnTheWire => ~HasBufferedRow
  BY DEF OfThisStatement
<1>5. CASE /\ ExecuteRefused \/ DeclareRefused \/ PageRefused \/ RewindRefused
              \/ (Resuming /\ Raise("resuming") /\ UNCHANGED <<object, server>>)
  <2>1. OnTheWire /\ unread' = unread
    BY <1>5
    DEF ExecuteRefused, DeclareRefused, PageRefused, RewindRefused, Resuming,
        OnTheWire, object
  <2>2. PortalIsOpen' => portal' = portal /\ PortalIsOpen
    BY <1>5
    DEF ExecuteRefused, DeclareRefused, PageRefused, RewindRefused, EndTx,
        PortalIsOpen, server
  <2>3. PICK kind \in Outcomes : Raise(kind)
    BY <1>5
    DEF ExecuteRefused, DeclareRefused, PageRefused, RewindRefused, Outcomes
  <2>4. PortalIsOpen' => portal'.pos >= LastTaken
    BY <1>1, <2>2 DEF NextIsBehind
  <2>. QED BY <1>3, <1>4, <2>1, <2>3, <2>4, RaiseKeepsHistory
<1>6. CASE Resuming /\ StartBody /\ handed' = handed
  <2>1. out' = <<>> /\ ~HasBufferedRow' /\ ~PortalIsOpen' /\ pc' = "execute"
    BY <1>6
    DEF StartBody, BufferAtExecute, EmptyBuffer, Buffer, HasBufferedRow,
        PortalIsOpen
  <2>. QED BY <2>1, NoneTaken, NextIsBehindEmptyBuffer
<1>7. CASE NoAnswer
  <2>1. /\ PortalIsOpen /\ pc = "fetch" =>
             /\ MovedTo(PastPage).pos = PastPage
             /\ PastPage >= portal.pos /\ portal.pos >= LastTaken
             /\ PastPage \in Nat /\ portal.pos \in Nat
    <3>. SUFFICES ASSUME PortalIsOpen, pc = "fetch"
                  PROVE  /\ MovedTo(PastPage).pos = PastPage
                         /\ PastPage >= portal.pos /\ portal.pos >= LastTaken
                         /\ PastPage \in Nat /\ portal.pos \in Nat
      OBVIOUS
    <3>1. /\ portal.of = stmt /\ portal.pos \in Nat /\ Total(stmt) \in Nat
          /\ portal.pos <= Total(stmt) + 1 /\ paging \in Nat \ {0}
          /\ PastPage \in Nat
      BY PageIsTyped
    <3>2. PastPage >= portal.pos
      BY <3>1 DEF PastPage, AfterFetch, Clamped, Lesser
    <3>3. MovedTo(PastPage).pos = PastPage
      BY <3>1, MovedToIsTyped DEF TypeOK
    <3>. QED BY <1>1, <3>1, <3>2, <3>3 DEF NextIsBehind
  <2>2. \/ portal' = portal
        \/ pc = "fetch" /\ PortalIsOpen /\ portal' = MovedTo(PastPage)
        \/ pc = "rewind" /\ PortalIsOpen /\ portal' = MovedTo(RewindTarget)
    BY <1>7 DEF NoAnswer, server
  <2>3. PortalIsOpen' => portal'.pos >= LastTaken
    <3>1. CASE portal' = portal
      BY <1>1, <3>1 DEF NextIsBehind, PortalIsOpen
    <3>2. CASE pc = "fetch" /\ PortalIsOpen /\ portal' = MovedTo(PastPage)
      BY <1>2, <2>1, <3>2
    <3>3. CASE pc = "rewind" /\ PortalIsOpen /\ portal' = MovedTo(RewindTarget)
      BY <3>3, RewindKeepsBehind
    <3>. QED BY <2>2, <3>1, <3>2, <3>3
  <2>4. unread' = unread /\ OnTheWire /\ Raise("noAnswer")
    BY <1>7 DEF NoAnswer, object
  <2>. QED BY <1>3, <1>4, <2>3, <2>4, RaiseKeepsHistory
<1>8. CASE TxEnds
  <2>1. /\ latest' = latest /\ out' = out /\ unread' = unread
        /\ ~PortalIsOpen'
    BY <1>8, QuietStep DEF TxEnds, EndTx, call, object, PortalIsOpen
  <2>. QED BY <1>1, <2>1, SameLastTaken DEF NextIsBehind, HasBufferedRow
<1>. QED BY <1>5, <1>6, <1>7, <1>8 DEF Resuming

LEMMA FetchStepKeepsHistory ==
  ASSUME NoTailOverflow, OwnRowsInv, OwnRowsInv', HistoryInv, FetchStep
  PROVE  HistoryInv'
<1>1. (pc \in {"execute", "declare"} \/ FetchingForExecute => latest = 0)'
  BY ExecuteReturnsNothing
<1>2. CASE latest = Lost
  BY <1>1, <1>2 DEF FetchStep, HistoryInv
<1>3. CASE latest # Lost
  <2>1. OutAscends' /\ NextIsBehind'
    BY <1>3, ExecuteStepsKeepHistory, PageStepsKeepHistory, RewoundKeepsHistory,
       FetchStepsKeepHistory, FaultsKeepHistory
    DEF FetchStep, DriverStep
  <2>2. latest' \in Nat \cup {Lost}
    <3>1. latest \in Nat /\ LastTaken \in Nat
      BY <1>3, LastTakenFollows DEF HistoryInv, OwnRowsInv
    <3>2. latest' \in {latest, LastTaken}
      BY <3>1, StepReturns, QuietStep, ReturningStep DEF HistoryNext, OwnRowsInv
    <3>. QED BY <3>1, <3>2
  <2>. QED BY <1>1, <2>1, <2>2 DEF HistoryInv
<1>. QED BY <1>2, <1>3

LEMMA HistoryIsOfCursor == HistorySpec => Spec
<1>1. HistoryInit => Init
  BY DEF HistoryInit
<1>2. [HistoryNext]_<<vars, latest>> => [Next]_vars
  BY DEF HistoryNext, ScrollStep, FetchStep, Next, UserStep
<1>. QED BY <1>1, <1>2, PTL DEF HistorySpec, Spec

THEOREM HistoryInvAlways ==
  ASSUME NoTailOverflow PROVE HistorySpec => []HistoryInv
<1>1. HistoryInit => HistoryInv
  <2>. SUFFICES ASSUME HistoryInit PROVE HistoryInv
    OBVIOUS
  <2>1. /\ latest = 0 /\ out = <<>> /\ ~HasBufferedRow /\ ~PortalIsOpen
    BY DEF HistoryInit, Init, EmptyBuffer, Buffer, HasBufferedRow, PortalIsOpen
  <2>. QED BY <2>1 DEF HistoryInv, OutAscends, NextIsBehind
<1>2. HistoryInv /\ OwnRowsInv /\ OwnRowsInv' /\ [HistoryNext]_<<vars, latest>>
        => HistoryInv'
  <2>1. ASSUME HistoryInv, UNCHANGED <<vars, latest>> PROVE HistoryInv'
    <3>1. UNCHANGED <<unread, portal, pc, stmt, want, out, paging, latest>>
      BY <2>1 DEF vars, object, call, server
    <3>2. LastTaken' = LastTaken /\ (OutAscends => OutAscends')
      BY <3>1, SameLastTaken
    <3>. QED BY <2>1, <3>1, <3>2
      DEF HistoryInv, NextIsBehind, FetchingForExecute, InExecute,
          HasBufferedRow, PortalIsOpen
  <2>. QED BY <2>1, NoTailOverflow, UserStepKeepsHistory, FetchStepKeepsHistory
    DEF HistoryNext
<1>. QED BY <1>1, <1>2, HistoryIsOfCursor, OwnRowsAlways, PTL DEF HistorySpec

(* A caller who goes on after errors is never given a row again: what was    *)
(* lost with a call is missing, what comes is behind what was there.         *)
THEOREM RowsNeverComeAgain ==
  ASSUME NoTailOverflow PROVE HistorySpec => NeverAgain
<1>1. ASSUME OwnRowsInv, HistoryInv, [HistoryNext]_<<vars, latest>>,
             latest # Lost, NEW i \in Returned
      PROVE  handed'[i][2] > IF i = Len(handed) + 1 THEN latest
                                                    ELSE handed'[i - 1][2]
  <2>1. latest \in Nat /\ OutAscends
    BY <1>1 DEF HistoryInv
  <2>2. PICK isShort \in BOOLEAN : ReturnRows(isShort)
    BY <1>1, StepReturns, NothingReturned DEF OwnRowsInv
  <2>3. /\ Len(handed) \in Nat /\ Len(out) \in Nat
        /\ Returned = Len(handed) + 1 .. Len(handed) + Len(out)
        /\ \A k \in 1 .. Len(out) : handed'[Len(handed) + k] = out[k]
    BY <1>1, <2>2, ReturnedRows DEF OwnRowsInv
  <2>4. /\ DOMAIN out = 1 .. Len(out)
        /\ \A k \in DOMAIN out : out[k][2] \in Nat
    BY <1>1, <2>1, LastTakenFollows, LenProperties DEF OwnRowsInv, TypeOK, CallOK
  <2>5. PICK k \in 1 .. Len(out) : i = Len(handed) + k
    <3>1. i - Len(handed) \in 1 .. Len(out)
          /\ i = Len(handed) + (i - Len(handed))
      BY <1>1, <2>3
    <3>. QED BY <3>1
  <2>6. handed'[i] = out[k]
    BY <2>3, <2>5
  <2>7. CASE k = 1
    BY <2>1, <2>3, <2>4, <2>5, <2>6, <2>7 DEF OutAscends
  <2>8. CASE k > 1
    <3>1. k - 1 \in 1 .. Len(out) /\ i - 1 = Len(handed) + (k - 1)
          /\ i # Len(handed) + 1 /\ k - 1 < k
      BY <2>3, <2>5, <2>8
    <3>2. handed'[i - 1] = out[k - 1]
      BY <2>3, <3>1
    <3>3. out[k - 1][2] < out[k][2]
      BY <2>1, <2>4, <3>1 DEF OutAscends
    <3>. QED BY <2>4, <2>6, <3>1, <3>2, <3>3
  <2>. QED BY <2>3, <2>5, <2>7, <2>8
<1>2. OwnRowsInv /\ HistoryInv /\ [HistoryNext]_<<vars, latest>>
        => [latest # Lost =>
              \A i \in Returned :
                handed'[i][2] > IF i = Len(handed) + 1
                                THEN latest ELSE handed'[i - 1][2]]_<<vars, latest>>
  BY <1>1
<1>. QED
  BY <1>2, HistoryInvAlways, HistoryIsOfCursor, OwnRowsAlways, PTL
  DEF HistorySpec, NeverAgain
-----------------------------------------------------------------------------
(* The end of a call.                                                        *)

LEMMA RankCountsDown ==
  ASSUME NEW a1 \in Nat, NEW a2 \in Nat, NEW a3 \in Nat, NEW a4 \in Nat,
         NEW a5 \in Nat, NEW a6 \in Nat, NEW a7 \in Nat,
         NEW b1 \in Nat, NEW b2 \in Nat, NEW b3 \in Nat, NEW b4 \in Nat,
         NEW b5 \in Nat, NEW b6 \in Nat, NEW b7 \in Nat,
         \/ b1 < a1
         \/ b1 <= a1 /\ b2 < a2
         \/ b1 <= a1 /\ b2 <= a2 /\ b3 < a3
         \/ b1 <= a1 /\ b2 <= a2 /\ b3 <= a3 /\ b4 < a4
         \/ b1 <= a1 /\ b2 <= a2 /\ b3 <= a3 /\ b4 <= a4 /\ b5 < a5
         \/ /\ b1 <= a1 /\ b2 <= a2 /\ b3 <= a3 /\ b4 <= a4 /\ b5 <= a5
            /\ b6 < a6
         \/ /\ b1 <= a1 /\ b2 <= a2 /\ b3 <= a3 /\ b4 <= a4 /\ b5 <= a5
            /\ b6 <= a6 /\ b7 < a7
  PROVE  Below(<<b1, b2, b3, b4, b5, b6, b7>>, <<a1, a2, a3, a4, a5, a6, a7>>)
<1>. DEFINE a == <<a1, a2, a3, a4, a5, a6, a7>>
            b == <<b1, b2, b3, b4, b5, b6, b7>>
<1>1. DOMAIN a = 1 .. 7
  OBVIOUS
<1>2. /\ a[1] = a1 /\ a[2] = a2 /\ a[3] = a3 /\ a[4] = a4 /\ a[5] = a5
      /\ a[6] = a6 /\ a[7] = a7
      /\ b[1] = b1 /\ b[2] = b2 /\ b[3] = b3 /\ b[4] = b4 /\ b[5] = b5
      /\ b[6] = b6 /\ b[7] = b7
  OBVIOUS
<1>3. \A k \in 1 .. 7 : k = 1 \/ k = 2 \/ k = 3 \/ k = 4 \/ k = 5 \/ k = 6 \/ k = 7
  OBVIOUS
<1>4. PICK k \in 1 .. 7 : b[k] < a[k] /\ \A j \in 1 .. 7 : j < k => b[j] <= a[j]
  <2>. HIDE DEF a, b
  <2>. QED BY <1>2, <1>3
<1>5. \A j \in 1 .. k - 1 : j \in 1 .. 7 /\ j < k
  BY <1>4
<1>6. \E n \in DOMAIN a : b[n] < a[n] /\ \A j \in 1 .. n - 1 : b[j] <= a[j]
  <2>. HIDE DEF a, b
  <2>. QED BY <1>1, <1>4, <1>5
<1>. QED BY <1>6 DEF Below

LEMMA RankIsNatInCalls == ASSUME OwnRowsInv PROVE RankIsNat
<1>. USE DEF OwnRowsInv
<1>1. Retries - attempt \in Nat
  BY ConstantsOK DEF TypeOK, CallOK
<1>2. StepsOfExecute \in Nat
  BY DEF StepsOfExecute
<1>3. paging \in Nat
  BY ConstantsOK DEF TypeOK, ObjectOK
<1>4. RowsAhead \in Nat
  <2>1. CASE PortalIsOpen
    <3>1. portal.of \in Stmts /\ portal.pos \in Positions(Total(portal.of))
      BY <2>1 DEF OfThisStatement
    <3>2. Total(portal.of) \in Nat
      BY <3>1, TotalIsNat
    <3>. QED BY <2>1, <3>1, <3>2 DEF Positions, RowsAhead
  <2>. QED BY <2>1 DEF RowsAhead
<1>5. RowsBuffered \in Nat
  BY DEF RowsBuffered, HasBufferedRow, TypeOK, ObjectOK
<1>. QED BY <1>1, <1>2, <1>3, <1>4, <1>5 DEF Rank, RankIsNat

(* The part of the rank that a step makes smaller, and those before it.      *)
LEMMA RankIsBelow ==
  ASSUME OwnRowsInv, OwnRowsInv', RankIsNat, RankIsNat',
         \/ attempt' > attempt
         \/ /\ attempt' = attempt
            /\ StepsOfExecute' < StepsOfExecute
         \/ /\ attempt' = attempt /\ StepsOfExecute' = StepsOfExecute
            /\ paging' < paging
         \/ /\ attempt' = attempt /\ StepsOfExecute' = StepsOfExecute
            /\ paging' = paging /\ RowsAhead' < RowsAhead
         \/ /\ attempt' = attempt /\ StepsOfExecute' = StepsOfExecute
            /\ paging' = paging /\ RowsAhead' = RowsAhead
            /\ \/ RowsBuffered' < RowsBuffered
               \/ RowsBuffered' = RowsBuffered /\ pc = "pop" /\ pc' # "pop"
         \/ /\ attempt' = attempt /\ StepsOfExecute' = StepsOfExecute
            /\ paging' = paging /\ RowsAhead' <= RowsAhead
            /\ RowsBuffered' = RowsBuffered /\ pc' = pc
            /\ tx = "open" /\ tx' # "open"
  PROVE  Below(Rank', Rank)
<1>. DEFINE a1 == Retries - attempt
            b1 == Retries - attempt'
            a2 == StepsOfExecute
            b2 == StepsOfExecute'
            a4 == RowsAhead
            b4 == RowsAhead'
            a5 == RowsBuffered
            b5 == RowsBuffered'
            a6 == IF pc = "pop" THEN 1 ELSE 0
            b6 == IF pc' = "pop" THEN 1 ELSE 0
            a7 == IF tx = "open" THEN 1 ELSE 0
            b7 == IF tx' = "open" THEN 1 ELSE 0
<1>1. /\ a1 \in Nat /\ a2 \in Nat /\ paging \in Nat /\ a4 \in Nat
      /\ a5 \in Nat /\ a6 \in Nat /\ a7 \in Nat
  BY DEF RankIsNat, Rank
<1>2. /\ b1 \in Nat /\ b2 \in Nat /\ paging' \in Nat /\ b4 \in Nat
      /\ b5 \in Nat /\ b6 \in Nat /\ b7 \in Nat
  BY DEF RankIsNat, Rank
<1>3. Retries \in Nat /\ attempt \in Nat /\ attempt' \in Nat
  BY ConstantsOK DEF OwnRowsInv, TypeOK, CallOK
<1>4. /\ Rank = <<a1, a2, paging, a4, a5, a6, a7>>
      /\ Rank' = <<b1, b2, paging', b4, b5, b6, b7>>
  BY DEF Rank
<1>5. /\ attempt' > attempt => b1 < a1
      /\ attempt' = attempt => b1 <= a1
  <2>1. \A n, m \in Nat : m > n => Retries - m < Retries - n
    BY <1>3
  <2>2. Retries - attempt <= Retries - attempt
    BY <1>3
  <2>. QED BY <1>3, <2>1, <2>2
<1>6. /\ pc = "pop" /\ pc' # "pop" => b6 < a6
      /\ pc' = pc => b6 <= a6
      /\ tx = "open" /\ tx' # "open" => b7 < a7
  OBVIOUS
<1>7. \/ b1 < a1
      \/ b1 <= a1 /\ b2 < a2
      \/ b1 <= a1 /\ b2 <= a2 /\ paging' < paging
      \/ b1 <= a1 /\ b2 <= a2 /\ paging' <= paging /\ b4 < a4
      \/ b1 <= a1 /\ b2 <= a2 /\ paging' <= paging /\ b4 <= a4 /\ b5 < a5
      \/ /\ b1 <= a1 /\ b2 <= a2 /\ paging' <= paging /\ b4 <= a4 /\ b5 <= a5
         /\ b6 < a6
      \/ /\ b1 <= a1 /\ b2 <= a2 /\ paging' <= paging /\ b4 <= a4 /\ b5 <= a5
         /\ b6 <= a6 /\ b7 < a7
  <2>. HIDE DEF a1, b1, a6, b6, a7, b7
  <2>. QED BY <1>1, <1>2, <1>5, <1>6
<1>8. Below(<<b1, b2, paging', b4, b5, b6, b7>>,
            <<a1, a2, paging, a4, a5, a6, a7>>)
  <2>. HIDE DEF a1, b1, a2, b2, a4, b4, a5, b5, a6, b6, a7, b7
  <2>. QED BY <1>1, <1>2, <1>7, RankCountsDown
<1>. QED BY <1>4, <1>8

LEMMA StepCountsDown ==
  ASSUME OwnRowsInv, OwnRowsInv', RankIsNat, RankIsNat', Next,
         pc # "idle", pc' # "idle"
  PROVE  Below(Rank', Rank)
<1>. USE DEF OwnRowsInv
<1>1. CASE UserStep
  BY <1>1 DEF UserStep, Execute, Fetch, Scroll, Close, call
<1>2. CASE Resuming
  <2>1. attempt' = attempt + 1 /\ attempt \in Nat
    BY <1>2, ConstantsOK DEF Resuming, Raise, CallOver, TypeOK, CallOK
  <2>. QED BY <2>1, RankIsBelow
<1>3. CASE ExecuteTooLarge
  <2>1. attempt' = attempt /\ pc = "execute" /\ pc' = "declare"
    BY <1>3 DEF ExecuteTooLarge, GoTo
  <2>2. StepsOfExecute' < StepsOfExecute
    BY <2>1 DEF StepsOfExecute
  <2>. QED BY <2>1, <2>2, RankIsBelow
<1>4. CASE Declared
  <2>1. /\ attempt' = attempt /\ second' = second
        /\ pc = "declare" /\ pc' = "fetch"
    BY <1>4 DEF Declared, GoTo
  <2>2. StepsOfExecute' < StepsOfExecute
    BY <2>1 DEF StepsOfExecute
  <2>. QED BY <2>1, <2>2, RankIsBelow
<1>5. CASE PageTooLarge
  <2>1. CASE pc' = "declare"
    <3>1. attempt' = attempt /\ pc = "fetch" /\ second = FALSE /\ second' = TRUE
      BY <1>5, <2>1 DEF PageTooLarge, GoTo, Raise, CallOver, TypeOK, CallOK
    <3>2. StepsOfExecute' < StepsOfExecute
      BY <2>1, <3>1 DEF StepsOfExecute
    <3>. QED BY <3>1, <3>2, RankIsBelow
  <2>2. CASE GoTo("rewind")
    <3>1. /\ attempt' = attempt /\ second' = second /\ paging' = paging
          /\ pc = "fetch" /\ pc' = "rewind"
      BY <1>5, <2>2 DEF PageTooLarge, GoTo, object
    <3>2. StepsOfExecute' = StepsOfExecute
      BY <3>1 DEF StepsOfExecute
    <3>3. /\ stmt \in Stmts /\ portal.of = stmt /\ portal.pos \in Nat
          /\ Total(stmt) \in Nat /\ PastPage \in Nat
          /\ PastPage \in Positions(Total(stmt))
          /\ paging \in Nat \ {0} /\ PageTo > portal.pos
          /\ PageTo \in Nat
      BY <1>5, PageIsTyped DEF PageTooLarge, PageFits
    <3>4. PastPage > portal.pos /\ portal.pos < Total(stmt)
      BY <3>3
      DEF PageTo, PastPage, FetchEnd, AfterFetch, Clamped, Lesser, Positions
    <3>5. RowsAhead = Total(stmt) + 1 - portal.pos
      BY <1>5, <3>3 DEF RowsAhead, PageTooLarge
    <3>6. RowsAhead' = 0 \/ RowsAhead' = Total(stmt) + 1 - PastPage
      <4>1. /\ MovedTo(PastPage).of = stmt /\ MovedTo(PastPage).pos = PastPage
        BY <3>3, MovedToIsTyped DEF TypeOK
      <4>2. CASE portal' = NoPortal
        BY <4>2 DEF RowsAhead, PortalIsOpen
      <4>3. CASE portal' = MovedTo(PastPage)
        BY <4>1, <4>3 DEF RowsAhead, PortalIsOpen
      <4>. QED BY <1>5, <4>2, <4>3 DEF PageTooLarge, TooLarge, EndTx
    <3>7. RowsAhead' < RowsAhead
      BY <3>3, <3>4, <3>5, <3>6
    <3>. QED BY <3>1, <3>2, <3>7, RankIsBelow
  <2>. QED BY <1>5, <2>1, <2>2 DEF PageTooLarge, Raise, CallOver
<1>6. CASE PageServed
  <2>1. /\ attempt' = attempt /\ second' = second /\ paging' = paging
        /\ pc = "fetch" /\ pc' = "pop" /\ portal.pos + 1 <= PageTo
        /\ portal' = MovedTo(PastPage) /\ PortalIsOpen
    BY <1>6 DEF PageServed, Raise, Return, ReturnRows, CallOver, GoTo
  <2>2. StepsOfExecute' = StepsOfExecute
    BY <2>1 DEF StepsOfExecute
  <2>3. /\ stmt \in Stmts /\ portal.of = stmt /\ portal.pos \in Nat
        /\ Total(stmt) \in Nat /\ PastPage \in Nat
        /\ PastPage \in Positions(Total(stmt))
        /\ paging \in Nat \ {0} /\ PageTo \in Nat
    BY <2>1, PageIsTyped
  <2>4. PastPage > portal.pos /\ portal.pos < Total(stmt)
    BY <2>1, <2>3
    DEF PageTo, PastPage, FetchEnd, AfterFetch, Clamped, Lesser, Positions
  <2>5. RowsAhead' < RowsAhead
    <3>1. /\ MovedTo(PastPage).of = stmt /\ MovedTo(PastPage).pos = PastPage
          /\ MovedTo(PastPage) # NoPortal
      BY <2>3, MovedToIsTyped, ConstantsOK DEF TypeOK, NoPortal
    <3>2. RowsAhead' = Total(stmt) + 1 - PastPage
      BY <2>1, <3>1 DEF RowsAhead, PortalIsOpen
    <3>3. RowsAhead = Total(stmt) + 1 - portal.pos
      BY <2>1, <2>3 DEF RowsAhead
    <3>. QED BY <2>3, <2>4, <3>2, <3>3
  <2>. QED BY <2>1, <2>2, <2>5, RankIsBelow
<1>7. CASE Rewound
  <2>1. /\ attempt' = attempt /\ second' = second /\ paging' = SmallerPage
        /\ pc = "rewind" /\ pc' = "fetch"
    BY <1>7 DEF Rewound, GoTo
  <2>2. StepsOfExecute' = StepsOfExecute
    BY <2>1 DEF StepsOfExecute
  <2>3. paging \in Nat /\ paging > 1
    BY <2>1, ConstantsOK DEF OfThisStatement, TypeOK, ObjectOK
  <2>4. paging' < paging
    BY <2>1, <2>3 DEF SmallerPage, AtLeastOne
  <2>. QED BY <2>1, <2>2, <2>4, RankIsBelow
<1>8. CASE PopRow
  <2>1. /\ attempt' = attempt /\ second' = second /\ paging' = paging
        /\ portal' = portal /\ pc = "pop" /\ pc' = "pop" /\ HasBufferedRow
    BY <1>8 DEF PopRow, server
  <2>2. StepsOfExecute' = StepsOfExecute /\ RowsAhead' = RowsAhead
    BY <2>1 DEF StepsOfExecute, RowsAhead, PortalIsOpen
  <2>3. /\ unread.from \in Nat /\ unread.to \in Nat /\ unread.from <= unread.to
        /\ unread'.from = unread.from + 1 /\ unread'.to = unread.to
    BY <1>8 DEF PopRow, HasBufferedRow, TypeOK, ObjectOK
  <2>4. RowsBuffered' < RowsBuffered
    BY <2>3 DEF RowsBuffered, HasBufferedRow
  <2>. QED BY <2>1, <2>2, <2>4, RankIsBelow
<1>9. CASE NextPage
  <2>1. /\ attempt' = attempt /\ second' = second /\ paging' = paging
        /\ portal' = portal /\ unread' = unread /\ pc = "pop" /\ pc' = "fetch"
    BY <1>9 DEF NextPage, GoTo, object, server
  <2>2. /\ StepsOfExecute' = StepsOfExecute /\ RowsAhead' = RowsAhead
        /\ RowsBuffered' = RowsBuffered
    BY <2>1
    DEF StepsOfExecute, RowsAhead, PortalIsOpen, RowsBuffered, HasBufferedRow
  <2>. QED BY <2>1, <2>2, RankIsBelow
<1>10. CASE TxEnds
  <2>1. /\ attempt' = attempt /\ second' = second /\ paging' = paging
        /\ portal' = NoPortal /\ unread' = unread /\ pc' = pc
        /\ tx = "open" /\ tx' # "open"
    BY <1>10 DEF TxEnds, EndTx, object, call
  <2>2. StepsOfExecute' = StepsOfExecute /\ RowsBuffered' = RowsBuffered
    BY <2>1 DEF StepsOfExecute, RowsBuffered, HasBufferedRow
  <2>3. RowsAhead' = 0 /\ RowsAhead \in Nat
    BY <2>1 DEF RowsAhead, PortalIsOpen, RankIsNat, Rank
  <2>4. RowsAhead' <= RowsAhead
    BY <2>3
  <2>. QED BY <2>1, <2>2, <2>4, RankIsBelow
<1>11. CASE ExecuteServed \/ ExecuteRefused \/ DeclareRefused \/ PageRefused
            \/ RewindRefused \/ FetchDone \/ NoAnswer
  BY <1>11
  DEF ExecuteServed, ExecuteRefused, DeclareRefused, PageRefused, RewindRefused,
      FetchDone, NoAnswer, Raise, Return, ReturnRows, CallOver
<1>. QED
  BY <1>1, <1>2, <1>3, <1>4, <1>5, <1>6, <1>7, <1>8, <1>9, <1>10, <1>11
  DEF Next, DriverStep

(* For all sizes, faults and retries: no call goes round in circles. That it *)
(* returns follows where its steps are taken at all (DriverStep is fair).    *)
THEOREM CallsAreFinite == Spec => CallsRunDown
<1>1. OwnRowsInv => RankIsNat
  BY RankIsNatInCalls
<1>2. /\ OwnRowsInv /\ OwnRowsInv' /\ RankIsNat /\ RankIsNat' /\ [Next]_vars
      => [pc # "idle" /\ pc' # "idle" => RankIsNat' /\ Below(Rank', Rank)]_vars
  BY StepCountsDown
<1>. QED BY <1>1, <1>2, OwnRowsAlways, PTL DEF Spec, CallsRunDown
=============================================================================
