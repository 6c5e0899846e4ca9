--------------------------- MODULE CursorHistory ----------------------------
(***************************************************************************)
(* PagedCursor with a history that a call which raises does not forget, to *)
(* state what a caller may rely on who goes on fetching after an error.    *)
(***************************************************************************)
EXTENDS PagedCursor

VARIABLE latest   (* the number of the row returned last since execute or  *)
                  (* scroll, Lost after a scroll without an answer         *)

Lost == -1

HistoryInit == Init /\ latest = 0

(* Behind a scroll that got no answer the position may be anywhere, and the*)
(* buffer is that of before.                                               *)
ScrollStep(n, mode) ==
  /\ Scroll(n, mode)
  /\ latest' = IF outcome' = "noAnswer" THEN Lost
               ELSE IF outcome' = "ok"  THEN 0
               ELSE latest

Returned == Len(handed) + 1 .. Len(handed')

FetchStep ==
  /\ (\E n \in Wants \cup {All} : Fetch(n)) \/ DriverStep \/ TxEnds
  /\ latest' = IF Returned = {} \/ latest = Lost THEN latest
               ELSE handed'[Len(handed')][2]

HistoryNext ==
  \/ /\ (\E s \in Stmts : Execute(s)) \/ Close
     /\ latest' = 0
  \/ \E n \in Moves, mode \in {"relative", "absolute"} : ScrollStep(n, mode)
  \/ FetchStep

HistorySpec == HistoryInit /\ [][HistoryNext]_<<vars, latest>>

-----------------------------------------------------------------------------
(* A row is never returned again, in the order of the rows, also by a      *)
(* caller who goes on fetching after calls that raised: a page that was    *)
(* sent but not answered, or collected and lost, is missing, not repeated. *)
NeverAgain ==
  [][latest # Lost =>
       \A i \in Returned :
         handed'[i][2] > IF i = Len(handed) + 1 THEN latest
                                                ELSE handed'[i - 1][2]]_<<vars, latest>>

-----------------------------------------------------------------------------
(* Why it holds, proved in PagedCursorProofs.                              *)

(* The number of the row the caller or the call in progress took last.     *)
LastTaken == IF out = <<>> THEN latest ELSE out[Len(out)][2]

OutAscends ==
  /\ \A i \in DOMAIN out : out[i][2] > latest
  /\ \A i, j \in DOMAIN out : i < j => out[i][2] < out[j][2]

(* What the buffer holds and what the server sends next is behind it, also *)
(* after the rewind of a page that was too large.                          *)
NextIsBehind ==
  /\ HasBufferedRow => /\ unread.from > LastTaken
                       /\ PortalIsOpen => portal.pos >= unread.to
  /\ PortalIsOpen =>
       /\ portal.pos >= LastTaken
       /\ pc = "rewind" =>
            \E p \in LastTaken .. Total(stmt) - 1 :
              /\ portal.pos = AfterFetch(p, paging, Total(stmt))
              /\ ~Fits(stmt, p + 1, FetchEnd(p, paging, Total(stmt)))

HistoryInv ==
  /\ latest \in Nat \cup {Lost}
  /\ pc \in {"execute", "declare"} \/ FetchingForExecute => latest = 0
  /\ latest # Lost => OutAscends /\ NextIsBehind
=============================================================================
