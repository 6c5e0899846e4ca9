---------------------------- MODULE AsyncCursor -----------------------------
(***************************************************************************)
(* AsyncAuroraDataAPICursor (aurora_data_api/async_driver.py), driven by   *)
(* one task.  Its methods are those of the sync cursor with an await in    *)
(* front of every call of the Data API, so the steps are those of          *)
(* PagedCursor; a task cancelled in an await leaves like one whose call got*)
(* no answer (NoAnswer, and the last disjunct of Scroll).                  *)
(*                                                                         *)
(* What differs is execute's handling of a page the Data API refuses for   *)
(* another reason than its size, such as a value of an unsupported type.   *)
(***************************************************************************)
EXTENDS PagedCursor

CONSTANT
  Unsupported   (* Unsupported[s]: the rows the Data API cannot return     *)

ASSUME UnsupportedOK == \A s \in Stmts : Unsupported[s] \subseteq 1 .. Total(s)

HasUnsupported(s, a, b) == Unsupported[s] \cap (a .. b) # {}

-----------------------------------------------------------------------------
(* execute and the fallback.                                               *)

AsyncExecute(s) == Execute(s)

AsyncServed ==
  /\ pc = "execute" /\ ~HasUnsupported(stmt, 1, Total(stmt))
  /\ ExecuteServed

(* Refused for its size, for a value (raised as it is), or by the database.*)
AsyncNotServed ==
  \/ ExecuteTooLarge
  \/ ExecuteRefused
  \/ /\ pc = "execute" /\ tx # "dead"
     /\ HasUnsupported(stmt, 1, Total(stmt))
     /\ TooLarge(portal) /\ Raise("tooLarge")
     /\ UNCHANGED <<object, faulted>>

AsyncStart == Declared \/ DeclareRefused

-----------------------------------------------------------------------------
(* _fetch_next_page_into_buffer.                                           *)

PageHasUnsupported ==
  PortalIsOpen /\ HasUnsupported(portal.of, portal.pos + 1, PageTo)

(* Mutant: another refusal is swallowed for the fetch methods too.         *)
SwallowedInFetch == ~second

(* The handler of the first try asks for the size and has no else.         *)
Swallowed == InExecute /\ ~second

(* The server's position is behind the page it could not send.             *)
PageUnsupported ==
  /\ pc = "fetch" /\ PageHasUnsupported
  /\ TooLarge(MovedTo(PastPage))
  /\ UNCHANGED object
  /\ \/ Swallowed /\ Return
     \/ ~Swallowed /\ Raise("tooLarge") /\ UNCHANGED faulted

AsyncPage ==
  \/ ~PageHasUnsupported /\ PageServed
  \/ PageTooLarge
  \/ PageUnsupported
  \/ PageRefused
  \/ Rewound \/ RewindRefused

-----------------------------------------------------------------------------
(* The fetch methods, scroll and close.                                    *)

AsyncFetch(n) == Fetch(n)

AsyncNextRow == PopRow \/ NextPage \/ FetchDone

AsyncScroll(n, mode) == Scroll(n, mode)

AsyncClose == Close

-----------------------------------------------------------------------------
AsyncUserStep ==
  \/ \E s \in Stmts : AsyncExecute(s)
  \/ \E n \in Wants \cup {All} : AsyncFetch(n)
  \/ \E n \in Moves, mode \in {"relative", "absolute"} : AsyncScroll(n, mode)
  \/ AsyncClose

AsyncStep ==
  \/ AsyncServed \/ AsyncNotServed \/ AsyncStart
  \/ AsyncPage \/ AsyncNextRow
  \/ Resuming \/ NoAnswer

AsyncNext == AsyncUserStep \/ AsyncStep \/ TxEnds

AsyncSpec == Init /\ [][AsyncNext]_vars

-----------------------------------------------------------------------------
(* Properties.                                                             *)

Supported == stmt \in Stmts => Unsupported[stmt] = {}

(* Cancelled or not, the rows of a statement whose values are all supported*)
(* come in order and whole, as those of the sync cursor do.                *)
SupportedInOrder == Supported => RowsInOrder /\ ShortMeansEnd

(* Whatever execute swallowed, while no call raised at most the beginning  *)
(* of the result is missing: from the first row on that a fetch hands out, *)
(* the rows follow one another.                                            *)
OnlyHeadMissing ==
  clean => \A i \in 1 .. Len(handed) - 1 : handed[i + 1][2] = handed[i][2] + 1

-----------------------------------------------------------------------------
(* Why it holds, proved in AsyncCursorProofs.                              *)

(* Row n follows the row that was taken last, if one was.                  *)
Follows(n) == Taken = <<>> \/ Taken[Len(Taken)][2] + 1 = n

TakenInSuccession ==
  clean => \A i \in 1 .. Len(Taken) - 1 : Taken[i + 1][2] = Taken[i][2] + 1

(* So does the first row of the buffer, and the row behind the position of *)
(* the server; a page that is rewound began there.                         *)
NextInSuccession ==
  /\ clean /\ HasBufferedRow => Follows(unread.from)
  /\ clean /\ PortalIsOpen =>
       /\ pc \in {"idle", "pop", "fetch"} =>
            \/ portal.pos > Total(stmt)
            \/ IF HasBufferedRow THEN portal.pos = unread.to
                                 ELSE Follows(portal.pos + 1)
       /\ pc = "rewind" =>
            \E p \in 0 .. Total(stmt) - 1 :
              /\ Follows(p + 1)
              /\ portal.pos = AfterFetch(p, paging, Total(stmt))
              /\ ~Fits(stmt, p + 1, FetchEnd(p, paging, Total(stmt)))

HeadInv == OwnRowsInv /\ TakenInSuccession /\ NextInSuccession
=============================================================================
