--------------------------- MODULE SyncConnection ---------------------------
(***************************************************************************)
(* AuroraDataAPIClient (aurora_data_api/__init__.py): the transaction a    *)
(* connection holds.  One thread calls start_transaction, commit, rollback,*)
(* cursors' statements and the with statement; between two calls the       *)
(* server may give a transaction up.  Each action is one call together     *)
(* with its answer: nothing of the client can happen in between.           *)
(* The server is PostgreSQL: a statement that fails in a transaction       *)
(* aborts it, and the COMMIT of an aborted transaction rolls it back.  No  *)
(* statement is itself a COMMIT, ROLLBACK or SAVEPOINT.                    *)
(***************************************************************************)
EXTENDS Integers

CONSTANTS
  Txs,      (* bound: the transactions the server can begin              *)
  NoTx,     (* None, where a transaction id would be                     *)
  NoPlace,  (* the place of a statement without a transaction            *)
  Retries,  (* the number of delays of the retry decorator               *)
  Faults    (* the faults of the environment, see FaultKinds             *)

FaultKinds == {"refuse", "resuming", "noAnswer", "badStatus", "txEnds"}

ASSUME ConstantsOK ==
  /\ NoTx \notin Txs /\ NoPlace \notin Txs
  /\ Retries \in Nat
  /\ Faults \subseteq FaultKinds

VARIABLES
  id,       (* _transaction_id                                           *)
  status,   (* status[x]: what became of transaction x on the server     *)
  (* What the program has seen, for the properties. *)
  phase,    (* "in" a transaction, "ending" it after a commit that raised *)
  work,     (* where statements of phase "in" were or may have been done *)
  failed,   (* a statement has raised since the transaction began        *)
  excused,  (* transactions the client cannot know are open              *)
  last,     (* the last call that ended a transaction, and whether the   *)
            (* program was in one                                        *)
  outcome,  (* how the last call ended                                   *)
  tries     (* begin_transaction calls of the last start_transaction     *)

history == <<phase, work, failed, excused, last, outcome, tries>>
vars    == <<id, status, history>>

Statuses == {"unused", "open", "aborted", "committed", "ended"}
Calls    == {"none", "commit", "rollback"}
Outcomes == {"ok", "dbapi", "dbapiResuming", "boto"}

TypeOK ==
  /\ id \in Txs \cup {NoTx}
  /\ status \in [Txs -> Statuses]
  /\ phase \in {"none", "in", "ending"}
  /\ work \subseteq Txs \cup {NoPlace}
  /\ failed \in BOOLEAN
  /\ excused \subseteq Txs
  /\ last \in Calls
  /\ outcome \in Outcomes
  /\ tries \in 0 .. Retries + 1

Init ==
  /\ id = NoTx /\ status = [x \in Txs |-> "unused"]
  /\ phase = "none" /\ work = {} /\ failed = FALSE /\ excused = {}
  /\ last = "none" /\ outcome = "ok" /\ tries = 0

Becomes(x, s) == status' = [status EXCEPT ![x] = s]
IsOpen(x)     == x \in Txs /\ status[x] = "open"

(* The server still knows the transaction.                                 *)
IsHeld(x) == x \in Txs /\ status[x] \in {"open", "aborted"}

-----------------------------------------------------------------------------
(* start_transaction.                                                      *)

(* Mutant: the transaction the connection already holds is not looked at.  *)
AlwaysBegins == TRUE

MustBegin == id = NoTx

(* A program that is in a transaction goes on in it.                       *)
Holding ==
  /\ ~MustBegin
  /\ phase' = "in" /\ outcome' = "ok" /\ last' = "none" /\ tries' = 0
  /\ UNCHANGED <<id, status, work, failed, excused>>

Begun ==
  /\ MustBegin
  /\ \E x \in Txs : status[x] = "unused" /\ id' = x /\ Becomes(x, "open")
  /\ phase' = "in" /\ work' = {} /\ failed' = FALSE /\ outcome' = "ok"
  /\ last' = "none" /\ tries' = 1
  /\ UNCHANGED excused

(* Both handlers raise a DatabaseError, also for DatabaseResumingException:*)
(* the retry decorator around the method sees none of the kind it retries. *)
BeginCalls == 1

BeginRaised(kind) ==
  /\ outcome' = kind /\ tries' = BeginCalls /\ last' = "none" /\ phase' = "none"
  /\ UNCHANGED <<id, work, failed>>

BeginFailed ==
  /\ MustBegin
  /\ \/ /\ "refuse" \in Faults
        /\ BeginRaised("dbapi") /\ UNCHANGED <<status, excused>>
     \/ /\ "resuming" \in Faults
        /\ BeginRaised("dbapiResuming") /\ UNCHANGED <<status, excused>>
     \/ /\ "noAnswer" \in Faults
        /\ BeginRaised("dbapi")
        /\ \/ UNCHANGED <<status, excused>>
           \/ \E x \in Txs : /\ status[x] = "unused" /\ Becomes(x, "open")
                             /\ excused' = excused \cup {x}

StartTransaction == Holding \/ Begun \/ BeginFailed

-----------------------------------------------------------------------------
(* commit and rollback.                                                    *)

(* A program that is in no transaction is promised nothing; after a commit *)
(* that raised it is promised only that a rollback undoes the work.        *)
Promised(call) ==
  IF phase = "in" \/ (phase = "ending" /\ call = "rollback") THEN call ELSE "none"

(* Without a transaction id neither makes a call.                          *)
NothingToEnd(call) ==
  /\ id = NoTx
  /\ outcome' = "ok" /\ last' = Promised(call) /\ phase' = "none" /\ tries' = 0
  /\ UNCHANGED <<id, status, work, failed, excused>>

Ended(call) ==
  /\ id' = NoTx
  /\ outcome' = "ok" /\ last' = Promised(call) /\ phase' = "none" /\ tries' = 0
  /\ UNCHANGED <<work, failed, excused>>

(* Mutant: the id is cleared before the call.                              *)
IdForgotten == NoTx

(* The exception leaves the call before the id is cleared.                 *)
IdAfterRaise == id

EndRaised(phaseAfter) ==
  /\ id' = IdAfterRaise
  /\ outcome' = "boto" /\ last' = "none" /\ tries' = 0
  /\ phase' = phaseAfter
  /\ UNCHANGED <<work, failed, excused>>

AfterFailedCommit == IF phase = "none" THEN "none" ELSE "ending"

(* COMMIT of an aborted transaction is answered like any other.            *)
Committed(x) == Becomes(x, IF IsOpen(x) THEN "committed" ELSE "ended")

(* `asked` is what the caller relies on when the call returns.             *)
Commit(asked) ==
  \/ NothingToEnd(asked)
  \/ IsHeld(id) /\ Committed(id) /\ Ended(asked)
  \/ /\ id # NoTx /\ ~IsHeld(id)
     /\ EndRaised(AfterFailedCommit) /\ UNCHANGED status
  \/ /\ IsHeld(id) /\ "noAnswer" \in Faults
     /\ EndRaised(AfterFailedCommit)
     /\ (UNCHANGED status \/ Committed(id))
  \/ (* a constraint that is checked at the end                             *)
     /\ IsHeld(id) /\ "refuse" \in Faults
     /\ EndRaised(AfterFailedCommit) /\ Becomes(id, "ended")
  \/ (* the id is cleared, then a status that is not the expected one raises *)
     /\ IsHeld(id) /\ "badStatus" \in Faults
     /\ id' = NoTx /\ (UNCHANGED status \/ Becomes(id, "ended"))
     /\ outcome' = "dbapi" /\ last' = "none" /\ tries' = 0
     /\ phase' = AfterFailedCommit /\ excused' = excused \cup {id}
     /\ UNCHANGED <<work, failed>>

Rollback(asked) ==
  \/ NothingToEnd(asked)
  \/ IsHeld(id) /\ Becomes(id, "ended") /\ Ended(asked)
  \/ id # NoTx /\ ~IsHeld(id) /\ EndRaised("none") /\ UNCHANGED status
  \/ /\ IsHeld(id) /\ "noAnswer" \in Faults
     /\ EndRaised("none")
     /\ (UNCHANGED status \/ Becomes(id, "ended"))

(* Mutant: the two branches of __exit__ are swapped.                       *)
BlockExitSwapped(err) == IF err THEN Commit("rollback") ELSE Rollback("commit")

(* __exit__; __enter__ changes nothing.                                    *)
BlockExit(err) == IF err THEN Rollback("rollback") ELSE Commit("commit")

-----------------------------------------------------------------------------
(* A statement of a cursor of the connection.                              *)

(* Mutant: the id is not passed along.                                     *)
PlaceWithoutId == NoPlace

StatementPlace == IF id = NoTx THEN NoPlace ELSE id

Counts == work' = IF phase = "in" THEN work \cup {StatementPlace} ELSE work

StatementRuns ==
  /\ StatementPlace = NoPlace \/ IsOpen(StatementPlace)
  /\ Counts /\ outcome' = "ok"
  /\ UNCHANGED <<status, failed>>

(* An error aborts an open transaction; one that is aborted or gone takes  *)
(* no statement.                                                           *)
StatementRefused ==
  /\ IF IsOpen(StatementPlace)
     THEN "refuse" \in Faults /\ Becomes(StatementPlace, "aborted")
     ELSE ("refuse" \in Faults \/ StatementPlace # NoPlace) /\ UNCHANGED status
  /\ outcome' = "dbapi" /\ failed' = TRUE
  /\ UNCHANGED work

(* No answer, or a timeout of the statement: it was not begun, it is done  *)
(* all the same (continueAfterTimeout), or it is given up.                 *)
StatementUnanswered ==
  /\ "noAnswer" \in Faults
  /\ \/ UNCHANGED <<status, work>>
     \/ /\ StatementPlace = NoPlace \/ IsOpen(StatementPlace)
        /\ Counts /\ UNCHANGED status
     \/ /\ IsOpen(StatementPlace) /\ Becomes(StatementPlace, "aborted")
        /\ UNCHANGED work
  /\ outcome' = "boto" /\ failed' = TRUE

Statement ==
  /\ StatementRuns \/ StatementRefused \/ StatementUnanswered
  /\ last' = "none" /\ tries' = 0
  /\ UNCHANGED <<id, phase, excused>>

(* The server gives the transaction up: idle for too long, fail-over.      *)
TxEnds ==
  /\ "txEnds" \in Faults
  /\ \E x \in Txs : IsHeld(x) /\ Becomes(x, "ended")
  /\ UNCHANGED <<id, history>>

-----------------------------------------------------------------------------
Next ==
  \/ StartTransaction
  \/ Commit("commit")
  \/ Rollback("rollback")
  \/ \E err \in BOOLEAN : BlockExit(err)
  \/ Statement
  \/ TxEnds

Spec == Init /\ [][Next]_vars

-----------------------------------------------------------------------------
(* Properties.                                                             *)

(* Between start_transaction and the commit or rollback that ends it, no   *)
(* statement runs outside the transaction, whatever failed before.         *)
NoSilentAutocommit == phase = "in" => NoPlace \notin work

(* When commit, or a with block that ends well, returns to a program that  *)
(* is in a transaction, all the work since start_transaction is committed; *)
(* only where a statement of the transaction has raised, and the program   *)
(* went on, may it be that nothing of the work is committed, never a part. *)
CommitKeepsWork ==
  outcome = "ok" /\ last = "commit" =>
    \/ \A x \in work : x # NoPlace /\ status[x] = "committed"
    \/ failed /\ \A x \in work : x # NoPlace /\ status[x] = "ended"

(* When rollback, or a with block that fails, returns to a program that is *)
(* in a transaction, none of the work is committed, also after a commit    *)
(* that raised without telling whether it was carried out.                 *)
RollbackUndoesWork ==
  outcome = "ok" /\ last = "rollback" =>
    \A x \in work : x # NoPlace /\ status[x] # "committed"

(* Every transaction the server still holds, open or aborted, is the one   *)
(* the connection names, unless its begin or its commit went wrong before  *)
(* the client could know.                                                  *)
OnlyFaultsLeak == \A x \in Txs : IsHeld(x) => x = id \/ x \in excused

(* "handling ... DatabaseResuming-style errors" of start_transaction with  *)
(* a retry after every delay (retry.py:1-17): it gives up only after the   *)
(* last one.                                                               *)
StartRetriesResuming == outcome = "dbapiResuming" => tries = Retries + 1

-----------------------------------------------------------------------------
(* The inductive invariant, proved in SyncConnectionProofs.                *)

IdIsBegun == id \in Txs => status[id] # "unused"

(* The work is in the transaction the connection names; once it names none *)
(* after a commit that raised, the work was not committed.                 *)
WorkInOneTx ==
  /\ phase = "in" => id \in Txs
  /\ id \in Txs => work \subseteq {id}
  /\ phase = "ending" /\ id = NoTx =>
       \A x \in work : x \in Txs /\ status[x] \in {"open", "aborted", "ended"}

(* A transaction is aborted by a statement that raised.                    *)
AbortIsSeen == id \in Txs /\ status[id] = "aborted" => failed

ConnectionInv ==
  /\ TypeOK
  /\ IdIsBegun
  /\ WorkInOneTx
  /\ AbortIsSeen
  /\ CommitKeepsWork
  /\ RollbackUndoesWork
  /\ OnlyFaultsLeak
=============================================================================
