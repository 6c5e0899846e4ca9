------------------------ MODULE SyncConnectionProofs ------------------------
(***************************************************************************)
(* Theorems about SyncConnection for any set of transactions and faults:   *)
(* what commit and rollback promise the program, and that no transaction   *)
(* is left behind without a fault.                                         *)
(***************************************************************************)
EXTENDS SyncConnection, TLAPS

LEMMA InitConnection == Init => ConnectionInv
<1>. SUFFICES ASSUME Init PROVE ConnectionInv
  OBVIOUS
<1>1. TypeOK
  <2>1. tries \in 0 .. Retries + 1
    BY ConstantsOK DEF Init
  <2>2. status \in [Txs -> Statuses]
    BY DEF Init, Statuses
  <2>3. failed \in BOOLEAN
    BY DEF Init
  <2>. QED BY <2>1, <2>2, <2>3 DEF Init, TypeOK, Calls, Outcomes
<1>2. \A x \in Txs : status[x] = "unused"
  BY DEF Init
<1>3. IdIsBegun /\ AbortIsSeen /\ WorkInOneTx
  BY ConstantsOK DEF Init, IdIsBegun, AbortIsSeen, WorkInOneTx
<1>4. CommitKeepsWork /\ RollbackUndoesWork
  BY DEF Init, CommitKeepsWork, RollbackUndoesWork
<1>5. OnlyFaultsLeak
  BY <1>2 DEF OnlyFaultsLeak, IsHeld
<1>. QED BY <1>1, <1>3, <1>4, <1>5 DEF ConnectionInv

LEMMA StartKeeps ==
  ASSUME ConnectionInv, StartTransaction
  PROVE  ConnectionInv'
<1>. USE DEF ConnectionInv
<1>1. CASE Holding
  <2>1. id \in Txs
    BY <1>1 DEF Holding, MustBegin, TypeOK
  <2>2. work \subseteq {id} /\ id # NoTx
    BY <2>1, ConstantsOK DEF WorkInOneTx
  <2>3. WorkInOneTx'
    BY <1>1, <2>1, <2>2 DEF Holding, WorkInOneTx
  <2>4. TypeOK'
    BY <1>1, ConstantsOK DEF Holding, TypeOK, Calls, Outcomes
  <2>. QED BY <1>1, <2>3, <2>4
    DEF Holding, IdIsBegun, AbortIsSeen, CommitKeepsWork, RollbackUndoesWork, OnlyFaultsLeak,
        IsOpen, IsHeld
<1>2. CASE Begun
  <2>1. PICK x \in Txs : status[x] = "unused" /\ id' = x /\ Becomes(x, "open")
    BY <1>2 DEF Begun
  <2>2. /\ id = NoTx /\ work' = {} /\ failed' = FALSE /\ phase' = "in"
        /\ outcome' = "ok" /\ last' = "none" /\ tries' = 1 /\ excused' = excused
    BY <1>2 DEF Begun, MustBegin
  <2>3. TypeOK'
    <3>1. status' \in [Txs -> Statuses] /\ id' \in Txs
      BY <2>1 DEF TypeOK, Becomes, Statuses
    <3>2. tries' \in 0 .. Retries + 1
      BY <2>2, ConstantsOK
    <3>. QED BY <2>2, <3>1, <3>2 DEF TypeOK, Calls, Outcomes
  <2>4. status'[x] = "open" /\ \A y \in Txs \ {x} : status'[y] = status[y]
    BY <2>1 DEF TypeOK, Becomes
  <2>5. IdIsBegun' /\ AbortIsSeen' /\ WorkInOneTx'
    BY <2>1, <2>2, <2>4 DEF IdIsBegun, AbortIsSeen, WorkInOneTx
  <2>6. CommitKeepsWork' /\ RollbackUndoesWork'
    BY <2>2 DEF CommitKeepsWork, RollbackUndoesWork
  <2>7. OnlyFaultsLeak'
    BY <2>1, <2>2, <2>4, ConstantsOK DEF OnlyFaultsLeak, IsHeld
  <2>. QED BY <2>3, <2>5, <2>6, <2>7
<1>3. CASE BeginFailed
  BY <1>3, ConstantsOK
  DEF BeginFailed, BeginRaised, BeginCalls, MustBegin, Becomes, TypeOK, IdIsBegun, AbortIsSeen,
      WorkInOneTx, CommitKeepsWork, RollbackUndoesWork, OnlyFaultsLeak, IsOpen, IsHeld,
      Statuses, Calls, Outcomes
<1>. QED BY <1>1, <1>2, <1>3 DEF StartTransaction

LEMMA CommitKeeps ==
  ASSUME ConnectionInv, Commit("commit")
  PROVE  ConnectionInv'
BY ConstantsOK
DEF Commit, Committed, NothingToEnd, Ended, EndRaised, IdAfterRaise, AfterFailedCommit,
    Promised, Becomes, ConnectionInv, TypeOK, IdIsBegun, AbortIsSeen, WorkInOneTx,
    CommitKeepsWork, RollbackUndoesWork, OnlyFaultsLeak, IsOpen, IsHeld, Statuses,
    Calls, Outcomes

LEMMA RollbackKeeps ==
  ASSUME ConnectionInv, Rollback("rollback")
  PROVE  ConnectionInv'
BY ConstantsOK
DEF Rollback, NothingToEnd, Ended, EndRaised, IdAfterRaise,
    Promised, Becomes, ConnectionInv, TypeOK, IdIsBegun, AbortIsSeen, WorkInOneTx,
    CommitKeepsWork, RollbackUndoesWork, OnlyFaultsLeak, IsOpen, IsHeld, Statuses,
    Calls, Outcomes

LEMMA StatementKeeps ==
  ASSUME ConnectionInv, Statement
  PROVE  ConnectionInv'
<1>. USE DEF ConnectionInv
<1>1. /\ UNCHANGED <<id, phase, excused>>
      /\ last' = "none" /\ tries' = 0 /\ outcome' \in Outcomes
  BY DEF Statement, StatementRuns, StatementRefused, StatementUnanswered, Outcomes
<1>2. CommitKeepsWork' /\ RollbackUndoesWork'
  BY <1>1 DEF CommitKeepsWork, RollbackUndoesWork
(* Only the open transaction the connection names is touched, and aborted.   *)
<1>3. \/ UNCHANGED status
      \/ id \in Txs /\ status[id] = "open" /\ Becomes(id, "aborted")
  BY ConstantsOK
  DEF Statement, StatementRuns, StatementRefused, StatementUnanswered,
      StatementPlace, IsOpen
<1>4. UNCHANGED status \/ failed' = TRUE
  BY DEF Statement, StatementRuns, StatementRefused, StatementUnanswered
<1>5. failed' = TRUE \/ UNCHANGED failed
  BY DEF Statement, StatementRuns, StatementRefused, StatementUnanswered
<1>6. UNCHANGED work \/ (phase = "in" /\ work' = work \cup {StatementPlace})
  BY DEF Statement, StatementRuns, StatementRefused, StatementUnanswered, Counts
<1>7. StatementPlace \in Txs \cup {NoPlace}
  BY DEF StatementPlace, TypeOK
<1>8. \A x \in Txs : /\ status'[x] \in {status[x], "aborted"}
                     /\ status'[x] # status[x] => x = id /\ status[x] = "open"
  BY <1>3 DEF TypeOK, Becomes
<1>9. TypeOK'
  <2>1. status' \in [Txs -> Statuses]
    BY <1>3 DEF TypeOK, Becomes, Statuses
  <2>2. failed' \in BOOLEAN
    BY <1>5 DEF TypeOK
  <2>3. work' \subseteq Txs \cup {NoPlace}
    BY <1>6, <1>7 DEF TypeOK
  <2>. QED BY <1>1, <2>1, <2>2, <2>3, ConstantsOK DEF TypeOK, Calls
<1>10. IdIsBegun' /\ AbortIsSeen'
  BY <1>1, <1>4, <1>5, <1>8 DEF IdIsBegun, AbortIsSeen
<1>11. WorkInOneTx'
  <2>1. phase = "in" => StatementPlace = id /\ id \in Txs
    BY ConstantsOK DEF WorkInOneTx, StatementPlace
  <2>2. id \in Txs => work' \subseteq {id}
    BY <1>6, <2>1 DEF WorkInOneTx
  <2>3. phase = "ending" => work' = work
    BY <1>6
  <2>. QED BY <1>1, <1>8, <2>1, <2>2, <2>3 DEF WorkInOneTx
<1>12. OnlyFaultsLeak'
  BY <1>1, <1>8 DEF OnlyFaultsLeak, IsHeld
<1>. QED BY <1>2, <1>9, <1>10, <1>11, <1>12

LEMMA TxEndsKeeps ==
  ASSUME ConnectionInv, TxEnds \/ UNCHANGED vars
  PROVE  ConnectionInv'
BY ConstantsOK
DEF TxEnds, Becomes, vars, history, ConnectionInv, TypeOK, IdIsBegun, AbortIsSeen,
    WorkInOneTx, CommitKeepsWork, RollbackUndoesWork, OnlyFaultsLeak, IsOpen, IsHeld,
    Statuses, Calls, Outcomes

(* What each call of the connection keeps, for any order of calls and faults. *)
THEOREM ConnectionInvAlways == Spec => []ConnectionInv
<1>1. ConnectionInv /\ [Next]_vars => ConnectionInv'
  BY StartKeeps, CommitKeeps, RollbackKeeps, StatementKeeps, TxEndsKeeps
  DEF Next, BlockExit
<1>. QED BY InitConnection, <1>1, PTL DEF Spec

(* No statement of a program in a transaction is auto-committed.             *)
THEOREM StatementsStayInside == Spec => []NoSilentAutocommit
<1>1. ConnectionInv => NoSilentAutocommit
  BY ConstantsOK DEF ConnectionInv, WorkInOneTx, NoSilentAutocommit
<1>. QED BY <1>1, ConnectionInvAlways, PTL

(* A commit that returns, called or reached by a with block, has committed   *)
(* all the work, or else a statement has raised and none of it.              *)
THEOREM CommitsKeepTheWork == Spec => []CommitKeepsWork
<1>1. ConnectionInv => CommitKeepsWork
  BY DEF ConnectionInv
<1>. QED BY <1>1, ConnectionInvAlways, PTL

(* A rollback that returns, called or reached by a with block, has committed *)
(* none of it.                                                               *)
THEOREM RollbacksUndoTheWork == Spec => []RollbackUndoesWork
<1>1. ConnectionInv => RollbackUndoesWork
  BY DEF ConnectionInv
<1>. QED BY <1>1, ConnectionInvAlways, PTL

(* A transaction is left open on the server only by an answer that was lost  *)
(* or not understood.                                                        *)
THEOREM NothingLeaksUnseen == Spec => []OnlyFaultsLeak
<1>1. ConnectionInv => OnlyFaultsLeak
  BY DEF ConnectionInv
<1>. QED BY <1>1, ConnectionInvAlways, PTL
=============================================================================
