----------------------- MODULE AsyncConnectionProofs ------------------------
(***************************************************************************)
(* Theorems about AsyncConnection for any tasks, transactions, faults and  *)
(* cancellations.                                                          *)
(***************************************************************************)
EXTENDS AsyncConnection, TLAPS

LEMMA InitId == Init => IdInv
BY ConstantsOK
DEF Init, IdInv, TypeOK, FreshIsOwn, NewTx, KnownIsBegun,
    NotNamedOnceRolledBack, Awaits, Requests

(* A call up to its first await.                                           *)
LEMMA CallKeeps ==
  ASSUME IdInv, NEW t \in Tasks, Calls(t)
  PROVE  IdInv'
<1>. USE ConstantsOK DEF IdInv, TypeOK, FreshIsOwn, NewTx, KnownIsBegun,
       NotNamedOnceRolledBack, Awaits, Requests, Suspend, Exits, EndsAtOnce,
       Leaves, ToClose, Usable, suspended, clients
<1>1. CASE StartTransaction(t)
  BY <1>1 DEF StartTransaction
<1>2. ASSUME NEW exit \in BOOLEAN, Commit(t, exit)
      PROVE  IdInv'
  BY <1>2 DEF Commit
<1>3. ASSUME NEW exit \in BOOLEAN, Rollback(t, exit)
      PROVE  IdInv'
  BY <1>3 DEF Rollback, HasTx, IdAtRollback
<1>4. CASE Statement(t)
  BY <1>4 DEF Statement
<1>5. CASE Close(t)
  BY <1>5 DEF Close
<1>6. CASE Connect(t)
  BY <1>6 DEF Connect, MustConnect
<1>. QED
  BY <1>1, <1>2, <1>3, <1>4, <1>5, <1>6 DEF Calls, AExit

(* An answer of the server.                                                *)
LEMMA ServerKeeps ==
  ASSUME IdInv, NEW t \in Tasks, Server(t)
  PROVE  IdInv'
<1>. USE ConstantsOK DEF IdInv, TypeOK, FreshIsOwn, NewTx, KnownIsBegun,
       NotNamedOnceRolledBack, Awaits, Requests, Replies, Becomes, Awaiting,
       IsOpen, clients
<1>1. CASE ServeBegin(t)
  BY <1>1 DEF ServeBegin, LosesNothing
<1>2. CASE ServeCommit(t)
  BY <1>2 DEF ServeCommit
<1>3. CASE ServeStatement(t)
  BY <1>3 DEF ServeStatement
<1>. QED BY <1>1, <1>2, <1>3 DEF Server

LEMMA RollbackRequestKeeps ==
  ASSUME IdInv, NEW x \in Txs, ServeRollback(x) \/ RollbackLost(x)
  PROVE  IdInv'
BY ConstantsOK
DEF ServeRollback, RollbackLost, RollbackAnswered, IdInv, TypeOK, FreshIsOwn,
    NewTx, KnownIsBegun, NotNamedOnceRolledBack, Awaits, Requests, Becomes,
    IsOpen, clients

(* From the await on.                                                      *)
LEMMA ResumeKeeps ==
  ASSUME IdInv, NEW t \in Tasks, Resumes(t)
  PROVE  IdInv'
<1>. USE ConstantsOK DEF IdInv, TypeOK, FreshIsOwn, NewTx, KnownIsBegun,
       NotNamedOnceRolledBack, Awaits, Requests, CallEnds, Leaves, ToClose,
       Exits, clients
<1>1. CASE BeginReturns(t)
  BY <1>1 DEF BeginReturns, IdAfterBegin
<1>2. CASE CommitReturns(t)
  BY <1>2 DEF CommitReturns
<1>3. CASE OtherReturns(t)
  BY <1>3 DEF OtherReturns
<1>4. CASE CancelRequest(t)
  BY <1>4 DEF CancelRequest, RollingAfterCancel, Becomes, Awaiting, IsOpen
<1>. QED BY <1>1, <1>2, <1>3, <1>4 DEF Resumes

(* connect() and close() from their awaits on.                             *)
LEMMA LifecycleKeeps ==
  ASSUME IdInv, NEW t \in Tasks, Lifecycle(t)
  PROVE  IdInv'
<1>. USE ConstantsOK DEF IdInv, TypeOK, FreshIsOwn, NewTx, KnownIsBegun,
       NotNamedOnceRolledBack, Awaits, Requests, Idle, clients
<1>1. CASE Connected(t)
  BY <1>1 DEF Connected
<1>2. CASE NotConnected(t)
  BY <1>2 DEF NotConnected
<1>3. CASE ClientCloses(t)
  <2>1. /\ UNCHANGED <<id, client, ctx, abandoned, at, tx, exiting, session, asked>>
        /\ rolling' = {} /\ open' = open \ {session[t]}
        /\ excused' = excused \cup rolling
    BY <1>3 DEF ClientCloses
  <2>2. \A u \in Tasks : reply'[u] = "error" \/ reply'[u] = reply[u]
    BY <1>3 DEF ClientCloses
  <2>3. reply' \in [Tasks -> {"none", "ok", "badStatus", "error"}]
    BY <1>3 DEF ClientCloses
  <2>4. /\ status' \in [Txs -> {"unused", "open", "committed", "ended"}]
        /\ \A x \in Txs : status[x] # "unused" => status'[x] # "unused"
    BY <1>3 DEF ClientCloses
  <2>5. \A u \in Tasks : NewTx(u)' => NewTx(u)
    BY <2>1, <2>2
  <2>6. TypeOK'
    BY <2>1, <2>3, <2>4
  <2>7. FreshIsOwn'
    BY <2>1, <2>4, <2>5
  <2>. QED BY <2>1, <2>4, <2>6, <2>7
<1>4. CASE CloseReturns(t)
  BY <1>4 DEF CloseReturns, ClientAfterClose
<1>5. CASE CloseRaises(t)
  BY <1>5 DEF CloseRaises
<1>. QED BY <1>1, <1>2, <1>3, <1>4, <1>5 DEF Lifecycle

LEMMA OthersKeep ==
  ASSUME IdInv, TxEnds \/ UNCHANGED vars
  PROVE  IdInv'
BY ConstantsOK
DEF TxEnds, Becomes, IsOpen, vars, suspended, clients, IdInv, TypeOK,
    FreshIsOwn, NewTx, KnownIsBegun, NotNamedOnceRolledBack, Awaits, Requests

(* A new transaction is known to one task alone, for any tasks,            *)
(* cancellations and faults.                                               *)
THEOREM IdInvAlways == Spec => []IdInv
<1>1. IdInv /\ [Next]_vars => IdInv'
  BY CallKeeps, ServerKeeps, RollbackRequestKeeps, ResumeKeeps, LifecycleKeeps,
     OthersKeep
  DEF Next
<1>. QED BY InitId, <1>1, PTL DEF Spec

(* Once rollback() is called no task is handed the transaction again,      *)
(* however its tasks are interleaved and cancelled.                        *)
THEOREM RolledBackIsNotNamed == Spec => []NotNamedOnceRolledBack
<1>1. IdInv => NotNamedOnceRolledBack
  BY DEF IdInv
<1>. QED BY IdInvAlways, <1>1, PTL

-----------------------------------------------------------------------------
(* One task drives the transactions of the connection.                     *)

LEMMA InitOrphan == Init => OrphanInv
BY InitId DEF Init, OrphanInv, DriverInv, NoOrphanTx, IsOpen

LEMMA CallOrphan ==
  ASSUME OneDriver, OrphanInv, IdInv', NEW t \in Tasks, Calls(t)
  PROVE  DriverInv' /\ NoOrphanTx'
<1>. USE ConstantsOK DEF OrphanInv, DriverInv, NoOrphanTx, OneDriver, IdInv,
       TypeOK, Beginning, NewTx, IsOpen, Awaits, Requests, Suspend, Exits,
       EndsAtOnce, Leaves, ToClose, Usable, suspended, clients
<1>1. CASE StartTransaction(t)
  BY <1>1 DEF StartTransaction
<1>2. ASSUME NEW exit \in BOOLEAN, Commit(t, exit)
      PROVE  DriverInv' /\ NoOrphanTx'
  BY <1>2 DEF Commit
<1>3. ASSUME NEW exit \in BOOLEAN, Rollback(t, exit)
      PROVE  DriverInv' /\ NoOrphanTx'
  BY <1>3 DEF Rollback, HasTx, IdAtRollback
<1>4. CASE Statement(t)
  BY <1>4 DEF Statement
<1>5. CASE Close(t)
  BY <1>5 DEF Close
<1>6. CASE Connect(t)
  BY <1>6 DEF Connect, MustConnect
<1>. QED
  BY <1>1, <1>2, <1>3, <1>4, <1>5, <1>6 DEF Calls, AExit

LEMMA ServerOrphan ==
  ASSUME OneDriver, OrphanInv, NEW t \in Tasks, Server(t)
  PROVE  DriverInv' /\ NoOrphanTx'
<1>. USE ConstantsOK DEF OrphanInv, DriverInv, NoOrphanTx, OneDriver, IdInv,
       TypeOK, Beginning, NewTx, IsOpen, Awaits, Requests, Replies, Becomes,
       Awaiting, clients
<1>1. CASE ServeBegin(t)
  BY <1>1 DEF ServeBegin, LosesNothing, FreshIsOwn, KnownIsBegun
<1>2. CASE ServeCommit(t)
  BY <1>2 DEF ServeCommit
<1>3. CASE ServeStatement(t)
  BY <1>3 DEF ServeStatement
<1>. QED BY <1>1, <1>2, <1>3 DEF Server

LEMMA RequestOrphan ==
  ASSUME OneDriver, OrphanInv, NEW x \in Txs, ServeRollback(x) \/ RollbackLost(x)
  PROVE  DriverInv' /\ NoOrphanTx'
BY ConstantsOK
DEF ServeRollback, RollbackLost, RollbackAnswered, Becomes, IsOpen, OrphanInv,
    DriverInv, NoOrphanTx, OneDriver, IdInv, TypeOK, Beginning, NewTx, Awaits,
    Requests, clients

LEMMA ResumeOrphan ==
  ASSUME OneDriver, OrphanInv, NEW t \in Tasks, Resumes(t)
  PROVE  DriverInv' /\ NoOrphanTx'
<1>. USE ConstantsOK DEF OrphanInv, DriverInv, NoOrphanTx, OneDriver, IdInv,
       TypeOK, Beginning, NewTx, IsOpen, Awaits, Requests, CallEnds, Leaves,
       ToClose, Exits, clients
<1>1. CASE BeginReturns(t)
  BY <1>1 DEF BeginReturns, IdAfterBegin, FreshIsOwn
<1>2. CASE CommitReturns(t)
  BY <1>2 DEF CommitReturns, ClearedByCommit
<1>3. CASE OtherReturns(t)
  BY <1>3 DEF OtherReturns
<1>4. CASE CancelRequest(t)
  BY <1>4 DEF CancelRequest, RollingAfterCancel, Becomes, Awaiting
<1>. QED BY <1>1, <1>2, <1>3, <1>4 DEF Resumes

LEMMA LifecycleOrphan ==
  ASSUME OneDriver, OrphanInv, NEW t \in Tasks, Lifecycle(t)
  PROVE  DriverInv' /\ NoOrphanTx'
<1>. USE ConstantsOK DEF OrphanInv, DriverInv, NoOrphanTx, OneDriver, IdInv,
       TypeOK, Beginning, NewTx, IsOpen, Awaits, Requests, Idle, clients
<1>1. CASE ClientCloses(t)
  <2>1. /\ UNCHANGED <<id, tx, at>> /\ excused' = excused \cup rolling
    BY <1>1 DEF ClientCloses
  <2>2. \A u \in Tasks : \/ reply'[u] = reply[u]
                         \/ reply[u] = "none" /\ reply'[u] = "error"
    BY <1>1 DEF ClientCloses, Interrupted
  <2>3. \A x \in Txs : status'[x] = "open" => status[x] = "open"
    BY <1>1 DEF ClientCloses
  <2>4. DriverInv'
    BY <2>1, <2>2, <2>3
  <2>5. \A u \in Tasks : NewTx(u) => NewTx(u)'
    BY <1>1, <2>1, <2>2 DEF ClientCloses
  <2>6. NoOrphanTx'
    BY <2>1, <2>3, <2>5
  <2>. QED BY <2>4, <2>6
<1>2. CASE Connected(t) \/ NotConnected(t) \/ CloseReturns(t) \/ CloseRaises(t)
  BY <1>2 DEF Connected, NotConnected, CloseReturns, CloseRaises
<1>. QED BY <1>1, <1>2 DEF Lifecycle

LEMMA OthersOrphan ==
  ASSUME OneDriver, OrphanInv, TxEnds \/ UNCHANGED vars
  PROVE  DriverInv' /\ NoOrphanTx'
BY ConstantsOK
DEF TxEnds, Becomes, IsOpen, vars, suspended, clients, OrphanInv, DriverInv,
    NoOrphanTx, OneDriver, IdInv, TypeOK, Beginning, NewTx, Awaits, Requests

-----------------------------------------------------------------------------
(* The clients, for one task that connects and closes.                     *)

LEMMA InitClient == Init => ClientInv
BY InitId, ConstantsOK
DEF Init, IdInv, ClientInv, AwaitInv, HeldIsOpen, NoClientLeaked

LEMMA CallClient ==
  ASSUME OneDriver, ClientInv, NEW t \in Tasks, Calls(t)
  PROVE  AwaitInv' /\ HeldIsOpen' /\ NoClientLeaked'
<1>. USE ConstantsOK DEF ClientInv, AwaitInv, HeldIsOpen, NoClientLeaked,
       OneDriver, TypeOK, Awaits, Requests, Suspend, Exits, EndsAtOnce, Leaves,
       ToClose, suspended, clients
<1>1. CASE StartTransaction(t) \/ Statement(t)
  BY <1>1 DEF StartTransaction, Statement
<1>2. ASSUME NEW exit \in BOOLEAN, Commit(t, exit) \/ Rollback(t, exit)
      PROVE  AwaitInv' /\ HeldIsOpen' /\ NoClientLeaked'
  BY <1>2 DEF Commit, Rollback
<1>3. CASE Close(t)
  BY <1>3 DEF Close
<1>4. CASE Connect(t)
  BY <1>4 DEF Connect, MustConnect
<1>. QED BY <1>1, <1>2, <1>3, <1>4 DEF Calls, AExit

LEMMA ServerClient ==
  ASSUME OneDriver, ClientInv,
         \/ \E t \in Tasks : Server(t)
         \/ \E x \in Txs : ServeRollback(x) \/ RollbackLost(x)
         \/ TxEnds \/ UNCHANGED vars
  PROVE  AwaitInv' /\ HeldIsOpen' /\ NoClientLeaked'
<1>1. UNCHANGED <<client, ctx, open, abandoned, at, exiting, session>>
  BY DEF Server, ServeBegin, ServeCommit, ServeStatement, ServeRollback,
         RollbackLost, TxEnds, suspended, clients, vars
<1>. QED BY <1>1 DEF ClientInv, AwaitInv, HeldIsOpen, NoClientLeaked

LEMMA ResumeClient ==
  ASSUME OneDriver, ClientInv, NEW t \in Tasks, Resumes(t)
  PROVE  AwaitInv' /\ HeldIsOpen' /\ NoClientLeaked'
<1>1. /\ at[t] \in Requests /\ CallEnds(t) /\ UNCHANGED clients
  BY DEF Resumes, BeginReturns, CommitReturns, OtherReturns, CancelRequest,
         Requests
<1>. QED
  BY <1>1, ConstantsOK
  DEF ClientInv, AwaitInv, HeldIsOpen, NoClientLeaked, OneDriver, TypeOK, Awaits,
      Requests, CallEnds, Leaves, ToClose, Exits, clients

LEMMA LifecycleClient ==
  ASSUME OneDriver, ClientInv, NEW t \in Tasks, Lifecycle(t)
  PROVE  AwaitInv' /\ HeldIsOpen' /\ NoClientLeaked'
<1>. USE ConstantsOK DEF ClientInv, AwaitInv, HeldIsOpen, NoClientLeaked,
       OneDriver, TypeOK, Awaits, Requests, Idle, clients
<1>1. CASE Connected(t)
  BY <1>1 DEF Connected
<1>2. CASE NotConnected(t)
  BY <1>2 DEF NotConnected
<1>3. CASE ClientCloses(t)
  BY <1>3 DEF ClientCloses
<1>4. CASE CloseReturns(t)
  BY <1>4 DEF CloseReturns, ClientAfterClose
<1>5. CASE CloseRaises(t)
  BY <1>5 DEF CloseRaises
<1>. QED BY <1>1, <1>2, <1>3, <1>4, <1>5 DEF Lifecycle

-----------------------------------------------------------------------------
(* The connection.                                                         *)

(* For any number of tasks: what they know of transactions stays apart,    *)
(* and with one driver transactions and clients stay within its reach.     *)
THEOREM ConnectionInvAlways == Spec => []ConnectionInv
<1>1. ConnectionInv /\ [Next]_vars => ConnectionInv'
  <2>. SUFFICES ASSUME ConnectionInv, [Next]_vars PROVE ConnectionInv'
    OBVIOUS
  <2>. USE DEF ConnectionInv
  <2>1. IdInv'
    BY CallKeeps, ServerKeeps, RollbackRequestKeeps, ResumeKeeps,
       LifecycleKeeps, OthersKeep
    DEF Next
  <2>2. CASE OneDriver
    <3>1. DriverInv' /\ NoOrphanTx'
      BY <2>1, <2>2, CallOrphan, ServerOrphan, RequestOrphan, ResumeOrphan,
         LifecycleOrphan, OthersOrphan
      DEF Next
    <3>2. AwaitInv' /\ HeldIsOpen' /\ NoClientLeaked'
      BY <2>2, CallClient, ServerClient, ResumeClient, LifecycleClient
      DEF Next
    <3>. QED BY <2>1, <3>1, <3>2 DEF OrphanInv, ClientInv, IdInv
  <2>3. CASE ~OneDriver
    BY <2>1, <2>3 DEF OrphanInv, ClientInv, OneDriver
  <2>. QED BY <2>2, <2>3
<1>2. Init => ConnectionInv
  BY InitId, InitOrphan, InitClient DEF ConnectionInv
<1>. QED BY <1>1, <1>2, PTL DEF Spec

(* With one driver, commit() and rollback() let go of no transaction that  *)
(* is still open, unless an answer is lost or the client closed.           *)
THEOREM NoTransactionIsOrphaned ==
  ASSUME OneDriver
  PROVE  Spec => []NoOrphanTx
<1>1. ConnectionInv => NoOrphanTx
  BY OneDriver DEF ConnectionInv, OrphanInv
<1>. QED BY ConnectionInvAlways, <1>1, PTL

(* With one driver: a statement finds its client open unless a close() was *)
(* cancelled.                                                              *)
THEOREM HeldClientIsOpen ==
  ASSUME OneDriver
  PROVE  Spec => []HeldIsOpen
<1>1. ConnectionInv => HeldIsOpen
  BY OneDriver DEF ConnectionInv, ClientInv
<1>. QED BY ConnectionInvAlways, <1>1, PTL

(* With one driver: close() reaches every client that connect() opened.    *)
THEOREM OpenedClientsAreHeld ==
  ASSUME OneDriver
  PROVE  Spec => []NoClientLeaked
<1>1. ConnectionInv => NoClientLeaked
  BY OneDriver DEF ConnectionInv, ClientInv
<1>. QED BY ConnectionInvAlways, <1>1, PTL

(* With one driver: close() never closes the client that was injected.     *)
THEOREM InjectedIsNotClosed ==
  ASSUME OneDriver
  PROVE  Spec => InjectedIsLeftOpen
<1>1. ClientInv /\ [Next]_vars => ((Injected \in open) => (Injected \in open'))
  <2>. SUFFICES ASSUME ClientInv, [Next]_vars, Injected \in open
                PROVE  Injected \in open'
    OBVIOUS
  <2>1. CASE UNCHANGED open
    BY <2>1
  <2>2. ASSUME NEW t \in Tasks, Lifecycle(t)
        PROVE  Injected \in open'
    BY <2>2, OneDriver
    DEF Lifecycle, Connected, NotConnected, ClientCloses, CloseReturns,
        CloseRaises, clients, ClientInv, AwaitInv
  <2>3. ASSUME NEW t \in Tasks, Calls(t) \/ Server(t) \/ Resumes(t)
        PROVE  UNCHANGED open
    BY <2>3
    DEF Calls, StartTransaction, Commit, Rollback, AExit, Statement, Close,
        Connect, Server, ServeBegin, ServeCommit, ServeStatement, Resumes,
        BeginReturns, CommitReturns, OtherReturns, CancelRequest, clients
  <2>4. ASSUME NEW x \in Txs, ServeRollback(x) \/ RollbackLost(x)
        PROVE  UNCHANGED open
    BY <2>4 DEF ServeRollback, RollbackLost, clients
  <2>5. TxEnds \/ UNCHANGED vars => UNCHANGED open
    BY DEF TxEnds, vars, clients
  <2>. QED BY <2>1, <2>2, <2>3, <2>4, <2>5 DEF Next
<1>2. ConnectionInv /\ [Next]_vars => [(Injected \in open) => (Injected \in open')]_vars
  BY <1>1 DEF ConnectionInv
<1>. QED BY ConnectionInvAlways, <1>2, PTL DEF Spec, InjectedIsLeftOpen
=============================================================================
