-------------------------- MODULE AsyncConnection ---------------------------
(***************************************************************************)
(* AsyncAuroraDataAPIClient (aurora_data_api/async_driver.py): the tasks of*)
(* one event loop share a connection.  A call runs without interruption to *)
(* its await and from there to its end; between the two other tasks run,   *)
(* the server carries requests out, and the task may be cancelled.         *)
(***************************************************************************)
EXTENDS Integers

CONSTANTS
  Tasks,       (* the tasks that share the connection                    *)
  Drivers,     (* the tasks that begin and end transactions              *)
  Txs,         (* bound: the transactions the server can begin           *)
  NoTx,        (* None, where a transaction id would be                  *)
  Clients,     (* bound: the aioboto3 clients there are at a time        *)
  Injected,    (* the one a program may hand to the constructor          *)
  NoClient,    (* None, where a client or its context would be           *)
  Cancels,     (* the awaits at which a task may be cancelled            *)
  Faults       (* the faults of the environment, see FaultKinds          *)

Requests   == {"begin", "commit", "rollback", "statement"}
Awaits     == Requests \cup {"connect", "close"}
FaultKinds == {"refuse", "noAnswer", "badStatus", "txEnds"}

ASSUME ConstantsOK ==
  /\ Drivers \subseteq Tasks
  /\ NoTx \notin Txs
  /\ Injected \in Clients /\ NoClient \notin Clients
  /\ Cancels \subseteq Awaits
  /\ Faults \subseteq FaultKinds

VARIABLES
  id,        (* _transaction_id                                          *)
  client,    (* the client, or None                                      *)
  ctx,       (* _client_ctx, named by the client it enters and exits     *)
  open,      (* the clients whose context was entered and not exited     *)
  session,   (* session[t]: the context t's connect or close awaits      *)
  at,        (* at[t]: the await task t is suspended in                  *)
  tx,        (* tx[t]: the transaction its request is about              *)
  reply,     (* reply[t]: the answer it will be resumed with             *)
  exiting,   (* exiting[t]: it awaits a request in __aexit__             *)
  rolling,   (* the transactions with a rollback request under way       *)
  status,    (* status[x]: what became of x on the server                *)
  (* For the properties. *)
  asked,     (* the transactions whose rollback was asked for            *)
  excused,   (* transactions left open by a fault, by a closed client, or*)
             (* by a task cancelled in start_transaction                 *)
  abandoned  (* the clients whose close() was cancelled                  *)

clients   == <<client, ctx, open, abandoned>>
suspended == <<at, tx, reply, exiting, session>>
vars == <<id, clients, suspended, rolling, status, asked, excused>>

TypeOK ==
  /\ id \in Txs \cup {NoTx}
  /\ {client, ctx} \subseteq Clients \cup {NoClient}
  /\ open \subseteq Clients /\ abandoned \subseteq Clients
  /\ session \in [Tasks -> Clients \cup {NoClient}]
  /\ at \in [Tasks -> Awaits \cup {"idle"}]
  /\ \A t \in Tasks : at[t] \in {"connect", "close"} => session[t] \in Clients
  /\ tx \in [Tasks -> Txs \cup {NoTx}]
  /\ reply \in [Tasks -> {"none", "ok", "badStatus", "error"}]
  /\ exiting \in [Tasks -> BOOLEAN]
  /\ rolling \subseteq Txs
  /\ status \in [Txs -> {"unused", "open", "committed", "ended"}]
  /\ asked \subseteq Txs
  /\ excused \subseteq Txs

(* A new connection, with a client of its caller or with none.             *)
Init ==
  /\ id = NoTx
  /\ client \in {NoClient, Injected} /\ ctx = NoClient
  /\ open = {client} \ {NoClient} /\ abandoned = {}
  /\ session = [t \in Tasks |-> NoClient]
  /\ at = [t \in Tasks |-> "idle"] /\ tx = [t \in Tasks |-> NoTx]
  /\ reply = [t \in Tasks |-> "none"] /\ exiting = [t \in Tasks |-> FALSE]
  /\ rolling = {} /\ status = [x \in Txs |-> "unused"]
  /\ asked = {} /\ excused = {}

IsOpen(x) == x \in Txs /\ status[x] = "open"

(* Requests of no client or of a closed one raise.                         *)
Usable == client \in open

-----------------------------------------------------------------------------
(* Suspension and end of a call.                                           *)

Suspend(t, await, x) ==
  /\ at' = [at EXCEPT ![t] = await] /\ tx' = [tx EXCEPT ![t] = x]
  /\ reply' = [reply EXCEPT ![t] = "none"]

Exits(t, exit) == exiting' = [exiting EXCEPT ![t] = exit]

(* Mutant: close() closes whatever client there is.                        *)
TheClient == client

ToClose == ctx

(* close() up to its await, which is on the context of the client.         *)
Leaves(t, close) ==
  LET closing == close /\ ToClose # NoClient
  IN /\ at' = [at EXCEPT ![t] = IF closing THEN "close" ELSE "idle"]
     /\ session' = [session EXCEPT ![t] = IF closing THEN ToClose ELSE NoClient]

(* A call of a request ends; __aexit__ goes on to close() in its finally.  *)
CallEnds(t) ==
  /\ Leaves(t, exiting[t]) /\ Exits(t, FALSE)
  /\ tx' = [tx EXCEPT ![t] = NoTx]
  /\ reply' = [reply EXCEPT ![t] = "none"]

(* A call that fails or returns before its first await.                    *)
EndsAtOnce(t, exit) == Leaves(t, exit) /\ UNCHANGED <<tx, reply, exiting>>

-----------------------------------------------------------------------------
(* The calls.                                                              *)

(* A transaction the connection holds is returned without a request.       *)
StartTransaction(t) ==
  /\ at[t] = "idle" /\ t \in Drivers
  /\ \/ /\ id # NoTx
        /\ UNCHANGED suspended
     \/ /\ id = NoTx /\ Usable
        /\ Suspend(t, "begin", NoTx)
        /\ UNCHANGED <<exiting, session>>
  /\ UNCHANGED <<id, clients, rolling, status, asked, excused>>

(* When its request raises, the id stays.                                  *)
Commit(t, exit) ==
  /\ at[t] = "idle" /\ t \in Drivers
  /\ \/ (id = NoTx \/ ~Usable) /\ EndsAtOnce(t, exit)
     \/ /\ id # NoTx /\ Usable
        /\ Suspend(t, "commit", id) /\ Exits(t, exit) /\ UNCHANGED session
  /\ UNCHANGED <<id, clients, rolling, status, asked, excused>>

(* Mutant: the id is cleared after the await, as the sync client does.     *)
IdKeptAtRollback == id

IdAtRollback == NoTx

HasTx == id # NoTx

(* The id is cleared first; the request is a task of its own.              *)
Rollback(t, exit) ==
  /\ at[t] = "idle" /\ t \in Drivers
  /\ \/ /\ ~HasTx /\ EndsAtOnce(t, exit)
        /\ UNCHANGED <<id, rolling, asked, excused>>
     \/ /\ HasTx /\ ~Usable /\ EndsAtOnce(t, exit)
        /\ id' = NoTx /\ excused' = excused \cup {id}
        /\ UNCHANGED <<rolling, asked>>
     \/ /\ HasTx /\ Usable
        /\ Suspend(t, "rollback", id) /\ Exits(t, exit) /\ UNCHANGED session
        /\ id' = IdAtRollback
        /\ rolling' = rolling \cup {id} /\ asked' = asked \cup {id}
        /\ UNCHANGED excused
  /\ UNCHANGED <<clients, status>>

AExit(t, err) == IF err THEN Rollback(t, TRUE) ELSE Commit(t, TRUE)

(* A statement of a cursor of the connection; it carries the id of now.    *)
Statement(t) ==
  /\ at[t] = "idle" /\ Usable
  /\ Suspend(t, "statement", id)
  /\ UNCHANGED <<id, clients, exiting, session, rolling, status, asked, excused>>

Close(t) ==
  /\ at[t] = "idle" /\ t \in Drivers
  /\ Leaves(t, TRUE)
  /\ UNCHANGED <<id, clients, tx, reply, exiting, rolling, status, asked,
                 excused>>

(* Mutant: connect() does not look whether there is a client.              *)
AlwaysConnects == TRUE

MustConnect == client = NoClient

(* The context is noted first, over one that was not entered.              *)
Connect(t) ==
  /\ at[t] = "idle" /\ t \in Drivers /\ MustConnect
  /\ \E c \in Clients \ (open \cup {client, ctx, Injected}) :
       /\ \A u \in Tasks : session[u] # c
       /\ ctx' = c /\ session' = [session EXCEPT ![t] = c]
       /\ abandoned' = abandoned \ {c}
  /\ at' = [at EXCEPT ![t] = "connect"]
  /\ UNCHANGED <<id, client, open, tx, reply, exiting, rolling, status, asked,
                 excused>>

-----------------------------------------------------------------------------
(* The server answers.                                                     *)

Replies(t, r)   == reply' = [reply EXCEPT ![t] = r]
Becomes(x, s)   == status' = [status EXCEPT ![x] = s]
Awaiting(t, op) == at[t] = op /\ reply[t] = "none"

(* Requests that fail leave no trace the client could see.                 *)
LosesNothing(t) == UNCHANGED <<status, excused>> /\ Replies(t, "error")

ServeBegin(t) ==
  /\ Awaiting(t, "begin")
  /\ \/ /\ \E x \in Txs : /\ status[x] = "unused" /\ Becomes(x, "open")
                          /\ tx' = [tx EXCEPT ![t] = x]
        /\ Replies(t, "ok") /\ UNCHANGED excused
     \/ "refuse" \in Faults /\ LosesNothing(t) /\ UNCHANGED tx
     \/ /\ "noAnswer" \in Faults /\ UNCHANGED tx
        /\ \E x \in Txs : /\ status[x] = "unused" /\ Becomes(x, "open")
                          /\ excused' = excused \cup {x}
        /\ Replies(t, "error")
  /\ UNCHANGED <<id, clients, at, exiting, session, rolling, asked>>

ServeCommit(t) ==
  /\ Awaiting(t, "commit")
  /\ \/ IsOpen(tx[t]) /\ Becomes(tx[t], "committed") /\ Replies(t, "ok")
     \/ ~IsOpen(tx[t]) /\ UNCHANGED status /\ Replies(t, "error")
     \/ /\ IsOpen(tx[t]) /\ "badStatus" \in Faults
        /\ (UNCHANGED status \/ Becomes(tx[t], "ended"))
        /\ Replies(t, "badStatus")
     \/ /\ IsOpen(tx[t]) /\ "noAnswer" \in Faults
        /\ (UNCHANGED status \/ Becomes(tx[t], "committed"))
        /\ Replies(t, "error")
  /\ UNCHANGED <<id, clients, at, tx, exiting, session, rolling, asked,
                 excused>>

ServeStatement(t) ==
  /\ Awaiting(t, "statement")
  /\ \E r \in {"ok", "error"} :
       /\ r = "ok" => (tx[t] = NoTx \/ IsOpen(tx[t]))
       /\ r = "error" => (tx[t] # NoTx /\ ~IsOpen(tx[t])) \/ "refuse" \in Faults
       /\ Replies(t, r)
  /\ UNCHANGED <<id, clients, at, tx, exiting, session, rolling, status,
                 asked, excused>>

(* The request of a rollback, whether a task still waits for it or not.    *)
RollbackAnswered(x, r) ==
  /\ rolling' = rolling \ {x}
  /\ reply' = [t \in Tasks |-> IF at[t] = "rollback" /\ tx[t] = x THEN r
                                                                  ELSE reply[t]]

ServeRollback(x) ==
  /\ x \in rolling
  /\ \/ IsOpen(x) /\ Becomes(x, "ended") /\ RollbackAnswered(x, "ok")
     \/ ~IsOpen(x) /\ UNCHANGED status /\ RollbackAnswered(x, "error")
  /\ UNCHANGED <<id, clients, at, tx, exiting, session, asked, excused>>

RollbackLost(x) ==
  /\ x \in rolling /\ "noAnswer" \in Faults
  /\ (UNCHANGED status \/ (IsOpen(x) /\ Becomes(x, "ended")))
  /\ RollbackAnswered(x, "error") /\ excused' = excused \cup {x}
  /\ UNCHANGED <<id, clients, at, tx, exiting, session, asked>>

TxEnds ==
  /\ "txEnds" \in Faults
  /\ \E x \in Txs : IsOpen(x) /\ Becomes(x, "ended")
  /\ UNCHANGED <<id, clients, suspended, rolling, asked, excused>>

-----------------------------------------------------------------------------
(* A task resumes.                                                         *)

(* Mutant: the new transaction is returned and not noted.                  *)
IdNotNoted(t) == id

IdAfterBegin(t) == tx[t]

BeginReturns(t) ==
  /\ at[t] = "begin" /\ reply[t] # "none"
  /\ \/ /\ reply[t] = "ok"
        /\ id' = IdAfterBegin(t)
     \/ reply[t] # "ok" /\ UNCHANGED id
  /\ CallEnds(t)
  /\ UNCHANGED <<clients, rolling, status, asked, excused>>

(* Mutant: the id is cleared whatever the status, as the sync client does. *)
ClearedByAnyAnswer(t) == reply[t] \in {"ok", "badStatus"}

ClearedByCommit(t) == reply[t] = "ok"

(* Whatever transaction the id names by now is cleared.                    *)
CommitReturns(t) ==
  /\ at[t] = "commit" /\ reply[t] # "none"
  /\ id' = IF ClearedByCommit(t) THEN NoTx ELSE id
  /\ CallEnds(t)
  /\ UNCHANGED <<clients, rolling, status, asked, excused>>

OtherReturns(t) ==
  /\ at[t] \in {"rollback", "statement"} /\ reply[t] # "none"
  /\ CallEnds(t)
  /\ UNCHANGED <<id, clients, rolling, status, asked, excused>>

-----------------------------------------------------------------------------
(* A task is cancelled in an await.                                        *)

(* Mutant: the rollback request is not shielded.                           *)
Unshielded(t) == IF at[t] = "rollback" THEN rolling \ {tx[t]} ELSE rolling

RollingAfterCancel(t) == rolling

(* The answer of a begin that its task has yet to read.                    *)
NewTx(t) == at[t] = "begin" /\ reply[t] = "ok"

(* A request without a shield is broken off: the server carries it out or  *)
(* not.  The exception goes to the caller, through __aexit__'s finally.    *)
CancelRequest(t) ==
  /\ at[t] \in Cancels \cap Requests
  /\ \/ /\ UNCHANGED status
        /\ excused' = IF NewTx(t) THEN excused \cup {tx[t]} ELSE excused
     \/ /\ Awaiting(t, "begin")
        /\ \E x \in Txs : /\ status[x] = "unused" /\ Becomes(x, "open")
                          /\ excused' = excused \cup {x}
     \/ /\ Awaiting(t, "commit") /\ IsOpen(tx[t])
        /\ Becomes(tx[t], "committed") /\ UNCHANGED excused
  /\ rolling' = RollingAfterCancel(t)
  /\ CallEnds(t)
  /\ UNCHANGED <<id, clients, asked>>

-----------------------------------------------------------------------------
(* connect() and close() from their awaits on.                             *)

(* What is left of the call of t.                                          *)
Idle(t) ==
  /\ at' = [at EXCEPT ![t] = "idle"]
  /\ session' = [session EXCEPT ![t] = NoClient]
  /\ UNCHANGED <<tx, reply, exiting>>

Connected(t) ==
  /\ at[t] = "connect"
  /\ open' = open \cup {session[t]} /\ client' = session[t]
  /\ Idle(t)
  /\ UNCHANGED <<id, ctx, abandoned, rolling, status, asked, excused>>

(* Failed or cancelled: the context stays, though it was not entered.      *)
NotConnected(t) ==
  /\ at[t] = "connect"
  /\ "refuse" \in Faults \/ "connect" \in Cancels
  /\ Idle(t)
  /\ UNCHANGED <<id, clients, rolling, status, asked, excused>>

Interrupted(t) == at[t] \in Requests /\ reply[t] = "none"

Committing(x)  == \E u \in Tasks : Awaiting(u, "commit") /\ tx[u] = x

(* Leaving the context of a client breaks off the requests under way, taken*)
(* to be all of this client; the server carries them out or not (a begin:  *)
(* ServeBegin, unanswered).                                                *)
ClientCloses(t) ==
  /\ at[t] = "close" /\ session[t] \in open
  /\ open' = open \ {session[t]}
  /\ reply' = [u \in Tasks |-> IF Interrupted(u) THEN "error" ELSE reply[u]]
  /\ \E landed \in SUBSET {x \in Txs : IsOpen(x) /\ (x \in rolling \/ Committing(x))} :
       status' = [x \in Txs |-> IF x \notin landed   THEN status[x]
                                ELSE IF x \in rolling THEN "ended"
                                ELSE "committed"]
  /\ excused' = excused \cup rolling /\ rolling' = {}
  /\ UNCHANGED <<id, client, ctx, abandoned, at, tx, exiting, session, asked>>

(* Mutant: the client is kept when its context is left.                    *)
ClientKept == client

ClientAfterClose == NoClient

CloseReturns(t) ==
  /\ at[t] = "close" /\ session[t] \notin open
  /\ ctx' = NoClient /\ client' = ClientAfterClose
  /\ Idle(t)
  /\ UNCHANGED <<id, open, abandoned, rolling, status, asked, excused>>

(* Cancelled before or after the client closed, or refused by a context    *)
(* that was never entered: what close() would reset stays.                 *)
CloseRaises(t) ==
  /\ at[t] = "close"
  /\ \/ "close" \in Cancels /\ abandoned' = abandoned \cup {session[t]}
     \/ session[t] \notin open /\ client # session[t] /\ UNCHANGED abandoned
  /\ Idle(t)
  /\ UNCHANGED <<id, client, ctx, open, rolling, status, asked, excused>>

-----------------------------------------------------------------------------
Calls(t) ==
  \/ StartTransaction(t)
  \/ Commit(t, FALSE)
  \/ Rollback(t, FALSE)
  \/ \E err \in BOOLEAN : AExit(t, err)
  \/ Statement(t)
  \/ Close(t)
  \/ Connect(t)

Server(t) == ServeBegin(t) \/ ServeCommit(t) \/ ServeStatement(t)

Resumes(t) ==
  \/ BeginReturns(t) \/ CommitReturns(t) \/ OtherReturns(t)
  \/ CancelRequest(t)

Lifecycle(t) ==
  \/ Connected(t) \/ NotConnected(t)
  \/ ClientCloses(t) \/ CloseReturns(t) \/ CloseRaises(t)

Next ==
  \/ \E t \in Tasks : Calls(t) \/ Server(t) \/ Resumes(t) \/ Lifecycle(t)
  \/ \E x \in Txs : ServeRollback(x) \/ RollbackLost(x)
  \/ TxEnds

Spec == Init /\ [][Next]_vars

(* A rollback request that was sent is answered.                           *)
FairSpec == Spec /\ \A x \in Txs : WF_vars(ServeRollback(x))

-----------------------------------------------------------------------------
(* Properties.                                                             *)

(* Once a rollback is asked for, the connection names the transaction no   *)
(* more: neither a statement nor start_transaction of any task gets into   *)
(* it while the request is under way, also after the task is cancelled.    *)
NotNamedOnceRolledBack == id \notin asked

FreshIsOwn ==
  \A t \in Tasks : NewTx(t) =>
    /\ tx[t] \in Txs /\ status[tx[t]] # "unused"
    /\ tx[t] \notin asked /\ tx[t] # id
    /\ \A u \in Tasks : (NewTx(u) /\ u # t) => tx[u] # tx[t]

KnownIsBegun ==
  /\ id # NoTx => status[id] # "unused"
  /\ \A x \in asked : status[x] # "unused"

(* Inductive: no two tasks, and no task and the connection, know a new     *)
(* transaction, so the id is never set to one that was rolled back.        *)
IdInv == TypeOK /\ FreshIsOwn /\ KnownIsBegun /\ NotNamedOnceRolledBack

Beginning(x) == \E t \in Tasks : NewTx(t) /\ tx[t] = x

(* With one task that begins and ends transactions: a transaction open on  *)
(* the server is named by the connection, about to be, or being rolled     *)
(* back, unless an answer was lost, the client was closed, or the task was *)
(* cancelled in start_transaction.                                         *)
NoOrphanTx ==
  \A x \in Txs : IsOpen(x) =>
    x = id \/ x \in rolling \/ x \in excused \/ Beginning(x)

(* What NoOrphanTx is stated for.                                          *)
OneDriver == \A t, u \in Drivers : t = u

(* The transaction of a begin or a commit under way is the connection's.   *)
DriverInv ==
  \A t \in Tasks :
    /\ at[t] = "begin"  => t \in Drivers /\ id = NoTx
    /\ at[t] = "commit" => t \in Drivers /\ tx[t] = id /\ id # NoTx
    /\ (at[t] = "commit" /\ reply[t] = "ok") => ~IsOpen(tx[t])

(* Inductive where OneDriver holds: commit() clears the id of the          *)
(* transaction that was committed, and of no other.                        *)
OrphanInv == OneDriver => (IdInv /\ DriverInv /\ NoOrphanTx)

(* The client that statements go through is open, for one task that        *)
(* connects and closes: only a close() under way or one that was cancelled *)
(* leaves the connection a closed client.                                  *)
HeldIsOpen ==
  client # NoClient =>
    \/ client \in open \cup abandoned
    \/ \E t \in Tasks : at[t] = "close" /\ session[t] = client

(* close() still reaches every client that connect() opened, after any     *)
(* sequence of calls that fail or are cancelled in between.                *)
NoClientLeaked == open \subseteq {ctx, Injected}

(* What connect() and close() know in their awaits, of which one task has  *)
(* one at a time.                                                          *)
AwaitInv ==
  /\ \A t \in Tasks :
       /\ at[t] = "connect" => t \in Drivers /\ client = NoClient
       /\ at[t] = "close"   => t \in Drivers
       /\ at[t] \in {"connect", "close"} => session[t] = ctx
       /\ exiting[t] => t \in Drivers
  /\ ctx # Injected
  /\ ctx # NoClient => client \in {ctx, NoClient}
  /\ ctx = NoClient => client \in {Injected, NoClient}
  /\ client = NoClient => ctx \notin open

(* Inductive where OneDriver holds.                                        *)
ClientInv == OneDriver => (TypeOK /\ AwaitInv /\ HeldIsOpen /\ NoClientLeaked)

(* What holds of any number of tasks, and what of one driver.              *)
ConnectionInv == IdInv /\ OrphanInv /\ ClientInv

(* A client that was injected is its caller's to close.                    *)
InjectedIsLeftOpen == [][(Injected \in open) => (Injected \in open')]_vars

(* A rollback asked for ends the transaction, cancelled or not, unless its *)
(* request is lost or the client is closed under it.                       *)
RollbackLands == \A x \in Txs : x \in asked ~> ~IsOpen(x) \/ x \in excused
=============================================================================
