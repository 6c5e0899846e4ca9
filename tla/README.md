# aurora-data-api, specified

TLA+ models of [aurora-data-api](https://github.com/chanzuckerberg/aurora-data-api),
a Python DB-API 2.0 driver for the RDS Data API: what TLC checks of them on small
instances, and what TLAPS proves for every value of their constants.

## The system

The driver turns DB-API calls into calls of a stateless HTTP service. What makes that
hard is the state that is kept nevertheless: the transaction id a connection names,
the server-side cursor a paginated result is read from, the page a cursor has buffered.
Each is known on both sides, and every call may be refused, answered late, or never.

| Component | State | Operations | Hard because | Correct when |
|---|---|---|---|---|
| Sync cursor, `__init__.py:129-378` | `description`, `_current_response`, `_paging_state`, `_buffer` | `execute`, `executemany`, `fetch*`, iteration, `scroll`, `close` | falls back to a server-side cursor when a result is too large; halves pages that are; errors between two pages; retries | the caller reads the rows of its last statement, in order, each once, to the end |
| Async cursor, `async_driver.py:192-448` | the same | the same, awaited | cancellation in any await; an `execute` of its own | the same |
| Sync connection, `__init__.py:27-126` | `_transaction_id` | `start_transaction`, `commit`, `rollback`, `with` | a call may fail after the server carried it out; transactions end by themselves | no statement slips out of the transaction, commit and rollback keep their word |
| Async connection, `async_driver.py:49-189` | `_transaction_id`, `client`, `_client_ctx` | the same, awaited, `connect`, `close` | tasks share it; a rollback outlives the task that asked for it; `connect` and `close` check and set across their awaits | no transaction is orphaned or used after its rollback; no client leaks |
| Sync facade, `async_driver.py:479-602` | `_drained_rows` | DB-API methods for SQLAlchemy, `_async_soft_close` | the rows of a result come from the cursor and, after the soft close, from a list | the switch loses no row and repeats none |
| Retry decorator, `retry.py` | the attempt | wraps `execute`, `executemany`, `start_transaction` | runs the whole body anew; its delay can be interrupted | only what it was told to is retried, once per delay |
| Error translation, `exceptions/` | the classes made so far | `translate_database_error`, the attributes of `MySQLError`, `PostgreSQLError` | classes are made on demand, by errors or by handlers | a handler catches the errors it names |
| Type conversion, `type_conversion.py` | none; the cursor's `description` | `build_description`, `format_parameters`, `convert_value` | three type systems meet, two parsers, the description of another result | what is stored is what was meant, what is read is what is stored |
| `connect`, client creation | the client | | configuration | not modelled |

A cursor reads the connection's transaction id when it builds a request; the paging state
keeps a copy of it. Cursors call the client directly. The facade awaits the async cursor
through SQLAlchemy's greenlets. The decorator sits around the cursor's and the
connection's methods, and errors pass through translation before it sees them.

## Modules

    Ranking            tuples of naturals that go down, to say that a call ends
    PgPortal           arithmetic of a PostgreSQL SCROLL cursor (external)
      PagedCursor        the sync cursor and the retry of execute
        AsyncCursor        what the async cursor does differently
        CursorHistory      the sync cursor with a history, for what holds after errors
    ResultStream       what a cursor promises: the abstract specification
      ^ implemented by PagedCursor and SyncAdaptedCursor
    SyncAdaptedCursor  the sync facade, on top of an async cursor taken for a ResultStream
    Retry              the retry decorator: the abstract specification
      ^ implemented by ExecuteMany, executemany of both cursors
    TypeConversion     parameters, descriptions and values of one column
    SyncConnection     the sync connection
    AsyncConnection    the async connection and the tasks that share it
    ErrorTranslation   typed errors and the handlers that name them
    MC*                the instances for TLC;   *Proofs  theorems and their proofs

**PagedCursor.** One step is one call of the Data API with the code that handles its answer,
or one turn of a fetch loop; `pc` says which call is next. `ExecuteServed`, `ExecuteTooLarge`
and `ExecuteRefused` are the three ways out of the `try` of `execute`; `Declared`,
`DeclareRefused` are `_start_paginated_query`; `PageServed`, `PageTooLarge`, `PageRefused`,
`Rewound`, `RewindRefused` are the turns of `_fetch_next_page_into_buffer`; `PopRow`,
`NextPage`, `FetchDone` those of `fetchmany` (`fetchone` asks for one row, `fetchall`
and iteration for all). A row is its statement and its number; what a row weighs is
`Sizes[s][i]`, and a response takes `Limit`. `_buffer` with its index is the interval
`unread`. A whole result and a description are named by the statement they came from. The
time of a retry's delay is left out; its attempts are counted.

**AsyncCursor.** The code of the async cursor is that of the sync cursor with awaits. With
one task nothing but the server moves during an await, so the steps are the same; a task
that is cancelled leaves as if its call had got no answer. What differs is
`execute`'s second `except` (`Swallowed`), and with it the results the Data API refuses
for a reason other than their size, which this module adds.

**ResultStream.** Rows are read in order, each once, and the end is announced only behind
the last one; a call that raises breaks the stream, from which then only the
origin of its rows is promised. `scroll` moves the stream to where the server's position
lands, which is the code's meaning of a relative move.

**SyncAdaptedCursor.** The cursor below it is an instance of `ResultStream`, the stream its
caller reads another one. `execute` and the soft close are split at their awaits, because
there an exception leaves the list behind; the other methods have nothing after theirs.
A call that raises is `ExecuteRaises`, `ExecuteManyRaises`, `DrainFails`, `CursorRaises` (a fetch or
a scroll the cursor refuses, a cancelled task) or `MissingGreenlet` (an await outside a spawn).
That the async cursor is such a stream where no value is unsupported is proved
(`AsyncCursorIsAStream`); `SupportedInOrder` is what its run checks of it.

**SyncConnection.** One step per call, because one thread calls. `phase`, `work`, `excused`
and `last` record what the program was promised, so that `commit` and `rollback`
can be judged by the work, not by the calls. A statement that fails or times out aborts
an open transaction, as PostgreSQL does: no statement runs in it any more, and its COMMIT is
answered like any other but rolls back (`Committed`). `failed` says that a statement has raised
since the program's transaction began.

**AsyncConnection.** A call is split at its await: to it, the server's answer, the resumption.
Between them anything else may happen, cancellation included. The request of a rollback is
a task of its own (`rolling`), as `asyncio.shield` has it. Closing the client breaks off
the requests under way, each of which the server may have carried out. `connect` and `close`
are split at their awaits like the other calls; `ctx` and `session[t]` name the context by
its client, `open` is the set of clients whose context was entered and not left. The
clients of a run are reused when nothing knows them any more.

**ExecuteMany.** `taken` is how far the iterator has got. The difference between a list and a
generator is what a retry's `iter()` does to it. `Wake` is the end of the decorator's delay,
`Interrupted` a cancellation or a signal in it. A parameter that is not a mapping (`odd`) is
found when its batch is formatted, which is before the batch is sent.

**Retry.** The loop of `retry_exceptions` around any body, with the exceptions it is told to
retry by class or by a part of the type's name. `ExecuteMany` implements it with its `pc` mapped
to running, sleeping and ended; the other decorated methods have their attempts inline.

**CursorHistory.** `PagedCursor` forgets what it handed out when a call raises, because the
stream is broken then. This history remembers the last row, to say what is still promised.

**TypeConversion.** A cell of a table and a cursor that fetches it. A value is abstracted to its
form (a number, a time, a text, Python's repr) and the digits of its fraction of a second.
`PrepareParam` and `ConvertValue` follow the functions they are named after branch by branch;
what PostgreSQL takes and the Data API sends (`Takes`, `WireField`, `DigitsSent`) is external.

**ErrorTranslation.** A class is a number, so that two classes of one name can be told apart.
Names and codes are constants; whether a pattern finds a code in a message is an input.

## Runs

Runs that pass:

| Run | Question | Instance, and why it is enough |
|---|---|---|
| `cursor_faults` | does the caller read the stream of its rows, whatever fails, and does a row come again to one who goes on? | results below and above the limit, whose pages must be halved; a statement no cursor can be declared for; two attempts; all faults, also a server that ends the transaction with an oversized result; with and without transaction |
| `cursor_uneven` | is a row ever passed over, do back-off and retries end? | heavy rows at the end, so that a rewind misses its page; all faults; under fairness |
| `async_cursor` | the same of the async cursor | an unsupported value in the first page, in the second page, in none |
| `executemany` | what was applied, however it ended? does it end, and retry as it should? | five parameters in batches of two and of three: full and short ones; an `arraysize` of 0; any parameter not a mapping; two retries; under fairness |
| `sync_connection` | do transactions keep their word? | three transactions: one that failed, its successor and a leaked one; statements that fail, time out or are done unanswered, and the aborted transaction behind them; all faults |
| `async_connection` | is a transaction orphaned, used after its rollback, does a rollback end it? is a client leaked or kept closed? | one task drives, one executes, both cancelled at any await; two transactions: one ending while the next begins; two clients of its own, one left behind while the next is entered, and an injected one; all faults; under fairness |
| `sync_adapted` | does SQLAlchemy read one stream? | results of three rows and of one; soft close, failure and spawn switch at every point, any call refused or made outside a spawn |
| `type_conversion` | is what is stored what was meant, and what is read what is stored? | a column for each branch of the conversion and each entry that differs; fractions with 0, 3, 5 and 6 digits; every Python type |
| `error_translation` | does a handler catch what it names? | a code with an alias, two without, one that is not listed |

Bounds: `Txs` bounds the transactions a server begins, `Retries` the delays of the
decorator (4 in the code; 1 to 4 in the runs: each attempt starts over alike). The row of a
counterexample needs at most two page boundaries, which five rows in pages of two and four have.
One driver in `async_connection` is no loss for `NotNamedOnceRolledBack`: its theorem holds
for any number of them.

Runs that show a disagreement between the code and what the repository says:

| Run | The repository says | The code does |
|---|---|---|
| `cursor_duplicates` | `README.rst:69`, paginates | an oversized last page is rewound too far: rows come twice |
| `sync_connection_retry` | `retry.py:2` | `start_transaction` hides the exception its decorator retries |
| `async_cursor_swallow` | `README.rst:69` | a refused first page is swallowed |

Also seen, without a run of their own:

- `README.rst:46`, "as you would use any DB-API compatible driver": `description` is kept from the
  first result with columns on (`__init__.py:177`), so later results are converted by the
  columns of another one: a value may raise, and the digits of a number be read as a date
  (`RaisesOnlyFor` and `NeverAnotherValue` say what is left).
- `Changes.rst:12` speaks of JSON and UUID: their columns are described as `dict` and `UUID`, but
  fetched as `str` (`ReadsAsDescribed` leaves them out), and `inet`, `cidr` likewise; `bytea` is
  described as `bytearray` and fetched as `bytes`, `varbit` as `bytes` and fetched as `str`.
- A `dict`, `list` or `bytearray` parameter reaches a column of text, or of bytes through a CAST, as
  Python's repr, where `__init__.py:233` refuses only parameter sets that are no mapping
  (`StoredIsGiven`).
- `__init__.py:75` takes the status of a commit for its success. A program that catches the error
  of a statement inside a `with` block and goes on, as `test/test.py:219-232` does, has an aborted
  transaction: the block ends well and nothing of it is stored, also not what succeeded before
  (`CommitKeepsWork` says that it is then nothing, never a part).
- A `close()` of the async connection that is cancelled after its client closed keeps that
  client: `connect()` then does nothing and every request raises (`HeldIsOpen`).
- `README.rst:52` takes the ARNs from the environment; the `connect` of `async_driver.py:466` takes
  the region from its arguments alone and raises without them.
- "if required" (`README.rst:69`): the DECLARE of the fallback (`__init__.py:193`) needs a
  transaction, which nobody starts for the caller, and a statement PostgreSQL declares cursors
  for, which `INSERT ... RETURNING` is not (`Undeclarable`). Where the oversized result itself ends
  the transaction, as the reason of a skipped test says (`test/test.py:149-152`, the fault
  `oversizeEnds`), the fallback fails always. `PaginatesIfPossible` names these cases: it shows that,
  with no fault, a call fails for a size in them alone, not that the fallback is of use to a
  server that always ends the transaction.
- `translate.py:19`, "Map boto3 Data API exceptions": the refusals of DECLARE and of the MOVE of
  `scroll` pass no handler that calls it (the outcome `badRequest`).
- `test/test.py:121` counts one row per parameter: a retry of `executemany` applies a list's
  first batches again and passes over the batch of a generator that failed;
  `ReturnsWhenAllApplied` and `GeneratorNeverTwice` say what is left of the promise.
- `async_driver.py:152,167`, a shielded rollback "keeps running": the cancelled block of
  `async with` closes the client under it (line 110); `RollbackLands` excuses it.
- `async_driver.py:410`, "nothing is allocated server-side that a close needs to free": a
  paginated result has a server-side cursor, which stays open until its transaction ends.
- `async_driver.py:533`: an `execute` of the facade that raises leaves the drained rows of the
  statement before, and the fetch methods serve them (`Reopen` of `ResultStream`).
- `README.rst:74` iterates over what `execute` returns, which is `None`.
- The sync client clears its id after a commit with an unexpected status and keeps it
  after a failed rollback, the async one the other way round, though it "mirrors the sync
  client" (`async_driver.py:51`).

**Fairness.** `cursor_uneven` assumes `WF(DriverStep)`: the code of a call runs on and
each call of the Data API is answered or times out, which boto3's timeouts see to.
`async_connection` assumes `WF(ServeRollback(x))`: a request that was sent is answered.
`executemany` assumes `WF(Next)`: its one call runs on, its requests are answered or time out,
its delays end. Elsewhere callers, faults and
cancellation are never fair, and no task is assumed to resume.

**Deadlock** is checked but in `executemany`, whose single call ends.

## Proofs

| Theorem | For | Says |
|---|---|---|
| `PagedCursorProofs`: `TypeCorrect`, `RowsAreOfLastExecute` | all sizes, faults, retries | no row of another statement, whatever fails |
| `NoGapInvAlways`, `NoRowIsSkipped` | the same | no row is passed over, heavy tails included |
| `PaginationInvAlways`, `PaginatesAsRequired` | all sizes, faults, retries | only a fault, a row too large by itself, a statement no cursor can be declared for or a missing transaction makes a statement fail for its size |
| `CursorInvAlways`, `RowsAreInOrder`, `ShortResultsAreWhole` | sizes with `NoTailOverflow` | rows in order, once, and whole |
| `StreamInvAlways`, `CursorIsAStream` | the same | `PagedCursor` implements `ResultStream` |
| `HistoryInvAlways`, `RowsNeverComeAgain` | the same | rows ascend, also behind calls that raised |
| `CallsAreFinite` | all sizes, faults, retries | each step of a call brings it nearer to its end |
| `AsyncCursorProofs`: `AsyncRowsAreOfLastExecute`, `AsyncCallsAreFinite` | all sizes, unsupported values, faults | the same of the async cursor |
| `SupportedRowsAreInOrder` | `NoTailOverflow` | in order and whole, where no value of the statement is unsupported |
| `HeadInvAlways`, `OnlyTheHeadIsMissing` | `NoTailOverflow` | whatever is swallowed, only the beginning of a result may be missing |
| `AsyncCursorIsAStream` | `NoTailOverflow`, no unsupported values | `AsyncCursor` implements `ResultStream` |
| `SyncAdaptedCursorProofs`: `FacadeInvAlways`, `TypeCorrect`, `DrainedListIsTheRest` | results of any length | facade and cursor stay in step; the list of a soft close is the rest of the result |
| `FacadeIsAStream` | the same | the facade implements the stream it is built upon |
| `SyncConnectionProofs`: `ConnectionInvAlways`, `StatementsStayInside`, `CommitsKeepTheWork`, `RollbacksUndoTheWork`, `NothingLeaksUnseen` | all faults, any number of transactions | the properties of `sync_connection` |
| `AsyncConnectionProofs`: `ConnectionInvAlways`, `RolledBackIsNotNamed` | any number of tasks, cancelled anywhere | a rolled back transaction is never named |
| `NoTransactionIsOrphaned` | `OneDriver` | an open transaction is named, beginning, ending, or lost by a fault, a close or a cancelled `start_transaction` |
| `OpenedClientsAreHeld`, `HeldClientIsOpen`, `InjectedIsNotClosed` | `OneDriver`, any number of clients | no client leaks, none but an abandoned one is kept closed, an injected one is left open |
| `ExecuteManyProofs`: `BatchInvAlways`, `ListsAreApplied`, `GeneratorsAreAppliedOnce`, `ListsAreAppliedInOrder`, `OddParametersStop` | any length, `arraysize`, retries | the safety properties of `executemany` |
| `RetriesAsPromised`, `CallIsFinite` | the same | `ExecuteMany` implements `Retry`; each step brings the call nearer to its end |
| `TypeConversionProofs`: `TypeCorrect`, `FetchesDenoteTheCell`, `CellsHoldWhatWasGiven` | any columns and fractions | a fetch denotes the cell, a cell what was meant |
| `ReadInvAlways`, `ValuesReadAsDescribed`, `RaisesForNothingElse` | the same | values have the type described; which fetches raise |
| `ErrorTranslationProofs`: `FactoryInvAlways`, `TypedErrorsAreCaught`, `NothingElseIsCaught` | any enumeration | the properties of `error_translation` |

Each follows one pattern: an invariant that is inductive, one lemma per group of actions, and
a last step by temporal logic. The properties alone are not inductive:

- **CursorInv.** `RowsInOrder` speaks of rows handed out, and the next row comes from the
  buffer, whose rows came from the server's position. The invariant ties the three: the
  first buffered row follows the caller's place (`BufferInStep`), the server's position is
  behind the buffer or, in a rewind, behind the page that did not fit (`PortalInStep`), and
  without pagination the buffer reaches the end (`WholeResult`). The rewind is where
  `NoTailOverflow` is needed: a page that does not fit must be a full one. The code gives no
  such guarantee, which is the finding of `cursor_duplicates`: that run violates the theorem
  without the assumption. `OwnRowsInv` is the part that needs none.
- **NoGapInv** is what is left of it with a heavy tail: the rewind may end before the page
  began, never behind, so what comes next follows a row that was taken. It needs no
  assumption on sizes, but speaks of all rows taken, where `CursorInv` counts them.
- **PaginationInv.** A page state without a server-side cursor is what makes a fetch fail, and
  while no fault has struck and the transaction is open there is none (`PagingHasPortal`): the
  cursor lives as long as its transaction, which an oversized result may end.
- **StreamInv.** A step of the stream must read rows that exist and stop early only at the end,
  so to `CursorInv` it adds that rows collected, which the caller does not see yet, exist.
- **HistoryInv.** Behind a call that raised, `CursorInv` promises nothing (`clean`). What is left
  is that buffer and server are behind the last row returned, also in a rewind.
- **HeadInv.** After a swallowed page the place of the caller is not the row's number any more;
  the rows taken still follow one another, and the next one follows the last.
- **Rank** (`CallsRunDown`, `CallRunsDown`). Attempts weigh more than the parts of `execute`, these
  more than the size of a page, this more than the rows ahead: a back-off that goes back
  halves the page, a second start costs the only one there is, a retry an attempt. With a
  rank of naturals no call has infinitely many steps; that its steps are taken is fairness.
- **FacadeInv.** What the caller was given and what is collected or drained is, together, what
  the cursor gave, as long as no call has raised; `DrainedIsTheRest` says it only of the end.
- **SyncConnection's ConnectionInv.** The work of a program is in the one transaction the id
  names; after a commit that raised and then lost its id, that work is not committed. What a
  commit does to an aborted transaction is excused only where a statement has raised, so the
  invariant ties the two (`AbortIsSeen`).
- **AsyncConnection's ConnectionInv** has three parts. **IdInv:** an answer to
  `begin_transaction` that its task has yet to read is known to no other task and was not
  asked to be rolled back. **OrphanInv:** the commit under way is of
  the transaction the id names, which is false with two drivers. **ClientInv:** the context
  one task awaits in `connect()` or `close()` is the one the connection names, which is false
  with two; without a client no open one is named, so that `connect()` overwrites none.
- **BatchInv.** Up to `Done` the parameters of this attempt are applied, behind it at most
  once per attempt before.
- **ReadInv.** What a fetch makes of a cell depends on what the column can hold (`CellFits`): a
  column keeps only what PostgreSQL takes for its type.
- **FactoryInv.** Different names have different classes, and an error or a reference in use
  has the class its factory keeps.

The assumptions on constants are those of each module's `ConstantsOK`. The hypotheses
beyond them are `NoTailOverflow` (above; the rows of `cursor_faults` and `async_cursor` have it,
those of `cursor_uneven` do not) and `OneDriver` (`threadsafety` is 0: tasks execute, one begins,
ends, connects and closes). `AllSupported` only says where two modules
are one.

The type invariants are conjuncts of the inductive invariants. The runs check `StreamInv`,
`FacadeInv`, `BatchInv`, `FactoryInv` and both `ConnectionInv`; those that no run lists were checked
on the same instances before they were proved.

Model-checked only: liveness (`CallReturns`, `CallEnds`, `RollbackLands`), because fairness and
ENABLED are out of the prover's reach; of the first two the ranks are the part that is
proved. The modules use no RECURSIVE operators, and nothing proved needs induction over data.

## Not modelled

- Two tasks on one cursor: `threadsafety` is 0, and nothing is promised that could be stated.
- A second soft close: SQLAlchemy closes a result once.
- The regular expressions of the translation, whose outcome is an input.
- What a value says beyond its form and its fraction, and columns that are arrays of moments.
- The order in time of requests of two clients: those under way are taken to be of the
  client that closes.
- MySQL's failed statements, which are undone alone or, in a deadlock, end the transaction; and
  SAVEPOINT, COMMIT or ROLLBACK executed as statements.
- A result the sync cursor is refused for another reason than its size is raised (`__init__.py:200-203`)
  and is modelled as a call without an answer (`NoAnswer`); the async cursor's is in `AsyncCursor`.
- `rowcount` and `lastrowid`, which only read; the facade's copies of `arraysize` and `description`.
- Client creation, and the facade connection, which forwards every method and keeps no state.

## Plan

Done, in this order: the sync cursor and its stream; the sync connection; the async
connection; executemany; the async cursor; the sync facade; error translation; the
invariants above and their proofs; type conversion; the retry decorator and its refinement;
the awaits inside `connect()` and `close()`; the history of the cursor; the refinements of
`ResultStream`, the gaps, the pagination, the drained list and the ranks, proved. Next:

1. Proofs: a rank for the soft close's drain and for `AsyncConnection`'s requests; `NeverAgain`
   of the async cursor, which has no history yet.
2. `SharedCursor`: an async cursor with two tasks, to state what a task may still rely on.
3. `ConnectionMirror`: both connections under one script of answers, to say where the
   async one mirrors the sync one.
4. The facade with the second soft close, its copies of `arraysize` and `description`.
