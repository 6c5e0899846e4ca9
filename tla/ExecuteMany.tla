---------------------------- MODULE ExecuteMany -----------------------------
(***************************************************************************)
(* executemany of both cursors (aurora_data_api/__init__.py, 221-238, and  *)
(* async_driver.py): the parameters are cut into batches of arraysize, each*)
(* batch is a call of its own, and the retry decorator of                  *)
(* aurora_data_api/retry.py runs the whole body anew.  The parameters come *)
(* in a list, which every attempt reads from its start, or in a generator, *)
(* which goes on where the attempt before left it.  Outside a transaction  *)
(* what was applied stays applied.                                         *)
(***************************************************************************)
EXTENDS Ranking

CONSTANTS
  N,           (* the number of parameters                                 *)
  ArraySizes,  (* the values of cursor.arraysize                           *)
  Retries,     (* the number of delays of the retry decorator              *)
  Faults       (* the faults of the environment, see FaultKinds            *)

FaultKinds == {"refuse", "resuming", "noAnswer", "interrupt"}

ASSUME ConstantsOK ==
  /\ N \in Nat
  /\ ArraySizes \subseteq Nat
  /\ Retries \in Nat
  /\ Faults \subseteq FaultKinds

VARIABLES
  source,   (* what the parameters came in                               *)
  size,     (* cursor.arraysize                                          *)
  odd,      (* the parameter that is not a mapping, 0 if all are         *)
  pc,       (* "page": the next batch is cut; "send": it is on the wire; *)
            (* "sleep": before the next attempt                          *)
  taken,    (* the parameters the iterator has given out                 *)
  first,    (* the batch on the wire is first .. taken                   *)
  attempt,  (* the attempt of the retry decorator, from 0                *)
  exc,      (* the exception the decorator last caught                   *)
  applied   (* applied[i]: how often parameter i was applied             *)

argument == <<source, size, odd>>
vars     == <<argument, pc, taken, first, attempt, exc, applied>>

Params   == 1 .. N
Caught   == {"refused", "resuming", "noAnswer", "notSupported"}
Outcomes == {"returned", "raised"}

TypeOK ==
  /\ source \in {"list", "generator"}
  /\ size \in ArraySizes
  /\ odd \in 0 .. N
  /\ pc \in {"page", "send", "sleep"} \cup Outcomes
  /\ taken \in 0 .. N
  /\ first \in 1 .. N + 1
  /\ attempt \in 0 .. Retries
  /\ exc \in Caught \cup {"none", "interrupted"}
  /\ applied \in [Params -> 0 .. Retries + 1]

Init ==
  /\ source \in {"list", "generator"} /\ size \in ArraySizes /\ odd \in 0 .. N
  /\ pc = "page" /\ taken = 0 /\ first = 1 /\ attempt = 0 /\ exc = "none"
  /\ applied = [i \in Params |-> 0]

-----------------------------------------------------------------------------
(* The retry decorator.                                                    *)

(* Mutant: one attempt too many.                                           *)
OneMoreAttempt == attempt <= Retries

AttemptsLeft == attempt < Retries

(* Mutant: every exception is retried.                                     *)
RetriesAll(e) == TRUE

Retried(e) == e = "resuming"

Raises(e) ==
  /\ exc' = e
  /\ pc' = IF Retried(e) /\ AttemptsLeft THEN "sleep" ELSE "raised"

(* Mutants: a list is not read anew; a generator is.                       *)
TakenGoesOn    == taken
TakenFromStart == 0

TakenAtRetry == IF source = "list" THEN 0 ELSE taken

(* After the delay the body runs anew, with an iter() of its own.          *)
Wake ==
  /\ pc = "sleep"
  /\ pc' = "page" /\ attempt' = attempt + 1 /\ exc' = "none"
  /\ taken' = TakenAtRetry
  /\ UNCHANGED <<argument, first, applied>>

(* The task is cancelled, or the thread interrupted, while it sleeps.      *)
Interrupted ==
  /\ pc = "sleep" /\ "interrupt" \in Faults
  /\ pc' = "raised" /\ exc' = "interrupted"
  /\ UNCHANGED <<argument, taken, first, attempt, applied>>

-----------------------------------------------------------------------------
(* The body.                                                               *)

Lesser(a, b) == IF a < b THEN a ELSE b

(* Mutant: a parameter is skipped between two batches.                     *)
SkipsOne == taken + 2

BatchStart == taken + 1

(* `page_size or self.arraysize` is arraysize, also when that is 0.        *)
BatchIsEmpty == taken = N \/ size = 0

(* Mutant: only the first parameter of a batch is looked at.               *)
FirstIsMapping == first' # odd

AllMappings == odd \notin first' .. taken'

(* _page_input: islice of the iterator, whose parameters are formatted     *)
(* before any of them is sent.                                             *)
NextBatch ==
  /\ pc = "page" /\ ~BatchIsEmpty
  /\ first' = Lesser(BatchStart, N)
  /\ taken' = Lesser(taken + size, N)
  /\ \/ AllMappings /\ pc' = "send" /\ UNCHANGED exc
     \/ ~AllMappings /\ Raises("notSupported")
  /\ UNCHANGED <<argument, attempt, applied>>

(* Mutant: the empty batch is not what iter() takes for the end.           *)
GoesOnWhenEmpty == "page"

AfterEmptyBatch == "returned"

NoMoreBatches ==
  /\ pc = "page" /\ BatchIsEmpty
  /\ pc' = AfterEmptyBatch
  /\ UNCHANGED <<argument, taken, first, attempt, exc, applied>>

AppliedUpTo(k) ==
  applied' = [i \in Params |-> applied[i] + (IF i \in first .. k THEN 1 ELSE 0)]

Served ==
  /\ pc = "send"
  /\ pc' = "page" /\ AppliedUpTo(taken)
  /\ UNCHANGED <<argument, taken, first, attempt, exc>>

(* A parameter of the batch is refused; those before it may stay applied.  *)
Refused ==
  /\ pc = "send" /\ "refuse" \in Faults
  /\ Raises("refused")
  /\ \E k \in first - 1 .. taken - 1 : AppliedUpTo(k)
  /\ UNCHANGED <<argument, taken, first, attempt>>

Resuming ==
  /\ pc = "send" /\ "resuming" \in Faults
  /\ Raises("resuming")
  /\ UNCHANGED <<argument, taken, first, attempt, applied>>

(* A timeout, a broken connection or a cancellation, whatever the server   *)
(* did.                                                                    *)
NoAnswer ==
  /\ pc = "send" /\ "noAnswer" \in Faults
  /\ Raises("noAnswer")
  /\ (UNCHANGED applied \/ AppliedUpTo(taken))
  /\ UNCHANGED <<argument, taken, first, attempt>>

Next ==
  \/ NextBatch \/ NoMoreBatches
  \/ Served \/ Refused \/ Resuming \/ NoAnswer
  \/ Wake \/ Interrupted

Spec == Init /\ [][Next]_vars

(* A call of the Data API is answered or times out, a sleep ends, and the  *)
(* code between them runs on.                                              *)
FairSpec == Spec /\ WF_vars(Next)

-----------------------------------------------------------------------------
(* Properties.                                                             *)

(* When executemany returns, every parameter of a list was applied, and    *)
(* without a retry each exactly once, whatever batches they came in; with  *)
(* an arraysize of 0 it returns without having applied any.                *)
ReturnsWhenAllApplied ==
  pc = "returned" =>
    /\ source = "list" /\ size > 0 => \A i \in Params : applied[i] >= 1
    /\ attempt = 0 => \A i \in Params : applied[i] = IF size = 0 THEN 0 ELSE 1

(* A parameter that came from a generator is never applied twice: a retry  *)
(* starts behind the batch that failed, and a call without an answer is not*)
(* repeated.                                                               *)
GeneratorNeverTwice == source = "generator" => \A i \in Params : applied[i] <= 1

(* However the call of a list ends, what was applied is a prefix of it: the*)
(* program can find out where it stopped.                                  *)
ListAppliedInOrder ==
  source = "list" =>
    \A i, j \in Params : i < j /\ applied[j] > 0 => applied[i] > 0

(* Neither a parameter that is not a mapping nor one behind it is ever     *)
(* applied, by any attempt and from either source.                         *)
StopsBeforeOdd ==
  odd # 0 => \A i \in Params : i >= odd => applied[i] = 0

(* The retry decorator around executemany: where a call is in its loop.    *)
At == IF pc \in {"page", "send"} THEN "running"
      ELSE IF pc = "sleep" THEN "sleeping" ELSE pc

Decorator == INSTANCE Retry WITH
  Argument   <- {[kind |-> "name", is |-> "DatabaseResumingException"]},
  Exceptions <- Caught,
  InstanceOf <- {},
  NamedLike  <- {<<"resuming", "DatabaseResumingException">>},
  Interrupts <- {"interrupted"},
  None       <- "none",
  at         <- At

(* executemany is retried as the decorator promises: only for a resuming   *)
(* database, at most once per delay, and never after another exception.    *)
ImplementsRetry == Decorator!Spec

(* Every call of executemany ends, whatever fails on the way.              *)
CallEnds == <>(pc \in Outcomes)

(* Inductive: the parameters of this attempt that were applied.            *)
Done == IF pc = "page" \/ pc = "returned" THEN taken ELSE first - 1

BatchInv ==
  /\ TypeOK
  /\ pc = "send" => first <= taken
  /\ pc \in {"page", "returned", "send"} =>
       /\ Done <= N
       /\ source = "list" => \A i \in Params : i <= Done => applied[i] >= 1
       /\ \A i \in Params : i > Done => applied[i] <= attempt
       /\ source = "generator" => \A i \in Params : i > Done => applied[i] = 0
       /\ attempt = 0 => \A i \in Params : i <= Done => applied[i] = 1
  /\ pc = "sleep" /\ source = "generator" =>
       \A i \in Params : i > taken => applied[i] = 0
  /\ pc = "returned" => (taken = N \/ size = 0)
  /\ size = 0 => (taken = 0 /\ pc \in {"page", "returned"})
  /\ pc = "sleep" => exc = "resuming" /\ attempt < Retries
  /\ pc \in {"page", "send", "returned"} => exc = "none"
  /\ odd # 0 /\ pc # "raised" => taken < odd
  /\ \A i \in Params : applied[i] <= attempt + 1
  /\ GeneratorNeverTwice /\ ListAppliedInOrder /\ StopsBeforeOdd

(* How far the call is before its end: attempts, parameters the iterator   *)
(* still has, and what is left to do with a batch.                         *)
StepsOfBatch == IF pc = "send" THEN 2
                ELSE IF pc \in {"page", "sleep"} THEN 1 ELSE 0

Rank == <<Retries - attempt, N - taken, StepsOfBatch>>

RankIsNat == \A k \in DOMAIN Rank : Rank[k] \in Nat

(* Each step brings the call nearer to its end, whatever fails and however *)
(* often it is retried: no attempt cuts the same batches for ever.         *)
CallRunsDown == [][RankIsNat' /\ Below(Rank', Rank)]_vars
=============================================================================
