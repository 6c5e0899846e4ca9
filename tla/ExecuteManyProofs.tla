------------------------- MODULE ExecuteManyProofs --------------------------
(***************************************************************************)
(* Theorems about ExecuteMany for any number of parameters, batch size,    *)
(* number of retries and faults.                                           *)
(***************************************************************************)
EXTENDS ExecuteMany, TLAPS

LEMMA InitBatch == Init => BatchInv
BY ConstantsOK
DEF Init, BatchInv, TypeOK, Outcomes, Caught, Done, Params,
    GeneratorNeverTwice, ListAppliedInOrder, StopsBeforeOdd

LEMMA NextBatchKeeps ==
  ASSUME BatchInv, NextBatch
  PROVE  BatchInv'
<1>1. /\ pc = "page" /\ size > 0 /\ taken < N /\ size \in Nat
      /\ first' = taken + 1 /\ taken' \in taken + 1 .. N
      /\ UNCHANGED <<source, size, odd, attempt, applied>>
      /\ \/ odd \notin first' .. taken' /\ pc' = "send" /\ UNCHANGED exc
         \/ pc' = "raised" /\ exc' = "notSupported"
  BY ConstantsOK
  DEF NextBatch, BatchIsEmpty, BatchStart, Lesser, AllMappings, Raises, Retried,
      argument, BatchInv, TypeOK
<1>2. TypeOK'
  BY <1>1, ConstantsOK DEF BatchInv, TypeOK, Outcomes, Caught
<1>3. pc' # "raised" /\ odd # 0 => taken' < odd
  BY <1>1, ConstantsOK DEF BatchInv, TypeOK
<1>. QED
  BY <1>1, <1>2, <1>3, ConstantsOK
  DEF BatchInv, TypeOK, Done, Params, GeneratorNeverTwice, ListAppliedInOrder,
      StopsBeforeOdd

LEMMA NoMoreKeeps ==
  ASSUME BatchInv, NoMoreBatches \/ UNCHANGED vars
  PROVE  BatchInv'
BY ConstantsOK
DEF NoMoreBatches, BatchIsEmpty, AfterEmptyBatch, vars, argument, BatchInv,
    TypeOK, Outcomes, Done, Params, GeneratorNeverTwice, ListAppliedInOrder,
    StopsBeforeOdd

(* The first rows of the batch on the wire are applied once more.          *)
LEMMA AppliedOnce ==
  ASSUME BatchInv, pc = "send", NEW k \in first - 1 .. taken, AppliedUpTo(k)
  PROVE  /\ applied' \in [Params -> 0 .. Retries + 1]
         /\ \A i \in Params : applied'[i] =
              IF i \in first .. k THEN applied[i] + 1 ELSE applied[i]
<1>1. \A i \in Params : applied'[i] =
        IF i \in first .. k THEN applied[i] + 1 ELSE applied[i]
  BY ConstantsOK DEF AppliedUpTo, BatchInv, TypeOK
<1>2. \A i \in Params : i \in first .. k => applied[i] <= attempt
  BY ConstantsOK DEF BatchInv, TypeOK, Done, Params
<1>3. \A i \in Params : applied'[i] \in 0 .. Retries + 1
  BY <1>1, <1>2, ConstantsOK DEF BatchInv, TypeOK, Params
<1>. QED BY <1>1, <1>3 DEF AppliedUpTo

(* The parameters applied before stay a prefix of a list.                  *)
LEMMA PrefixGrows ==
  ASSUME BatchInv, pc = "send", NEW k \in first - 1 .. taken, AppliedUpTo(k),
         source' = source, NEW i \in Params
  PROVE  /\ applied'[i] <= attempt + 1
         /\ source = "generator" => applied'[i] <= 1
         /\ i <= k /\ (source = "list" \/ attempt = 0) => applied'[i] >= 1
         /\ i <= k /\ attempt = 0 => applied'[i] = 1
         /\ i > k => applied'[i] = applied[i]
         /\ i < first => applied'[i] = applied[i]
<1>1. /\ applied[i] \in Nat /\ i \in Nat /\ first \in Nat /\ k \in Int
      /\ attempt \in Nat /\ applied[i] <= attempt + 1
  BY ConstantsOK DEF BatchInv, TypeOK, Params
<1>2. applied'[i] = IF i \in first .. k THEN applied[i] + 1 ELSE applied[i]
  BY AppliedOnce
<1>3. /\ i >= first => applied[i] <= attempt
      /\ i >= first /\ source = "generator" => applied[i] = 0
      /\ i < first /\ source = "list" => applied[i] >= 1
      /\ i < first /\ attempt = 0 => applied[i] = 1
  BY <1>1 DEF BatchInv, Done
<1>4. source = "generator" => applied[i] <= 1
  BY DEF BatchInv, GeneratorNeverTwice
<1>. QED BY <1>1, <1>2, <1>3, <1>4

LEMMA PrefixKept ==
  ASSUME BatchInv, pc = "send", NEW k \in first - 1 .. taken, AppliedUpTo(k),
         UNCHANGED argument
  PROVE  GeneratorNeverTwice' /\ ListAppliedInOrder' /\ StopsBeforeOdd'
<1>. source' = source /\ odd' = odd
  BY DEF argument
<1>1. GeneratorNeverTwice'
  BY PrefixGrows DEF GeneratorNeverTwice
<1>2. ASSUME source = "list", NEW i \in Params, NEW j \in Params, i < j,
             applied'[j] > 0
      PROVE  applied'[i] > 0
  <2>1. /\ i \in Int /\ j \in Int /\ k \in Int
        /\ applied[i] \in Nat /\ applied'[i] \in Nat
    BY AppliedOnce, ConstantsOK DEF Params, BatchInv, TypeOK
  <2>2. CASE i <= k
    BY <1>2, <2>1, <2>2, PrefixGrows
  <2>3. CASE i > k
    BY <1>2, <2>1, <2>3, PrefixGrows DEF BatchInv, ListAppliedInOrder
  <2>. QED BY <2>1, <2>2, <2>3
<1>3. ASSUME odd # 0, NEW i \in Params, i >= odd
      PROVE  applied'[i] = 0
  <2>1. i > k /\ applied[i] = 0
    BY <1>3, ConstantsOK DEF BatchInv, TypeOK, StopsBeforeOdd, Params
  <2>. QED BY <2>1, PrefixGrows
<1>. QED BY <1>1, <1>2, <1>3 DEF ListAppliedInOrder, StopsBeforeOdd

LEMMA ServedKeeps ==
  ASSUME BatchInv, Served
  PROVE  BatchInv'
<1>1. /\ pc = "send" /\ pc' = "page" /\ AppliedUpTo(taken)
      /\ UNCHANGED argument /\ source' = source /\ size' = size /\ odd' = odd
      /\ taken' = taken /\ first' = first /\ attempt' = attempt /\ exc' = exc
      /\ taken \in first - 1 .. taken
  BY ConstantsOK DEF Served, argument, BatchInv, TypeOK
<1>2. TypeOK'
  BY <1>1, AppliedOnce, ConstantsOK DEF BatchInv, TypeOK
<1>3. Done' = taken /\ Done = first - 1 /\ taken <= N /\ first <= taken
  BY <1>1 DEF Done, BatchInv, TypeOK
<1>4. \A i \in Params :
        /\ applied'[i] <= attempt + 1
        /\ i <= taken => (source = "list" => applied'[i] >= 1)
        /\ i <= taken => (attempt = 0 => applied'[i] = 1)
        /\ i > taken => applied'[i] = applied[i]
  BY <1>1, PrefixGrows
<1>5. \A i \in Params : i > taken => /\ applied[i] <= attempt
                                     /\ source = "generator" => applied[i] = 0
  BY <1>1, <1>3, ConstantsOK DEF BatchInv, TypeOK, Params
<1>6. GeneratorNeverTwice' /\ ListAppliedInOrder' /\ StopsBeforeOdd'
  BY <1>1, PrefixKept
<1>. QED BY <1>1, <1>2, <1>3, <1>4, <1>5, <1>6 DEF BatchInv, Params

LEMMA FailedKeeps ==
  ASSUME BatchInv, Refused \/ NoAnswer
  PROVE  BatchInv'
<1>1. CASE UNCHANGED applied
  BY <1>1, ConstantsOK
  DEF Refused, NoAnswer, Raises, Retried, argument, BatchInv, TypeOK,
      Outcomes, Caught, Done, Params, GeneratorNeverTwice, ListAppliedInOrder,
      StopsBeforeOdd
<1>2. ASSUME NEW k \in first - 1 .. taken, AppliedUpTo(k)
      PROVE  BatchInv'
  <2>1. /\ pc = "send" /\ pc' = "raised" /\ exc' \in {"refused", "noAnswer"}
        /\ UNCHANGED argument /\ source' = source /\ size' = size /\ odd' = odd
        /\ taken' = taken /\ first' = first /\ attempt' = attempt
    BY DEF Refused, NoAnswer, Raises, Retried, argument
  <2>2. TypeOK'
    BY <1>2, <2>1, AppliedOnce DEF BatchInv, TypeOK, Outcomes, Caught
  <2>3. \A i \in Params : applied'[i] <= attempt + 1
    BY <1>2, <2>1, PrefixGrows
  <2>4. GeneratorNeverTwice' /\ ListAppliedInOrder' /\ StopsBeforeOdd'
    BY <1>2, <2>1, PrefixKept
  <2>. QED BY <2>1, <2>2, <2>3, <2>4 DEF BatchInv
<1>. QED
  BY <1>1, <1>2, ConstantsOK DEF Refused, NoAnswer, BatchInv, TypeOK

LEMMA ResumingKeeps ==
  ASSUME BatchInv, Resuming \/ Wake \/ Interrupted
  PROVE  BatchInv'
<1>1. CASE Resuming
  BY <1>1, ConstantsOK
  DEF Resuming, Raises, Retried, AttemptsLeft, argument, BatchInv, TypeOK,
      Outcomes, Caught, Done, Params, GeneratorNeverTwice, ListAppliedInOrder,
      StopsBeforeOdd
<1>2. CASE Wake
  BY <1>2, ConstantsOK
  DEF Wake, TakenAtRetry, argument, BatchInv, TypeOK, Outcomes, Caught, Done,
      Params, GeneratorNeverTwice, ListAppliedInOrder, StopsBeforeOdd
<1>3. CASE Interrupted
  BY <1>3, ConstantsOK
  DEF Interrupted, argument, BatchInv, TypeOK, Outcomes, Caught, Done, Params,
      GeneratorNeverTwice, ListAppliedInOrder, StopsBeforeOdd
<1>. QED BY <1>1, <1>2, <1>3

(* What holds between two batches, over any retries.                       *)
THEOREM BatchInvAlways == Spec => []BatchInv
<1>1. BatchInv /\ [Next]_vars => BatchInv'
  BY NextBatchKeeps, NoMoreKeeps, ServedKeeps, FailedKeeps, ResumingKeeps
  DEF Next
<1>. QED BY InitBatch, <1>1, PTL DEF Spec

(* A list is applied whole when executemany returns, and exactly once      *)
(* without a retry.                                                        *)
THEOREM ListsAreApplied == Spec => []ReturnsWhenAllApplied
<1>1. BatchInv => ReturnsWhenAllApplied
  BY ConstantsOK DEF BatchInv, TypeOK, ReturnsWhenAllApplied, Done, Params
<1>. QED BY BatchInvAlways, <1>1, PTL

(* A generator's parameters are applied at most once, retries included.    *)
THEOREM GeneratorsAreAppliedOnce == Spec => []GeneratorNeverTwice
<1>1. BatchInv => GeneratorNeverTwice
  BY DEF BatchInv
<1>. QED BY BatchInvAlways, <1>1, PTL

(* What was applied of a list is a prefix of it, also when the call raises *)
(* in the middle.                                                          *)
THEOREM ListsAreAppliedInOrder == Spec => []ListAppliedInOrder
<1>1. BatchInv => ListAppliedInOrder
  BY DEF BatchInv
<1>. QED BY BatchInvAlways, <1>1, PTL

(* Nothing is applied from the first parameter on that is not a mapping.   *)
THEOREM OddParametersStop == Spec => []StopsBeforeOdd
<1>1. BatchInv => StopsBeforeOdd
  BY DEF BatchInv
<1>. QED BY BatchInvAlways, <1>1, PTL

-----------------------------------------------------------------------------
(* Only the name DatabaseResumingException is in the decorator's argument. *)
LEMMA RetriedAsAsked == \A e \in Caught : Decorator!ShouldRetry(e) <=> Retried(e)
<1>1. Decorator!Names = {"DatabaseResumingException"}
  <2>. DEFINE item == [kind |-> "name", is |-> "DatabaseResumingException"]
  <2>1. item.kind = "name" /\ item.is = "DatabaseResumingException"
    OBVIOUS
  <2>. HIDE DEF item
  <2>2. {b \in {item} : b.kind = "name"} = {item}
    BY <2>1
  <2>3. {a.is : a \in {item}} = {"DatabaseResumingException"}
    BY <2>1
  <2>4. Decorator!Names = {a.is : a \in {b \in {item} : b.kind = "name"}}
    BY DEF Decorator!Names, Decorator!Of, item
  <2>. QED BY <2>2, <2>3, <2>4
<1>2. TAKE e \in Caught
<1>3. <<e, "DatabaseResumingException">> \in
        {<<"resuming", "DatabaseResumingException">>} <=> e = "resuming"
  OBVIOUS
<1>. QED BY <1>1, <1>3 DEF Decorator!ShouldRetry, Retried

(* What is raised in the body is caught by the decorator.                  *)
LEMMA CaughtByDecorator ==
  ASSUME BatchInv, NEW e \in Caught, pc \in {"page", "send"}, Raises(e),
         UNCHANGED attempt
  PROVE  Decorator!Caught(e)
<1>1. Decorator!ShouldRetry(e) <=> Retried(e)
  BY RetriedAsAsked
<1>2. At = "running"
  BY DEF At
<1>3. At' = IF Retried(e) /\ AttemptsLeft THEN "sleeping" ELSE "raised"
  BY DEF At, Raises
<1>. QED BY <1>1, <1>2, <1>3 DEF Decorator!Caught, Raises, AttemptsLeft

(* executemany steps as the decorator does, or between two of its batches. *)
LEMMA StepIsOfDecorator ==
  ASSUME BatchInv, [Next]_vars
  PROVE  Decorator!Next \/ UNCHANGED <<At, attempt, exc>>
<1>1. CASE NextBatch
  <2>1. CASE AllMappings
    BY <1>1, <2>1 DEF NextBatch, At
  <2>2. CASE ~AllMappings
    BY <1>1, <2>2, CaughtByDecorator DEF NextBatch, Decorator!Next, Caught
  <2>. QED BY <2>1, <2>2
<1>2. CASE NoMoreBatches
  BY <1>2 DEF NoMoreBatches, AfterEmptyBatch, At, Decorator!Next,
              Decorator!Returns
<1>3. CASE Served
  BY <1>3 DEF Served, At
<1>4. CASE Refused \/ Resuming \/ NoAnswer
  BY <1>4, CaughtByDecorator
  DEF Refused, Resuming, NoAnswer, Decorator!Next, Caught
<1>5. CASE Wake
  BY <1>5 DEF Wake, At, Decorator!Next, Decorator!Wakes
<1>6. CASE Interrupted
  BY <1>6 DEF Interrupted, At, Decorator!Next, Decorator!Interrupted
<1>7. CASE UNCHANGED vars
  BY <1>7 DEF vars, At
<1>. QED BY <1>1, <1>2, <1>3, <1>4, <1>5, <1>6, <1>7 DEF Next

(* The retries of executemany are those the decorator promises.            *)
THEOREM RetriesAsPromised == Spec => ImplementsRetry
<1>1. Init => Decorator!Init
  BY DEF Init, At, Decorator!Init
<1>2. BatchInv /\ [Next]_vars => [Decorator!Next]_<<At, attempt, exc>>
  BY StepIsOfDecorator
<1>. QED
  BY <1>1, <1>2, BatchInvAlways, PTL DEF Spec, ImplementsRetry, Decorator!Spec
-----------------------------------------------------------------------------
(* The end of the call.                                                    *)

LEMMA RankIsBelow ==
  ASSUME NEW a1 \in Nat, NEW a2 \in Nat, NEW a3 \in Nat,
         NEW b1 \in Nat, NEW b2 \in Nat, NEW b3 \in Nat,
         \/ b1 < a1
         \/ b1 = a1 /\ b2 < a2
         \/ b1 = a1 /\ b2 = a2 /\ b3 < a3
  PROVE  Below(<<b1, b2, b3>>, <<a1, a2, a3>>)
<1>. DEFINE a == <<a1, a2, a3>>
            b == <<b1, b2, b3>>
<1>1. /\ DOMAIN a = 1 .. 3
      /\ a[1] = a1 /\ a[2] = a2 /\ a[3] = a3
      /\ b[1] = b1 /\ b[2] = b2 /\ b[3] = b3
  OBVIOUS
<1>2. \A k \in 1 .. 3 : k = 1 \/ k = 2 \/ k = 3
  OBVIOUS
<1>3. PICK k \in 1 .. 3 : b[k] < a[k] /\ \A j \in 1 .. 3 : j < k => b[j] <= a[j]
  <2>. HIDE DEF a, b
  <2>. QED BY <1>1, <1>2
<1>4. \A j \in 1 .. k - 1 : j \in 1 .. 3 /\ j < k
  BY <1>3
<1>5. \E n \in DOMAIN a : b[n] < a[n] /\ \A j \in 1 .. n - 1 : b[j] <= a[j]
  <2>. HIDE DEF a, b
  <2>. QED BY <1>1, <1>3, <1>4
<1>. QED BY <1>5 DEF Below

LEMMA LessIsLeft ==
  ASSUME NEW n \in Nat, NEW x \in 0 .. n, NEW y \in 0 .. n
  PROVE  /\ (n - x) \in Nat
         /\ y > x => n - y < n - x
OBVIOUS

LEMMA StepCountsDown ==
  ASSUME BatchInv, BatchInv', Next
  PROVE  RankIsNat' /\ Below(Rank', Rank)
<1>1. /\ attempt \in 0 .. Retries /\ attempt' \in 0 .. Retries
      /\ taken \in 0 .. N /\ taken' \in 0 .. N
      /\ Retries \in Nat /\ N \in Nat /\ size \in Nat
  BY ConstantsOK DEF BatchInv, TypeOK
<1>2. /\ (Retries - attempt) \in Nat /\ (N - taken) \in Nat
      /\ (Retries - attempt') \in Nat /\ (N - taken') \in Nat
  BY <1>1, LessIsLeft
<1>3. StepsOfBatch \in Nat /\ StepsOfBatch' \in Nat
  BY DEF StepsOfBatch
<1>4. RankIsNat'
  BY <1>2, <1>3 DEF RankIsNat, Rank
<1>5. \/ Retries - attempt' < Retries - attempt
      \/ /\ Retries - attempt' = Retries - attempt
         /\ N - taken' < N - taken
      \/ /\ Retries - attempt' = Retries - attempt
         /\ N - taken' = N - taken /\ StepsOfBatch' < StepsOfBatch
  <2>1. CASE Wake
    <3>1. attempt' > attempt
      BY <1>1, <2>1 DEF Wake
    <3>. QED BY <1>1, <3>1, LessIsLeft
  <2>2. CASE NextBatch
    <3>1. attempt' = attempt /\ taken' > taken
      BY <1>1, <2>2 DEF NextBatch, BatchIsEmpty, Lesser
    <3>. QED BY <1>1, <3>1, LessIsLeft
  <2>3. CASE NoMoreBatches \/ Served \/ Refused \/ Resuming \/ NoAnswer
             \/ Interrupted
    <3>1. attempt' = attempt /\ taken' = taken
      BY <2>3
      DEF NoMoreBatches, Served, Refused, Resuming, NoAnswer, Interrupted
    <3>2. StepsOfBatch' < StepsOfBatch
      BY <2>3
      DEF NoMoreBatches, AfterEmptyBatch, Served, Refused, Resuming, NoAnswer,
          Interrupted, Raises, StepsOfBatch
    <3>. QED BY <3>1, <3>2
  <2>. QED BY <2>1, <2>2, <2>3 DEF Next
<1>6. Below(Rank', Rank)
  <2>1. Below(<<Retries - attempt', N - taken', StepsOfBatch'>>,
              <<Retries - attempt, N - taken, StepsOfBatch>>)
    BY <1>2, <1>3, <1>5, RankIsBelow
  <2>. QED BY <2>1 DEF Rank
<1>. QED BY <1>4, <1>6

(* For any number of parameters, arraysize and retries, the call takes     *)
(* finitely many steps. That it takes them is fairness (CallEnds).         *)
THEOREM CallIsFinite == Spec => CallRunsDown
<1>1. BatchInv /\ BatchInv' /\ [Next]_vars
      => [RankIsNat' /\ Below(Rank', Rank)]_vars
  BY StepCountsDown
<1>. QED BY <1>1, BatchInvAlways, PTL DEF Spec, CallRunsDown
=============================================================================
