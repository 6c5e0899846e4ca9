---------------------- MODULE SyncAdaptedCursorProofs -----------------------
(***************************************************************************)
(* Theorems about SyncAdaptedCursor, for any statements, results, sizes of *)
(* fetches and offsets of scrolls: the drained list is the rest of the     *)
(* result, and the facade's caller reads a result stream as the cursor's   *)
(* caller does.                                                            *)
(***************************************************************************)
EXTENDS SyncAdaptedCursor, SequenceTheorems, TLAPS

(* The rows that come next are rows, numbered on.                          *)
LEMMA NextRowsAre ==
  ASSUME TypeOK, NEW k \in Nat, stmt \in Stmts
  PROVE  /\ Cursor!NextRows(k) \in Seq(Rows)
         /\ Len(Cursor!NextRows(k)) = k
         /\ \A i \in 1 .. k :
              Cursor!NextRows(k)[i] = <<stmt, base + Len(handed) + i>>
<1>1. base + Len(handed) \in Nat
  BY DEF TypeOK, PlacesOK, RowsOK
<1>2. \A i \in 1 .. k : <<stmt, base + Len(handed) + i>> \in Rows
  BY <1>1 DEF Rows
<1>. QED BY <1>2 DEF Cursor!NextRows

LEMMA NoNextRows == Cursor!NextRows(0) = <<>> /\ Stream!NextRows(0) = <<>>
BY DEF Cursor!NextRows, Stream!NextRows

(* What a read of the cursor does, broken or not.                          *)
LEMMA CursorReadsRows ==
  ASSUME TypeOK, NEW k \in Nat, NEW end \in BOOLEAN, stmt \in Stmts,
         CursorReads(k, end)
  PROVE  /\ UNCHANGED <<stmt, base, broken>> /\ ended' \in BOOLEAN
         /\ handed' \in Seq(Rows) /\ Len(handed') = Len(handed) + k
         /\ ~broken => /\ k > 0 => base + Len(handed) + k <= Length[stmt]
                       /\ end => base + Len(handed) + k >= Length[stmt]
<1>. DEFINE rows == Cursor!NextRows(k)
<1>1. /\ handed' = handed \o rows /\ ended' = end
      /\ UNCHANGED <<stmt, base, broken>>
  BY DEF CursorReads, Cursor!Read, Cursor!ReadBroken
<1>2. rows \in Seq(Rows) /\ Len(rows) = k
  BY NextRowsAre
<1>3. handed \in Seq(Rows)
  BY DEF TypeOK, RowsOK
<1>4. handed' \in Seq(Rows) /\ Len(handed') = Len(handed) + k
  <2>. HIDE DEF rows
  <2>. QED BY <1>1, <1>2, <1>3
<1>. QED BY <1>1, <1>4 DEF CursorReads, Cursor!Read

-----------------------------------------------------------------------------
(* The first state, and the calls that read nothing.                       *)

LEMMA InitFacade == Init => FacadeInv
<1>. SUFFICES ASSUME Init PROVE FacadeInv
  OBVIOUS
<1>. USE DEF Init, Cursor!Init, IsDrained
<1>1. PlacesOK
  BY DEF PlacesOK
<1>2. RowsOK
  BY DEF RowsOK
<1>3. FlagsOK
  BY DEF FlagsOK
<1>4. SameResult
  BY DEF SameResult, Ready
<1>5. RowsOfResult
  BY DEF RowsOfResult
<1>6. InStep
  BY DEF InStep, Follow
<1>7. DrainedIsTheRest
  BY DEF DrainedIsTheRest
<1>. QED BY <1>1, <1>2, <1>3, <1>4, <1>5, <1>6, <1>7 DEF FacadeInv, TypeOK

LEMMA RowsStay ==
  ASSUME RowsOK, handed' \in {handed, <<>>}, given' \in {given, <<>>},
         collected' \in {collected, <<>>}, drained' \in {drained, NotDrained}
  PROVE  RowsOK'
<1>1. <<>> \in Seq(Rows)
  OBVIOUS
<1>. QED BY <1>1 DEF RowsOK

LEMMA ExecuteKeeps ==
  ASSUME FacadeInv, NEW s \in Stmts, Execute(s)
  PROVE  FacadeInv'
<1>. USE DEF FacadeInv, TypeOK, Execute, Cursor!Open, NewResult, IsDrained, Ready
<1>1. PlacesOK'
  BY DEF PlacesOK
<1>2. RowsOK'
  BY RowsStay
<1>3. FlagsOK'
  BY DEF FlagsOK
<1>4. SameResult'
  BY DEF SameResult
<1>5. RowsOfResult'
  BY DEF RowsOfResult, SameResult
<1>6. InStep'
  BY DEF InStep, Follow, SameResult
<1>7. DrainedIsTheRest'
  BY DEF DrainedIsTheRest
<1>. QED BY <1>1, <1>2, <1>3, <1>4, <1>5, <1>6, <1>7

LEMMA ExecuteEndKeeps ==
  ASSUME FacadeInv, ExecuteReturns \/ ExecuteRaises
  PROVE  FacadeInv'
<1>. USE DEF FacadeInv, TypeOK, ExecuteReturns, ExecuteRaises, Cursor!Break, Raises,
       NewResult, DrainedAtExecute, cursor, IsDrained, Ready
<1>1. PlacesOK'
  BY DEF PlacesOK
<1>2. RowsOK'
  BY RowsStay
<1>3. FlagsOK'
  BY DEF FlagsOK
<1>4. SameResult'
  BY DEF SameResult
<1>5. RowsOfResult'
  BY DEF RowsOfResult, SameResult
<1>6. InStep'
  BY DEF InStep, Follow, SameResult
<1>7. DrainedIsTheRest'
  BY DEF DrainedIsTheRest
<1>. QED BY <1>1, <1>2, <1>3, <1>4, <1>5, <1>6, <1>7

LEMMA ExecuteManyKeeps ==
  ASSUME FacadeInv, ExecuteMany \/ ExecuteManyRaises
  PROVE  FacadeInv'
<1>. USE DEF FacadeInv, TypeOK, ExecuteMany, ExecuteManyRaises, Raises, NewResult,
       cursor, facade, IsDrained, Ready
<1>1. PlacesOK'
  BY DEF PlacesOK
<1>2. RowsOK'
  BY RowsStay
<1>3. FlagsOK'
  BY DEF FlagsOK
<1>4. SameResult'
  BY DEF SameResult
<1>5. RowsOfResult'
  BY DEF RowsOfResult, SameResult
<1>6. InStep'
  BY DEF InStep, Follow, SameResult
<1>7. DrainedIsTheRest'
  BY DEF DrainedIsTheRest
<1>. QED BY <1>1, <1>2, <1>3, <1>4, <1>5, <1>6, <1>7

-----------------------------------------------------------------------------
(* Fetching.                                                               *)

(* What a fetch hands the caller keeps the place and the owner of rows.    *)
LEMMA GivenGrows ==
  ASSUME given \in Seq(Rows), NEW rows \in Seq(Rows), NEW end \in BOOLEAN,
         Gives(rows, end),
         \A i \in DOMAIN given : given[i][1] = result,
         \A i \in DOMAIN rows : rows[i][1] = result
  PROVE  /\ given' \in Seq(Rows) /\ Len(given') = Len(given) + Len(rows)
         /\ \A i \in DOMAIN given' : given'[i][1] = result
         /\ UNCHANGED <<result, origin, raised>> /\ isEnd' \in BOOLEAN
<1>1. given' = given \o rows /\ isEnd' = end /\ UNCHANGED <<result, origin, raised>>
  BY DEF Gives
<1>2. given \o rows \in Seq(Rows) /\ Len(given \o rows) = Len(given) + Len(rows)
  BY ConcatProperties
<1>3. ASSUME NEW i \in 1 .. Len(given) + Len(rows)
      PROVE  (given \o rows)[i][1] = result
  <2>1. (given \o rows)[i] = IF i <= Len(given) THEN given[i] ELSE rows[i - Len(given)]
    BY <1>3, ConcatProperties
  <2>2. CASE i <= Len(given)
    BY <1>3, <2>1, <2>2
  <2>3. CASE i > Len(given)
    <3>1. i - Len(given) \in DOMAIN rows
      BY <1>3, <2>3
    <3>. QED BY <2>1, <2>3, <3>1
  <2>. QED BY <2>2, <2>3
<1>4. DOMAIN (given \o rows) = 1 .. Len(given) + Len(rows)
  BY <1>2, LenProperties
<1>. QED BY <1>1, <1>2, <1>3, <1>4

(* The front of the list goes to the caller, the rest stays.               *)
LEMMA DrainedSplit ==
  ASSUME drained \in Seq(Rows), NEW k \in 0 .. Len(drained)
  PROVE  /\ SubSeq(drained, 1, k) \in Seq(Rows)
         /\ Len(SubSeq(drained, 1, k)) = k
         /\ \A i \in 1 .. k : SubSeq(drained, 1, k)[i] = drained[i]
         /\ SubSeq(drained, k + 1, Len(drained)) \in Seq(Rows)
         /\ Len(SubSeq(drained, k + 1, Len(drained))) = Len(drained) - k
         /\ \A i \in 1 .. Len(drained) - k :
              SubSeq(drained, k + 1, Len(drained))[i] = drained[k + i]
<1>1. \A i \in 1 .. Len(drained) : drained[i] \in Rows
  OBVIOUS
<1>2. /\ k \in Int /\ k + 1 \in Int /\ Len(drained) \in Int
      /\ \A i \in 1 .. k : drained[i] \in Rows
      /\ \A i \in k + 1 .. Len(drained) : drained[i] \in Rows
  BY <1>1
<1>3. /\ SubSeq(drained, 1, k) \in Seq(Rows)
      /\ Len(SubSeq(drained, 1, k)) = IF 1 <= k THEN k - 1 + 1 ELSE 0
      /\ \A i \in 1 .. k - 1 + 1 : SubSeq(drained, 1, k)[i] = drained[1 + i - 1]
  BY <1>2, SubSeqProperties
<1>4. /\ SubSeq(drained, k + 1, Len(drained)) \in Seq(Rows)
      /\ Len(SubSeq(drained, k + 1, Len(drained))) =
           IF k + 1 <= Len(drained) THEN Len(drained) - (k + 1) + 1 ELSE 0
      /\ \A i \in 1 .. Len(drained) - (k + 1) + 1 :
           SubSeq(drained, k + 1, Len(drained))[i] = drained[k + 1 + i - 1]
  BY <1>2, SubSeqProperties
<1>. QED BY <1>3, <1>4

LEMMA FetchDrainedKeeps ==
  ASSUME FacadeInv, IsDrained, NEW n \in Nat \cup {All}, n # 0, FetchDrained(n),
         UNCHANGED <<cursor, pc, collected, spawn>>
  PROVE  FacadeInv' /\ Stream!Next
<1>. DEFINE k == IF n = All \/ n > Len(drained) THEN Len(drained) ELSE n
            rows == SubSeq(drained, 1, k)
            rest == SubSeq(drained, k + 1, Len(drained))
<1>1. drained \in Seq(Rows) /\ given \in Seq(Rows)
  BY DEF FacadeInv, TypeOK, RowsOK, IsDrained
<1>2. k \in 0 .. Len(drained) /\ (k # n => k = Len(drained)) /\ (k # n) \in BOOLEAN
  BY <1>1 DEF All
<1>3. Gives(rows, k # n) /\ drained' = rest
  BY DEF FetchDrained
<1>. HIDE DEF k
<1>4. /\ rows \in Seq(Rows) /\ Len(rows) = k
      /\ \A i \in 1 .. k : rows[i] = drained[i]
      /\ rest \in Seq(Rows) /\ Len(rest) = Len(drained) - k
      /\ \A i \in 1 .. Len(drained) - k : rest[i] = drained[k + i]
  BY <1>1, <1>2, DrainedSplit
<1>5. /\ \A i \in DOMAIN given : given[i][1] = result
      /\ \A i \in 1 .. Len(drained) : drained[i][1] = result
  BY <1>1 DEF FacadeInv, RowsOfResult
<1>. HIDE DEF rows, rest
<1>6. \A i \in DOMAIN rows : rows[i][1] = result
  BY <1>2, <1>4, <1>5
<1>7. ASSUME NEW i \in DOMAIN rest PROVE rest[i][1] = result
  <2>1. i \in 1 .. Len(drained) - k /\ k + i \in 1 .. Len(drained)
    BY <1>1, <1>2, <1>4, <1>7
  <2>. QED BY <1>4, <1>5, <2>1
<1>8. /\ given' \in Seq(Rows) /\ Len(given') = Len(given) + k
      /\ \A i \in DOMAIN given' : given'[i][1] = result
      /\ UNCHANGED <<result, origin, raised>> /\ isEnd' \in BOOLEAN
  BY <1>1, <1>2, <1>3, <1>4, <1>5, <1>6, GivenGrows
<1>9. /\ rest # NotDrained /\ drained' = rest /\ IsDrained'
      /\ UNCHANGED <<stmt, base, handed, ended, broken, pc, collected, spawn>>
  BY <1>3, <1>4, ConstantsOK DEF Rows, IsDrained, cursor
<1>10. TypeOK'
  <2>1. PlacesOK'
    BY <1>8, <1>9 DEF FacadeInv, TypeOK, PlacesOK
  <2>2. RowsOK'
    BY <1>4, <1>8, <1>9 DEF FacadeInv, TypeOK, RowsOK
  <2>3. FlagsOK'
    BY <1>8, <1>9 DEF FacadeInv, TypeOK, FlagsOK
  <2>. QED BY <2>1, <2>2, <2>3 DEF TypeOK
<1>11. SameResult' /\ RowsOfResult'
  BY <1>7, <1>8, <1>9 DEF FacadeInv, SameResult, RowsOfResult, Ready, IsDrained
<1>12. ASSUME ~raised
       PROVE  /\ \A i \in DOMAIN drained : drained[i] = <<result, origin + Len(given) + i>>
              /\ drained # <<>> => origin + Len(given) + Len(drained) <= Length[result]
  BY <1>12 DEF FacadeInv, InStep, Follow
<1>13. origin \in Nat /\ Len(given) \in Nat /\ Len(drained) \in Nat
  BY <1>1 DEF FacadeInv, TypeOK, PlacesOK
<1>14. ASSUME ~raised
       PROVE  /\ \A i \in DOMAIN rest : rest[i] = <<result, origin + Len(given') + i>>
              /\ rest # <<>> => origin + Len(given') + Len(rest) <= Length[result]
  <2>1. ASSUME NEW i \in DOMAIN rest
        PROVE  rest[i] = <<result, origin + Len(given') + i>>
    <3>1. i \in 1 .. Len(drained) - k /\ k + i \in DOMAIN drained
      BY <1>1, <1>2, <1>4, <2>1
    <3>2. rest[i] = <<result, origin + Len(given) + (k + i)>>
      BY <1>4, <1>12, <1>14, <3>1
    <3>3. origin + Len(given) + (k + i) = origin + Len(given') + i
      BY <1>2, <1>8, <1>13, <3>1
    <3>. QED BY <3>2, <3>3
  <2>2. rest # <<>> => drained # <<>>
    BY <1>1, <1>2, <1>4
  <2>3. origin + Len(given') + Len(rest) = origin + Len(given) + Len(drained)
    BY <1>2, <1>4, <1>8, <1>13
  <2>. QED BY <1>12, <1>14, <2>1, <2>2, <2>3
<1>15. InStep'
  BY <1>8, <1>9, <1>14 DEF InStep, Follow
<1>16. DrainedIsTheRest'
  <2>1. SUFFICES ASSUME ~raised, result # NoStmt
                 PROVE  origin + Len(given') + Len(rest) >= Length[result]
    BY <1>8, <1>9, <1>14 DEF DrainedIsTheRest
  <2>2. origin + Len(given) + Len(drained) >= Length[result]
    BY <2>1 DEF FacadeInv, DrainedIsTheRest
  <2>. QED BY <1>2, <1>4, <1>8, <1>13, <2>2
<1>17. FacadeInv'
  BY <1>10, <1>11, <1>15, <1>16 DEF FacadeInv
<1>18. CASE raised
  BY <1>8, <1>17, <1>18 DEF Stream!Next, Stream!ReadBroken
<1>19. CASE ~raised /\ result = NoStmt
  <2>1. drained = <<>>
    <3>1. \A i \in 1 .. Len(drained) : drained[i][1] \in Stmts
      BY <1>1 DEF Rows
    <3>2. Len(drained) = 0
      BY <1>5, <1>13, <1>19, <3>1, ConstantsOK
    <3>. QED BY <1>1, <3>2
  <2>2. k = 0 /\ rows = <<>>
    BY <1>2, <1>4, <2>1
  <2>3. (k # n) = TRUE
    BY <2>2
  <2>4. given' = given /\ isEnd' = TRUE
    BY <1>1, <1>3, <2>2, <2>3, ConcatEmptySeq DEF Gives
  <2>. QED BY <1>8, <1>17, <1>19, <2>4 DEF Stream!Next, Stream!ReadNothing
<1>20. CASE ~raised /\ result # NoStmt
  <2>1. result \in Stmts
    BY <1>20 DEF FacadeInv, TypeOK, PlacesOK
  <2>2. rows = Stream!NextRows(k)
    <3>. DEFINE next == Stream!NextRows(k)
    <3>1. \A i \in 1 .. k : <<result, origin + Len(given) + i>> \in Rows
      BY <1>2, <1>13, <2>1 DEF Rows
    <3>2. /\ next \in Seq(Rows) /\ Len(next) = k
          /\ \A i \in 1 .. k : next[i] = <<result, origin + Len(given) + i>>
      BY <1>2, <3>1 DEF Stream!NextRows
    <3>. HIDE DEF next
    <3>3. ASSUME NEW i \in 1 .. k PROVE rows[i] = next[i]
      <4>1. i \in DOMAIN drained
        BY <1>1, <1>2
      <4>. QED BY <1>4, <1>12, <1>20, <3>2, <4>1
    <3>4. rows = next
      BY <1>4, <3>2, <3>3, SeqEqual
    <3>. QED BY <3>4 DEF next
  <2>3. Len(given') - Len(given) = k
    BY <1>2, <1>8, <1>13
  <2>4. k > 0 => origin + Len(given) + k <= Length[result]
    <3>1. k > 0 => drained # <<>>
      BY <1>1, <1>2
    <3>2. Length[result] \in Nat
      BY <2>1, ConstantsOK
    <3>. QED BY <1>2, <1>12, <1>13, <1>20, <3>1, <3>2
  <2>5. k # n => origin + Len(given) + k >= Length[result]
    BY <1>2, <1>20 DEF FacadeInv, DrainedIsTheRest
  <2>6. Stream!Read(k, k # n)
    BY <1>3, <1>8, <1>20, <2>1, <2>2, <2>4, <2>5 DEF Stream!Read, Gives
  <2>7. \E end \in BOOLEAN : Stream!Read(Len(given') - Len(given), end)
    BY <1>2, <2>3, <2>6
  <2>. QED BY <1>17, <2>7 DEF Stream!Next
<1>. QED BY <1>17, <1>18, <1>19, <1>20

LEMMA RowsLeftIsNat == ASSUME TypeOK PROVE RowsLeft \in Nat
<1>1. base \in Nat /\ Len(handed) \in Nat
  BY DEF TypeOK, PlacesOK, RowsOK
<1>2. CASE AtEnd
  BY <1>2 DEF RowsLeft
<1>3. CASE ~AtEnd
  <2>1. stmt \in Stmts /\ base + Len(handed) < Length[stmt] /\ Length[stmt] \in Nat
    BY <1>1, <1>3, ConstantsOK DEF AtEnd, TypeOK, PlacesOK
  <2>. QED BY <1>1, <1>3, <2>1 DEF RowsLeft
<1>. QED BY <1>2, <1>3

(* Without a list the caller is where the cursor is.                       *)
LEMMA FetchAwaitingKeeps ==
  ASSUME FacadeInv, Ready, ~IsDrained, NEW n \in Nat \cup {All}, n # 0,
         FetchAwaiting(n), UNCHANGED facade
  PROVE  FacadeInv' /\ Stream!Next
<1>. DEFINE Now(k) == IF stmt = NoStmt THEN Cursor!ReadNothing ELSE CursorReads(k, k # n)
<1>1. PICK k \in 0 .. RowsLeft : Now(k) /\ Gives(Cursor!NextRows(k), k # n)
  BY DEF FetchAwaiting
<1>2. TypeOK /\ k \in Nat /\ (k # n) \in BOOLEAN
  BY RowsLeftIsNat DEF FacadeInv
<1>3. /\ result = stmt /\ collected = <<>> /\ UNCHANGED <<drained, pc, collected, spawn>>
      /\ ~IsDrained'
  BY DEF FacadeInv, SameResult, Ready, IsDrained, facade
<1>4. given \in Seq(Rows) /\ \A i \in DOMAIN given : given[i][1] = result
  BY DEF FacadeInv, TypeOK, RowsOK, RowsOfResult
<1>5. CASE stmt = NoStmt
  <2>1. k = 0 /\ (k # n) = TRUE
    BY <1>5 DEF RowsLeft, AtEnd
  <2>2. given' = given /\ isEnd' = TRUE /\ UNCHANGED <<result, origin, raised>>
    BY <1>1, <1>4, <2>1, NoNextRows, ConcatEmptySeq DEF Gives
  <2>3. ended' = TRUE /\ UNCHANGED <<stmt, base, handed, broken>>
    BY <1>1, <1>5 DEF Cursor!ReadNothing
  <2>4. PlacesOK'
    BY <1>2, <1>3, <2>2, <2>3 DEF TypeOK, PlacesOK
  <2>5. RowsOK'
    BY <1>2, <1>3, <2>2, <2>3 DEF TypeOK, RowsOK
  <2>6. FlagsOK'
    BY <1>2, <1>3, <2>2, <2>3 DEF TypeOK, FlagsOK
  <2>7. SameResult' /\ RowsOfResult' /\ InStep' /\ DrainedIsTheRest'
    BY <1>3, <2>2, <2>3
    DEF FacadeInv, SameResult, RowsOfResult, InStep, Follow, DrainedIsTheRest,
        Ready, IsDrained
  <2>8. Stream!ReadNothing
    BY <1>3, <1>5, <2>2 DEF Stream!ReadNothing
  <2>. QED BY <2>4, <2>5, <2>6, <2>7, <2>8 DEF FacadeInv, TypeOK, Stream!Next
<1>6. CASE stmt # NoStmt
  <2>. DEFINE rows == Cursor!NextRows(k)
  <2>1. stmt \in Stmts /\ CursorReads(k, k # n)
    BY <1>1, <1>2, <1>6 DEF TypeOK, PlacesOK
  <2>2. /\ rows \in Seq(Rows) /\ Len(rows) = k
        /\ \A i \in 1 .. k : rows[i] = <<stmt, base + Len(handed) + i>>
    BY <1>2, <2>1, NextRowsAre
  <2>3. /\ UNCHANGED <<stmt, base, broken>> /\ ended' \in BOOLEAN
        /\ handed' \in Seq(Rows) /\ Len(handed') = Len(handed) + k
        /\ ~broken => /\ k > 0 => base + Len(handed) + k <= Length[stmt]
                      /\ (k # n) => base + Len(handed) + k >= Length[stmt]
    BY <1>2, <2>1, CursorReadsRows
  <2>. HIDE DEF rows
  <2>4. \A i \in DOMAIN rows : rows[i][1] = result
    BY <1>3, <2>2
  <2>5. /\ given' \in Seq(Rows) /\ Len(given') = Len(given) + k
        /\ \A i \in DOMAIN given' : given'[i][1] = result
        /\ UNCHANGED <<result, origin, raised>> /\ isEnd' \in BOOLEAN
    <3>1. Gives(rows, k # n)
      BY <1>1 DEF rows
    <3>. QED BY <1>2, <1>4, <2>2, <2>4, <3>1, GivenGrows
  <2>6. PlacesOK'
    BY <1>2, <1>3, <2>3, <2>5 DEF TypeOK, PlacesOK
  <2>7. RowsOK'
    BY <1>2, <1>3, <2>3, <2>5 DEF TypeOK, RowsOK
  <2>8. FlagsOK'
    BY <1>2, <1>3, <2>3, <2>5 DEF TypeOK, FlagsOK
  <2>9. SameResult' /\ RowsOfResult' /\ DrainedIsTheRest'
    BY <1>3, <2>3, <2>5
    DEF FacadeInv, SameResult, RowsOfResult, DrainedIsTheRest, Ready, IsDrained
  <2>10. /\ base \in Nat /\ origin \in Nat /\ Len(given) \in Nat
         /\ Len(handed) \in Nat
    BY <1>2, <1>4 DEF TypeOK, PlacesOK, RowsOK
  <2>11. ~raised => base + Len(handed) = origin + Len(given)
    BY <1>3, <2>10 DEF FacadeInv, InStep
  <2>12. InStep'
    <3>1. collected' = <<>> /\ Len(collected') = 0
      BY <1>3
    <3>2. ASSUME ~raised
          PROVE  base' + Len(handed') = origin' + Len(given') + Len(collected')
      <4>1. base + Len(handed) = origin + Len(given)
        BY <2>11, <3>2
      <4>2. base' = base /\ Len(handed') = Len(handed) + k
        BY <2>3
      <4>3. origin' = origin /\ Len(given') = Len(given) + k
        BY <2>5
      <4>. QED BY <1>2, <2>10, <3>1, <4>1, <4>2, <4>3
    <3>3. Follow(collected)'
      BY <3>1 DEF Follow
    <3>. QED BY <1>3, <2>5, <3>2, <3>3 DEF InStep
  <2>13. CASE raised
    <3>1. Stream!ReadBroken
      BY <2>5, <2>13 DEF Stream!ReadBroken
    <3>. QED BY <2>6, <2>7, <2>8, <2>9, <2>12, <3>1 DEF FacadeInv, TypeOK, Stream!Next
  <2>14. CASE ~raised
    <3>1. ~broken
      BY <2>14 DEF FacadeInv, SameResult
    <3>2. rows = Stream!NextRows(k)
      BY <1>3, <2>11, <2>14 DEF rows, Cursor!NextRows, Stream!NextRows
    <3>3. given' = given \o Stream!NextRows(k) /\ isEnd' = (k # n)
      BY <1>1, <3>2 DEF Gives, rows
    <3>4. /\ k > 0 => origin + Len(given) + k <= Length[result]
          /\ (k # n) => origin + Len(given) + k >= Length[result]
      BY <1>3, <2>3, <2>11, <2>14, <3>1
    <3>5. Stream!Read(k, k # n)
      BY <1>3, <2>1, <2>5, <2>14, <3>3, <3>4 DEF Stream!Read
    <3>6. Len(given') - Len(given) = k
      BY <1>2, <2>5, <2>10
    <3>7. \E end \in BOOLEAN : Stream!Read(Len(given') - Len(given), end)
      BY <1>2, <3>5, <3>6
    <3>. QED BY <2>6, <2>7, <2>8, <2>9, <2>12, <3>7 DEF FacadeInv, TypeOK, Stream!Next
  <2>. QED BY <2>13, <2>14
<1>. QED BY <1>5, <1>6

-----------------------------------------------------------------------------
(* The soft close.                                                         *)

(* Each row read moves the cursor and the end of what was collected.       *)
LEMMA DrainRowKeeps ==
  ASSUME FacadeInv, DrainRow
  PROVE  FacadeInv'
<1>. DEFINE rows == Cursor!NextRows(1)
<1>1. /\ ~AtEnd /\ CursorReads(1, FALSE) /\ collected' = collected \o rows
      /\ pc = "drain" /\ UNCHANGED <<drained, pc, spawn>>
      /\ UNCHANGED <<result, origin, given, isEnd, raised>>
  BY DEF DrainRow, seen
<1>2. TypeOK /\ stmt \in Stmts /\ ~IsDrained /\ ~IsDrained' /\ result = stmt
  BY <1>1 DEF FacadeInv, TypeOK, PlacesOK, AtEnd, SameResult, IsDrained
<1>3. /\ rows \in Seq(Rows) /\ Len(rows) = 1
      /\ rows[1] = <<stmt, base + Len(handed) + 1>>
  <2>1. PICK k \in Nat : k = 1
    OBVIOUS
  <2>2. /\ Cursor!NextRows(k) \in Seq(Rows) /\ Len(Cursor!NextRows(k)) = k
        /\ \A i \in 1 .. k :
             Cursor!NextRows(k)[i] = <<stmt, base + Len(handed) + i>>
    BY <1>2, NextRowsAre
  <2>. QED BY <2>1, <2>2
<1>4. /\ UNCHANGED <<stmt, base, broken>> /\ ended' \in BOOLEAN
      /\ handed' \in Seq(Rows) /\ Len(handed') = Len(handed) + 1
      /\ ~broken => base + Len(handed) + 1 <= Length[stmt]
  <2>1. PICK k \in Nat : k = 1
    OBVIOUS
  <2>2. /\ UNCHANGED <<stmt, base, broken>> /\ ended' \in BOOLEAN
        /\ handed' \in Seq(Rows) /\ Len(handed') = Len(handed) + k
        /\ ~broken => (k > 0 => base + Len(handed) + k <= Length[stmt])
    BY <1>1, <1>2, <2>1, CursorReadsRows
  <2>. QED BY <2>1, <2>2
<1>. HIDE DEF rows
<1>5. collected \in Seq(Rows) /\ \A i \in DOMAIN collected : collected[i][1] = stmt
  BY <1>2 DEF TypeOK, RowsOK, FacadeInv, RowsOfResult
<1>6. /\ collected' \in Seq(Rows) /\ Len(collected') = Len(collected) + 1
      /\ \A i \in 1 .. Len(collected) : collected'[i] = collected[i]
      /\ collected'[Len(collected) + 1] = <<stmt, base + Len(handed) + 1>>
      /\ DOMAIN collected' = 1 .. Len(collected) + 1
  <2>1. /\ collected \o rows \in Seq(Rows)
        /\ Len(collected \o rows) = Len(collected) + 1
        /\ \A i \in 1 .. Len(collected) + 1 :
             (collected \o rows)[i] = IF i <= Len(collected) THEN collected[i]
                                      ELSE rows[i - Len(collected)]
    <3>1. collected \in Seq(Rows) /\ rows \in Seq(Rows) /\ Len(rows) = 1
      BY <1>3, <1>5
    <3>. QED BY <3>1, ConcatProperties
  <2>2. Len(collected) \in Nat
    BY <1>5
  <2>. QED BY <1>1, <1>3, <2>1, <2>2
<1>7. PlacesOK'
  BY <1>1, <1>2, <1>4 DEF TypeOK, PlacesOK
<1>8. RowsOK'
  BY <1>1, <1>2, <1>4, <1>6 DEF TypeOK, RowsOK
<1>9. FlagsOK'
  BY <1>1, <1>2, <1>4 DEF TypeOK, FlagsOK
<1>10. SameResult' /\ DrainedIsTheRest'
  BY <1>1, <1>2, <1>4 DEF FacadeInv, SameResult, DrainedIsTheRest, Ready, IsDrained
<1>11. ASSUME NEW i \in DOMAIN collected' PROVE collected'[i][1] = stmt
  BY <1>5, <1>6, <1>11
<1>12. RowsOfResult'
  BY <1>1, <1>2, <1>4, <1>11 DEF FacadeInv, RowsOfResult, IsDrained
<1>13. ASSUME ~raised
       PROVE  /\ base + Len(handed') = origin + Len(given) + Len(collected')
              /\ \A i \in DOMAIN collected' :
                   collected'[i] = <<result, origin + Len(given) + i>>
              /\ origin + Len(given) + Len(collected') <= Length[result]
  <2>1. /\ base \in Nat /\ origin \in Nat /\ Len(given) \in Nat
        /\ Len(handed) \in Nat /\ Len(collected) \in Nat
    BY <1>2 DEF TypeOK, PlacesOK, RowsOK
  <2>2. /\ base + Len(handed) = origin + Len(given) + Len(collected)
        /\ \A i \in DOMAIN collected :
             collected[i] = <<result, origin + Len(given) + i>>
    BY <1>2, <1>13 DEF FacadeInv, InStep, Follow
  <2>3. ~broken
    BY <1>13 DEF FacadeInv, SameResult
  <2>4. base + Len(handed') = origin + Len(given) + Len(collected')
    BY <1>4, <1>6, <2>1, <2>2
  <2>5. Length[stmt] \in Nat
    BY <1>2, ConstantsOK
  <2>6. ASSUME NEW i \in DOMAIN collected'
        PROVE  collected'[i] = <<result, origin + Len(given) + i>>
    <3>1. CASE i <= Len(collected)
      BY <1>5, <1>6, <2>1, <2>2, <2>6, <3>1
    <3>2. CASE i = Len(collected) + 1
      <4>1. base + Len(handed) + 1 = origin + Len(given) + i
        BY <2>1, <2>2, <3>2
      <4>. QED BY <1>2, <1>6, <3>2, <4>1
    <3>. QED BY <1>6, <2>1, <2>6, <3>1, <3>2
  <2>7. origin + Len(given) + Len(collected') <= Length[result]
    BY <1>2, <1>4, <1>6, <2>1, <2>2, <2>3, <2>5
  <2>. QED BY <2>4, <2>6, <2>7
<1>14. InStep'
  BY <1>1, <1>2, <1>4, <1>13 DEF InStep, Follow
<1>. QED BY <1>7, <1>8, <1>9, <1>10, <1>12, <1>14 DEF FacadeInv, TypeOK

(* At the end of the result what was collected is all that was left.       *)
LEMMA DrainedKeeps ==
  ASSUME FacadeInv, Drained
  PROVE  FacadeInv'
<1>1. /\ pc = "drain" /\ (AtEnd \/ broken) /\ pc' = "idle"
      /\ drained' = collected /\ collected' = <<>> /\ stmt' = NoStmt
      /\ base' = 0 /\ handed' = <<>> /\ ended' = FALSE
      /\ UNCHANGED <<broken, spawn, result, origin, given, isEnd, raised>>
  BY DEF Drained, DrainedRows, Cursor!Close, seen
<1>2. /\ collected \in Seq(Rows) /\ result = stmt /\ ~IsDrained
      /\ IsDrained' /\ (broken => raised)
  BY <1>1, ConstantsOK
  DEF FacadeInv, TypeOK, RowsOK, SameResult, IsDrained, Rows
<1>3. PlacesOK'
  BY <1>1 DEF FacadeInv, TypeOK, PlacesOK
<1>4. RowsOK'
  BY <1>1, <1>2 DEF FacadeInv, TypeOK, RowsOK
<1>5. FlagsOK'
  BY <1>1 DEF FacadeInv, TypeOK, FlagsOK
<1>6. SameResult' /\ RowsOfResult'
  BY <1>1, <1>2 DEF FacadeInv, SameResult, RowsOfResult, Ready, IsDrained
<1>7. ~raised => Follow(collected)
  BY <1>2 DEF FacadeInv, InStep
<1>8. InStep'
  BY <1>1, <1>2, <1>7 DEF InStep, Follow
<1>9. ASSUME ~raised, result # NoStmt
      PROVE  origin + Len(given) + Len(collected) >= Length[result]
  BY <1>1, <1>2, <1>9 DEF FacadeInv, InStep, AtEnd
<1>10. DrainedIsTheRest'
  BY <1>1, <1>2, <1>7, <1>9 DEF DrainedIsTheRest, Follow
<1>. QED BY <1>3, <1>4, <1>5, <1>6, <1>8, <1>10 DEF FacadeInv, TypeOK

-----------------------------------------------------------------------------
(* What reads nothing.                                                     *)

LEMMA ScrollKeeps ==
  ASSUME FacadeInv, NEW p \in Places, Scroll(p)
  PROVE  FacadeInv'
<1>. USE DEF FacadeInv, TypeOK, Scroll, Cursor!Seek, facade, IsDrained, Ready
<1>1. PlacesOK'
  BY ConstantsOK DEF PlacesOK
<1>2. RowsOK'
  BY RowsStay
<1>3. FlagsOK'
  BY DEF FlagsOK
<1>4. SameResult'
  BY DEF SameResult
<1>5. RowsOfResult'
  BY DEF RowsOfResult, SameResult
<1>6. InStep'
  BY ConstantsOK DEF InStep, Follow, SameResult
<1>7. DrainedIsTheRest'
  BY DEF DrainedIsTheRest
<1>. QED BY <1>1, <1>2, <1>3, <1>4, <1>5, <1>6, <1>7

LEMMA CloseKeeps ==
  ASSUME FacadeInv, Close \/ SoftClose \/ Switch
  PROVE  FacadeInv'
<1>. USE DEF FacadeInv, TypeOK, Close, SoftClose, Switch, Cursor!Close, NewResult,
       cursor, seen, IsDrained, Ready
<1>1. PlacesOK'
  BY DEF PlacesOK
<1>2. RowsOK'
  BY RowsStay
<1>3. FlagsOK'
  BY DEF FlagsOK
<1>4. SameResult'
  BY DEF SameResult
<1>5. RowsOfResult'
  BY DEF RowsOfResult, SameResult
<1>6. InStep'
  BY DEF InStep, Follow, SameResult
<1>7. DrainedIsTheRest'
  BY DEF DrainedIsTheRest
<1>. QED BY <1>1, <1>2, <1>3, <1>4, <1>5, <1>6, <1>7

(* A fetch, a scroll, any call outside a spawn or a soft close that raises. *)
RaisesInCall ==
  /\ Ready /\ UNCHANGED facade
  /\ Raises /\ (Cursor!Break \/ UNCHANGED cursor)

LEMMA RaisesKeep ==
  ASSUME FacadeInv, RaisesInCall \/ DrainFails
  PROVE  FacadeInv'
<1>. USE DEF FacadeInv, TypeOK, RaisesInCall, DrainFails, Cursor!Break, Raises,
       cursor, facade, IsDrained, Ready
<1>1. PlacesOK'
  BY DEF PlacesOK
<1>2. RowsOK'
  BY RowsStay
<1>3. FlagsOK'
  BY DEF FlagsOK
<1>4. SameResult'
  BY DEF SameResult
<1>5. RowsOfResult'
  BY DEF RowsOfResult, SameResult
<1>6. InStep'
  BY DEF InStep, Follow, SameResult
<1>7. DrainedIsTheRest'
  BY DEF DrainedIsTheRest
<1>. QED BY <1>1, <1>2, <1>3, <1>4, <1>5, <1>6, <1>7

-----------------------------------------------------------------------------
(* The facade.                                                             *)

(* A fetch serves the list, awaits the cursor or raises.                   *)
LEMMA FetchCases ==
  ASSUME NEW n, Fetch(n)
  PROVE  \/ /\ Ready /\ IsDrained /\ FetchDrained(n)
            /\ UNCHANGED <<cursor, pc, collected, spawn>>
         \/ Ready /\ ~IsDrained /\ FetchAwaiting(n) /\ UNCHANGED facade
         \/ RaisesInCall
BY DEF Fetch, RaisesInCall, CursorRaises, MissingGreenlet

LEMMA OtherCallsRaise ==
  ASSUME ScrollRaises \/ CallOutsideSpawn
  PROVE  RaisesInCall
BY DEF ScrollRaises, CallOutsideSpawn, CursorRaises, MissingGreenlet, RaisesInCall

LEMMA WantsAreCounts ==
  ASSUME NEW n \in Wants \cup {All}
  PROVE  n \in Nat \cup {All} /\ n # 0
BY ConstantsOK DEF All

LEMMA StutterKeepsFacade == ASSUME FacadeInv, UNCHANGED vars PROVE FacadeInv'
<1>. USE DEF FacadeInv, TypeOK, vars, cursor, facade, seen, IsDrained, Ready
<1>1. PlacesOK' /\ FlagsOK'
  BY DEF PlacesOK, FlagsOK
<1>2. RowsOK'
  BY DEF RowsOK
<1>3. SameResult' /\ RowsOfResult'
  BY DEF SameResult, RowsOfResult
<1>4. InStep' /\ DrainedIsTheRest'
  BY DEF InStep, Follow, DrainedIsTheRest
<1>. QED BY <1>1, <1>2, <1>3, <1>4

(* Cursor and facade stay in step, through spawns left, calls that raise   *)
(* and soft closes cut short.                                              *)
THEOREM FacadeInvAlways == Spec => []FacadeInv
<1>1. FacadeInv /\ [Next]_vars => FacadeInv'
  <2>. SUFFICES ASSUME FacadeInv, [Next]_vars PROVE FacadeInv'
    OBVIOUS
  <2>1. ASSUME NEW n \in Wants \cup {All}, Fetch(n) PROVE FacadeInv'
    BY <2>1, FetchCases, WantsAreCounts, FetchDrainedKeeps, FetchAwaitingKeeps,
       RaisesKeep
  <2>. QED
    BY <2>1, ExecuteKeeps, ExecuteEndKeeps, ExecuteManyKeeps, ScrollKeeps,
       CloseKeeps, DrainRowKeeps, DrainedKeeps, RaisesKeep, OtherCallsRaise,
       StutterKeepsFacade
    DEF Next
<1>. QED BY InitFacade, <1>1, PTL DEF Spec

(* The variables of cursor and facade keep their types.                    *)
THEOREM TypeCorrect == Spec => []TypeOK
<1>1. FacadeInv => TypeOK
  BY DEF FacadeInv
<1>. QED BY <1>1, FacadeInvAlways, PTL

(* The list of a soft close is the whole rest of the result, in order, for *)
(* results of any length and wherever the caller stopped to fetch.         *)
THEOREM DrainedListIsTheRest == Spec => []DrainedIsTheRest
<1>1. FacadeInv => DrainedIsTheRest
  BY DEF FacadeInv
<1>. QED BY <1>1, FacadeInvAlways, PTL

(* What every step is to the caller: one of the stream, or nothing.        *)
LEMMA StepIsOfStream ==
  ASSUME FacadeInv, [Next]_vars
  PROVE  [Stream!Next]_(Stream!vars)
<1>. USE DEF Stream!vars
<1>1. ASSUME NEW s \in Stmts, Execute(s)
      PROVE  Stream!Next \/ UNCHANGED Stream!vars
  BY <1>1 DEF Execute, NewResult, Stream!Next, Stream!Open
<1>2. CASE ExecuteReturns
  <2>1. stmt \in Stmts
    BY <1>2 DEF ExecuteReturns, FacadeInv, SameResult
  <2>. QED BY <1>2, <2>1 DEF ExecuteReturns, NewResult, Stream!Next, Stream!Open
<1>3. CASE ExecuteRaises \/ ExecuteManyRaises \/ RaisesInCall \/ DrainFails
  BY <1>3 DEF ExecuteRaises, ExecuteManyRaises, RaisesInCall, DrainFails, Raises,
     Stream!Next, Stream!Break
<1>4. CASE ExecuteMany
  <2>1. CASE ~IsDrained
    BY <1>4, <2>1 DEF ExecuteMany
  <2>2. CASE IsDrained /\ stmt = NoStmt
    BY <1>4, <2>2 DEF ExecuteMany, NewResult, Stream!Next, Stream!Close
  <2>3. CASE IsDrained /\ stmt # NoStmt
    <3>1. stmt \in Stmts
      BY <2>3 DEF FacadeInv, TypeOK, PlacesOK
    <3>2. raised
      BY <1>4, <2>3 DEF ExecuteMany, FacadeInv, SameResult
    <3>3. Stream!Reopen(stmt)
      BY <1>4, <2>3, <3>2 DEF ExecuteMany, NewResult, Stream!Reopen
    <3>. QED BY <3>1, <3>3 DEF Stream!Next
  <2>. QED BY <2>1, <2>2, <2>3
<1>5. ASSUME NEW n \in Wants \cup {All}, Fetch(n)
      PROVE  Stream!Next \/ UNCHANGED Stream!vars
  BY <1>3, <1>5, FetchCases, WantsAreCounts, FetchDrainedKeeps, FetchAwaitingKeeps
<1>6. ASSUME NEW p \in Places, Scroll(p)
      PROVE  Stream!Next \/ UNCHANGED Stream!vars
  <2>1. CASE IsDrained
    BY <1>6, <2>1 DEF Scroll
  <2>2. CASE ~IsDrained
    <3>1. stmt \in Stmts /\ result = stmt
      BY <1>6, <2>2 DEF Scroll, FacadeInv, SameResult, TypeOK, PlacesOK
    <3>2. origin' = p /\ p \in Nat
      BY <1>6, <2>2, ConstantsOK DEF Scroll
    <3>3. Stream!Seek(origin')
      BY <1>6, <2>2, <3>1, <3>2 DEF Scroll, Stream!Seek
    <3>. QED BY <3>2, <3>3 DEF Stream!Next
  <2>. QED BY <2>1, <2>2
<1>7. CASE SoftClose \/ DrainRow \/ Drained \/ Switch \/ UNCHANGED vars
  BY <1>7 DEF SoftClose, DrainRow, Drained, Switch, vars, seen
<1>8. CASE Close
  BY <1>8 DEF Close, NewResult, Stream!Next, Stream!Close
<1>. QED
  BY <1>1, <1>2, <1>3, <1>4, <1>5, <1>6, <1>7, <1>8, OtherCallsRaise DEF Next

(* The facade implements the result stream its cursor implements: the      *)
(* switch to the list is invisible to its caller.                          *)
THEOREM FacadeIsAStream == Spec => ImplementsResultStream
<1>1. Init => Stream!Init
  BY DEF Init, Stream!Init
<1>. QED
  BY <1>1, StepIsOfStream, FacadeInvAlways, PTL
  DEF Spec, ImplementsResultStream, Stream!Spec
=============================================================================
