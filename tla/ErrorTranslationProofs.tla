----------------------- MODULE ErrorTranslationProofs -----------------------
(***************************************************************************)
(* Proofs about ErrorTranslation: for any enumeration of error codes, a    *)
(* typed error is caught by the handler that names it, and by no other.    *)
(***************************************************************************)
EXTENDS ErrorTranslation, TLAPS

LEMMA InitFactory == Init => FactoryInv
BY DEF Init, FactoryInv, TypeOK, ClassesApart, InUseIsKept, TypedIsCaught,
       OnlyItsCode

(* What a request for an attribute does to the factories.                  *)
LEMMA AttributeKeeps ==
  ASSUME FactoryInv, NEW n \in Names, Attribute(n)
  PROVE  /\ made' \in [Names -> Nat] /\ classes' \in Nat
         /\ ClassesApart'
         /\ Class(n) \in Nat \ {0}
         /\ made'[n] = Class(n)
         /\ \A m \in Names : made[m] # 0 => made'[m] = made[m]
<1>1. made \in [Names -> Nat] /\ classes \in Nat
  BY DEF FactoryInv, TypeOK
<1>2. \A m \in Names : made[m] \in Nat /\ made[m] <= classes
  BY <1>1 DEF FactoryInv, ClassesApart
<1>3. Class(n) \in Nat \ {0}
  BY <1>1, <1>2 DEF Class, NewClass
<1>4. made' = [made EXCEPT ![n] = Class(n)]
  BY DEF Attribute, Kept
<1>5. made' \in [Names -> Nat] /\ made'[n] = Class(n)
  BY <1>1, <1>3, <1>4
<1>6. \A m \in Names : m # n => made'[m] = made[m]
  BY <1>1, <1>4
<1>7. \A m \in Names : made[m] # 0 => made'[m] = made[m]
  BY <1>5, <1>6 DEF Class
<1>8. classes' \in Nat /\ classes' >= classes /\ classes' >= Class(n)
  BY <1>1, <1>3 DEF Attribute
<1>9. \A m \in Names : made'[m] <= classes'
  BY <1>1, <1>2, <1>3, <1>5, <1>6, <1>8
<1>10. \A m \in Names : m # n /\ made[m] # 0 => made[m] # Class(n)
  BY <1>1, <1>2 DEF FactoryInv, ClassesApart, Class, NewClass
<1>11. \A l, m \in Names : made'[l] # 0 /\ made'[l] = made'[m] => l = m
  BY <1>3, <1>5, <1>6, <1>10 DEF FactoryInv, ClassesApart
<1>. QED BY <1>3, <1>5, <1>7, <1>8, <1>9, <1>11 DEF ClassesApart

(* A class in use stays the one that is kept.                              *)
LEMMA KeptStaysKept ==
  ASSUME FactoryInv, NEW n \in Names, Attribute(n)
  PROVE  /\ held # NoHandler =>
              held.class # 0 /\ held.class = made'[held.name]
         /\ error # NoError /\ error.of # Untyped =>
              error.code \in Codes /\ error.of = made'[Canonical[error.code]]
<1>1. held # NoHandler => held.name \in Names
  BY DEF FactoryInv, TypeOK, Handlers
<1>2. \A c \in Codes : Canonical[c] \in Names
  BY ConstantsOK
<1>. QED BY AttributeKeeps, <1>1, <1>2 DEF FactoryInv, InUseIsKept, Untyped

(* What a handler with a class that is kept under its name does.           *)
LEMMA JudgedRight ==
  ASSUME NEW kept \in [Names -> Nat],
         \A l, m \in Names : kept[l] # 0 /\ kept[l] = kept[m] => l = m,
         error \in Errors,
         error.of # Untyped =>
           error.code \in Codes /\ error.of = kept[Canonical[error.code]],
         NEW n \in Names, kept[n] # 0, Judged(n, kept[n])
  PROVE  /\ error' = NoError \/ error' = error
         /\ verdict' \in Verdicts
         /\ TypedIsCaught' /\ OnlyItsCode'
<1>1. error.code \in SentCodes
  BY DEF Errors
<1>2. /\ verdict' \in Verdicts
      /\ verdict'.name = n /\ verdict'.code = error.code
      /\ verdict'.typed = (error.of # Untyped)
      /\ verdict'.caught = (error.of = kept[n])
  BY <1>1 DEF Judged, Verdicts
<1>3. TypedIsCaught'
  <2>. SUFFICES ASSUME error.of # Untyped, CodeOf[n] = error.code, ~IsAlias(n)
                PROVE  error.of = kept[n]
    BY <1>2 DEF TypedIsCaught, IsAlias
  <2>1. Canonical[error.code] = n
    BY DEF IsAlias
  <2>. QED BY <2>1
<1>4. OnlyItsCode'
  <2>. SUFFICES ASSUME error.of = kept[n]
                PROVE  error.of # Untyped /\ CodeOf[n] = error.code
    BY <1>2 DEF OnlyItsCode
  <2>1. error.of # Untyped
    BY DEF Untyped
  <2>2. Canonical[error.code] \in Names /\ CodeOf[Canonical[error.code]] = error.code
    BY <2>1, ConstantsOK
  <2>3. Canonical[error.code] = n
    BY <2>1, <2>2
  <2>. QED BY <2>1, <2>2, <2>3
<1>. QED BY <1>2, <1>3, <1>4 DEF Judged

LEMMA TranslateKeeps ==
  ASSUME FactoryInv, NEW c \in SentCodes, NEW matched \in BOOLEAN,
         Translate(c, matched)
  PROVE  FactoryInv'
<1>1. TypedIsCaught' /\ OnlyItsCode' /\ verdict' = NoVerdict
  BY DEF Translate, TypedIsCaught, OnlyItsCode
<1>2. CASE matched /\ c \in Codes /\ Attribute(NameOf(c))
           /\ error' = [code |-> c, of |-> Class(NameOf(c))]
  <2>1. NameOf(c) \in Names
    BY <1>2, ConstantsOK DEF NameOf
  <2>2. error' \in Errors
    BY <1>2, <2>1, AttributeKeeps DEF Errors, SentCodes
  <2>3. ClassesApart' /\ made' \in [Names -> Nat] /\ classes' \in Nat
    BY <1>2, <2>1, AttributeKeeps
  <2>4. held' = held
    BY DEF Translate
  <2>5. held' # NoHandler => held'.class # 0 /\ held'.class = made'[held'.name]
    BY <1>2, <2>1, <2>4, KeptStaysKept
  <2>6. error'.code \in Codes /\ error'.of = made'[Canonical[error'.code]]
    BY <1>2, <2>1, AttributeKeeps DEF NameOf
  <2>. QED BY <1>1, <2>2, <2>3, <2>4, <2>5, <2>6
           DEF FactoryInv, TypeOK, InUseIsKept
<1>3. CASE error' = [code |-> c, of |-> Untyped] /\ UNCHANGED <<made, classes>>
  BY <1>1, <1>3
  DEF Translate, FactoryInv, TypeOK, ClassesApart, InUseIsKept, Errors, Untyped
<1>. QED BY <1>2, <1>3 DEF Translate, Listed

LEMMA HandlerKeeps ==
  ASSUME FactoryInv, NEW n \in Names, Handler(n)
  PROVE  FactoryInv'
<1>1. error \in Errors /\ held' = held /\ Attribute(n) /\ Judged(n, Class(n))
  BY DEF Handler, FactoryInv, TypeOK
<1>2. /\ made' \in [Names -> Nat] /\ classes' \in Nat /\ ClassesApart'
      /\ Class(n) = made'[n] /\ made'[n] # 0
  BY <1>1, AttributeKeeps
<1>3. /\ held # NoHandler => held.class # 0 /\ held.class = made'[held.name]
      /\ error.of # Untyped =>
           error.code \in Codes /\ error.of = made'[Canonical[error.code]]
  BY <1>1, KeptStaysKept DEF Handler
<1>4. \A l, m \in Names : made'[l] # 0 /\ made'[l] = made'[m] => l = m
  BY <1>2 DEF ClassesApart
<1>5. /\ error' = NoError \/ error' = error
      /\ verdict' \in Verdicts /\ TypedIsCaught' /\ OnlyItsCode'
  BY <1>1, <1>2, <1>3, <1>4, JudgedRight
<1>. QED BY <1>1, <1>2, <1>3, <1>5 DEF FactoryInv, TypeOK, InUseIsKept

LEMMA HeldHandlerKeeps ==
  ASSUME FactoryInv, HeldHandler
  PROVE  FactoryInv'
<1>1. /\ error \in Errors /\ UNCHANGED <<made, classes, held>>
      /\ made \in [Names -> Nat] /\ Judged(held.name, held.class)
  BY DEF HeldHandler, FactoryInv, TypeOK
<1>2. held.name \in Names /\ held.class # 0 /\ held.class = made[held.name]
  BY DEF HeldHandler, FactoryInv, TypeOK, Handlers, InUseIsKept
<1>3. error.of # Untyped =>
        error.code \in Codes /\ error.of = made[Canonical[error.code]]
  BY DEF HeldHandler, FactoryInv, InUseIsKept
<1>4. \A l, m \in Names : made[l] # 0 /\ made[l] = made[m] => l = m
  BY DEF FactoryInv, ClassesApart
<1>5. /\ error' = NoError \/ error' = error
      /\ verdict' \in Verdicts /\ TypedIsCaught' /\ OnlyItsCode'
  BY <1>1, <1>2, <1>3, <1>4, JudgedRight
<1>. QED BY <1>1, <1>5 DEF FactoryInv, TypeOK, ClassesApart, InUseIsKept

LEMMA HoldKeeps ==
  ASSUME FactoryInv, NEW n \in Names, Hold(n)
  PROVE  FactoryInv'
<1>1. /\ made' \in [Names -> Nat] /\ classes' \in Nat /\ ClassesApart'
      /\ Class(n) = made'[n] /\ Class(n) \in Nat \ {0}
  BY AttributeKeeps DEF Hold
<1>2. /\ held' = [name |-> n, class |-> Class(n)] /\ held' \in Handlers
      /\ verdict' = NoVerdict /\ error' = NoError
  BY <1>1 DEF Hold, Handlers
<1>. QED BY <1>1, <1>2
         DEF FactoryInv, TypeOK, InUseIsKept, TypedIsCaught, OnlyItsCode

LEMMA OthersKeepFactory ==
  ASSUME FactoryInv, Misspelt \/ PlainHandler \/ UNCHANGED vars
  PROVE  FactoryInv'
BY DEF Misspelt, PlainHandler, vars, FactoryInv, TypeOK, ClassesApart,
       InUseIsKept, TypedIsCaught, OnlyItsCode

(* The classes of a factory stay apart and are kept, whoever asks for them.*)
THEOREM FactoryInvAlways == Spec => []FactoryInv
<1>1. FactoryInv /\ [Next]_vars => FactoryInv'
  BY TranslateKeeps, HandlerKeeps, HeldHandlerKeeps, HoldKeeps,
     OthersKeepFactory
  DEF Next
<1>. QED BY InitFactory, <1>1, PTL DEF Spec

(* A typed error is caught where its name is, whenever its class was made. *)
THEOREM TypedErrorsAreCaught == Spec => []TypedIsCaught
<1>1. FactoryInv => TypedIsCaught
  BY DEF FactoryInv
<1>. QED BY <1>1, FactoryInvAlways, PTL

(* And nowhere else.                                                       *)
THEOREM NothingElseIsCaught == Spec => []OnlyItsCode
<1>1. FactoryInv => OnlyItsCode
  BY DEF FactoryInv
<1>. QED BY <1>1, FactoryInvAlways, PTL
=============================================================================
