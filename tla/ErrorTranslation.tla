-------------------------- MODULE ErrorTranslation --------------------------
(***************************************************************************)
(* translate_database_error and the two factories of typed errors          *)
(* (aurora_data_api/exceptions): a refused call is raised as an instance   *)
(* of a class named for its error code; `except MySQLError.ER_X` names the *)
(* class that catches it.  A factory makes a class when its name is first  *)
(* asked for, by a translation or by a handler, and keeps it.              *)
(*                                                                         *)
(* Names and codes are those of both factories, each with its factory: a   *)
(* message is MySQL's or PostgreSQL's, never both.  One thread uses the    *)
(* module, as its threadsafety of 0 asks.                                  *)
(***************************************************************************)
EXTENDS Integers

CONSTANTS
  Names,      (* the members of the two enumerations of error codes       *)
  Codes,      (* the codes they are the names of                          *)
  CodeOf,     (* CodeOf[n]: the code of n; aliases share one              *)
  Canonical,  (* Canonical[c]: the first name of c, the one Enum gives it *)
  OtherCodes, (* codes the enumerations do not list                       *)
  OtherNames, (* names they do not list                                   *)
  NoError     (* no error is in flight                                    *)

ASSUME ConstantsOK ==
  /\ CodeOf \in [Names -> Codes]
  /\ Canonical \in [Codes -> Names]
  /\ \A c \in Codes : CodeOf[Canonical[c]] = c
  /\ Codes \cap OtherCodes = {} /\ Names \cap OtherNames = {}

VARIABLES
  made,     (* made[n]: the class kept as attribute n of its factory, or 0 *)
  classes,  (* the number of classes made so far; they are 1 .. classes    *)
  held,     (* a class the program took from a factory, with its name      *)
  error,    (* the error in flight                                         *)
  verdict   (* the last handler that looked at an error, and what it did   *)

vars == <<made, classes, held, error, verdict>>

(* Class 0 is the plain DatabaseError.                                     *)
Untyped == 0

SentCodes == Codes \cup OtherCodes
Errors    == [code : SentCodes, of : Nat]
Handlers  == [name : Names, class : Nat]
NoHandler == [class |-> Untyped]
NoVerdict == [caught |-> FALSE]
Verdicts  == [name : Names, code : SentCodes, typed : BOOLEAN, caught : BOOLEAN]

TypeOK ==
  /\ made \in [Names -> Nat]
  /\ classes \in Nat
  /\ held \in Handlers \cup {NoHandler}
  /\ error \in Errors \cup {NoError}
  /\ verdict \in Verdicts \cup {NoVerdict}

Init ==
  /\ made = [n \in Names |-> 0] /\ classes = 0
  /\ held = NoHandler /\ error = NoError /\ verdict = NoVerdict

-----------------------------------------------------------------------------
(* The factories.                                                          *)

(* Mutant: all classes are one.                                            *)
OneClass == 1

NewClass == classes + 1

Class(n) == IF made[n] = 0 THEN NewClass ELSE made[n]

(* Mutant: a class is not kept.                                            *)
NotKept(n) == made

Kept(n) == [made EXCEPT ![n] = Class(n)]

(* The attribute n of its factory is asked for.                            *)
Attribute(n) ==
  /\ made' = Kept(n)
  /\ classes' = IF Class(n) > classes THEN Class(n) ELSE classes

-----------------------------------------------------------------------------
IsAlias(n) == n # Canonical[CodeOf[n]]

(* Mutant: of several names of a code the last one is taken.               *)
LastName(c) ==
  LET names == {n \in Names : CodeOf[n] = c}
  IN  CHOOSE n \in names : IsAlias(n) \/ names = {n}

(* Looking a code up in its enumeration.                                   *)
NameOf(c) == Canonical[c]

Listed(c) == c \in Codes

(* A call is refused with code c; `matched` says that one of the patterns  *)
(* finds the code in the message: MySQL's wants a numeric SQLState behind  *)
(* it, PostgreSQL's a position.  What goes wrong on the way, such as a code*)
(* that is not listed, leaves a plain DatabaseError.                       *)
Translate(c, matched) ==
  /\ error = NoError
  /\ verdict' = NoVerdict
  /\ \/ /\ matched /\ Listed(c)
        /\ Attribute(NameOf(c))
        /\ error' = [code |-> c, of |-> Class(NameOf(c))]
     \/ /\ ~matched \/ ~Listed(c)
        /\ error' = [code |-> c, of |-> Untyped]
        /\ UNCHANGED <<made, classes>>
  /\ UNCHANGED held

Judged(name, class) ==
  /\ verdict' = [name   |-> name,
                 code   |-> error.code,
                 typed  |-> error.of # Untyped,
                 caught |-> error.of = class]
  /\ error' = IF error.of = class THEN NoError ELSE error

(* `except MySQLError.ER_X`: the name is looked up with an error in flight.*)
Handler(n) ==
  /\ error # NoError
  /\ Attribute(n)
  /\ Judged(n, Class(n))
  /\ UNCHANGED held

(* A class taken beforehand: `Duplicate = PostgreSQLError.ER_UNIQ_...`.    *)
Hold(n) ==
  /\ error = NoError
  /\ Attribute(n)
  /\ held' = [name |-> n, class |-> Class(n)]
  /\ verdict' = NoVerdict
  /\ UNCHANGED error

HeldHandler ==
  /\ error # NoError /\ held # NoHandler
  /\ Judged(held.name, held.class)
  /\ UNCHANGED <<made, classes, held>>

(* A name that is not listed raises an AttributeError in place of the error.*)
Misspelt ==
  /\ error # NoError /\ OtherNames # {}
  /\ error' = NoError /\ verdict' = NoVerdict
  /\ UNCHANGED <<made, classes, held>>

(* `except DatabaseError` catches every one of them.                       *)
PlainHandler ==
  /\ error # NoError
  /\ error' = NoError /\ verdict' = NoVerdict
  /\ UNCHANGED <<made, classes, held>>

Next ==
  \/ \E c \in SentCodes, matched \in BOOLEAN : Translate(c, matched)
  \/ \E n \in Names : Handler(n) \/ Hold(n)
  \/ HeldHandler \/ Misspelt \/ PlainHandler

Spec == Init /\ [][Next]_vars

-----------------------------------------------------------------------------
(* Properties.                                                             *)

(* A handler that names the first name of a code catches the typed errors  *)
(* of that code, whoever asked for the class first, and when.  (One that   *)
(* names an alias catches nothing: its class is never raised.)             *)
TypedIsCaught ==
  verdict # NoVerdict =>
    (verdict.typed /\ CodeOf[verdict.name] = verdict.code /\ ~IsAlias(verdict.name)
       => verdict.caught)

(* A handler catches no error but a typed one of the code it names.        *)
OnlyItsCode ==
  verdict # NoVerdict =>
    (verdict.caught => verdict.typed /\ CodeOf[verdict.name] = verdict.code)

-----------------------------------------------------------------------------
(* The inductive invariant, proved in ErrorTranslationProofs.              *)

(* Every name has a class of its own.                                      *)
ClassesApart ==
  /\ \A n \in Names : made[n] <= classes
  /\ \A m, n \in Names : made[m] # 0 /\ made[m] = made[n] => m = n

(* A class in use is the one its factory has kept.                         *)
InUseIsKept ==
  /\ held # NoHandler => held.class # 0 /\ held.class = made[held.name]
  /\ error # NoError /\ error.of # Untyped =>
       error.code \in Codes /\ error.of = made[Canonical[error.code]]

FactoryInv ==
  TypeOK /\ ClassesApart /\ InUseIsKept /\ TypedIsCaught /\ OnlyItsCode
=============================================================================
