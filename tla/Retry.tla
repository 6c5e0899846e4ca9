------------------------------- MODULE Retry --------------------------------
(***************************************************************************)
(* The retry decorator (aurora_data_api/retry.py), whatever it decorates:  *)
(* a call runs its body, sleeps and runs the whole body anew after an      *)
(* exception that it was told to retry, and raises the first one it was    *)
(* not told to, or that leaves no delay.  An abstract specification: the   *)
(* decorated methods implement it.                                         *)
(***************************************************************************)
EXTENDS Naturals

CONSTANTS
  Retries,     (* the number of delays                                     *)
  Argument,    (* `exceptions`: a set of records [kind : {"class", "name"},*)
               (* is : the class or the name]; a single one is wrapped     *)
  Exceptions,  (* what a body may raise                                    *)
  InstanceOf,  (* the pairs of an exception and a class it is of           *)
  NamedLike,   (* the pairs of an exception and a name its type's contains *)
  Interrupts,  (* what may be raised in a sleep                            *)
  None

VARIABLES
  at,       (* "running", "sleeping", "returned" or "raised"               *)
  attempt,  (* attempt_idx                                                 *)
  exc       (* the exception last caught                                   *)

Of(kind) == {a.is : a \in {b \in Argument : b.kind = kind}}

Types == Of("class")
Names == Of("name")

ShouldRetry(e) ==
  \/ \E t \in Types : <<e, t>> \in InstanceOf
  \/ \E n \in Names : <<e, n>> \in NamedLike

Init == at = "running" /\ attempt = 0 /\ exc = None

Returns ==
  /\ at = "running"
  /\ at' = "returned"
  /\ UNCHANGED <<attempt, exc>>

(* Sleeps before the next attempt, of which N delays leave N.              *)
Caught(e) ==
  /\ at = "running"
  /\ exc' = e
  /\ at' = IF ShouldRetry(e) /\ attempt < Retries THEN "sleeping" ELSE "raised"
  /\ UNCHANGED attempt

Wakes ==
  /\ at = "sleeping"
  /\ at' = "running" /\ attempt' = attempt + 1 /\ exc' = None

(* Cancelled or interrupted: the sleep is outside of the try.              *)
Interrupted ==
  /\ at = "sleeping"
  /\ at' = "raised" /\ exc' \in Interrupts
  /\ UNCHANGED attempt

Next ==
  \/ Returns
  \/ \E e \in Exceptions : Caught(e)
  \/ Wakes \/ Interrupted

Spec == Init /\ [][Next]_<<at, attempt, exc>>
=============================================================================
