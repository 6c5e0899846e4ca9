------------------------------ MODULE Ranking -------------------------------
(***************************************************************************)
(* Ranks, to say that a call comes to an end: tuples of naturals, of which *)
(* the parts that come first weigh more.  No rank goes down forever, so a  *)
(* call whose every step makes its rank smaller takes finitely many.       *)
(***************************************************************************)
EXTENDS Integers

(* One of its parts is smaller and none before it is larger.               *)
Below(r, q) ==
  \E k \in DOMAIN q : r[k] < q[k] /\ \A j \in 1 .. k - 1 : r[j] <= q[j]
=============================================================================
