----------------------------- MODULE MiInterval -----------------------------
(* The vector timestamps of mem.c: functions from hosts to integers. *)
EXTENDS Integers

(* One timestamp comes after another: no component is smaller and at least  *)
(* one is bigger.                                                           *)
isAfterInterval(t1, t2) == /\ \A g \in DOMAIN t2 : t1[g] >= t2[g]
                           /\ \E g \in DOMAIN t2 : t1[g] > t2[g]

(* The next interval of host h after one with timestamp t. *)
Bumped(t, h) == [t EXCEPT ![h] = t[h] + 1]
=============================================================================
