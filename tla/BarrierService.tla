-------------------------- MODULE BarrierService ---------------------------
(***************************************************************************)
(* What mi_barrier promises to the program: nobody leaves its n-th barrier *)
(* before everybody has entered its n-th barrier.  MiBarrier implements it *)
(***************************************************************************)
EXTENDS Integers

CONSTANT Host

VARIABLES entered, \* entered[h]: how often host h called mi_barrier
          left     \* left[h]: how often mi_barrier returned at host h

Init == /\ entered = [h \in Host |-> 0]
        /\ left = [h \in Host |-> 0]

Enter(h) == /\ entered[h] = left[h]
            /\ entered' = [entered EXCEPT ![h] = @ + 1]
            /\ UNCHANGED left

Leave(h) == /\ left[h] < entered[h]
            /\ \A g \in Host : entered[g] >= entered[h]
            /\ left' = [left EXCEPT ![h] = @ + 1]
            /\ UNCHANGED entered

Next == \E h \in Host : Enter(h) \/ Leave(h)

Spec == Init /\ [][Next]_<<entered, left>>
============================================================================
