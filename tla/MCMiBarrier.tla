----------------------------- MODULE MCMiBarrier -----------------------------
(* Small instances of MiBarrier: the runs end when every program has gone   *)
(* through MaxBarrier barriers, so a run may stop there and nowhere else.   *)
EXTENDS MiBarrier

(* The programs have ended. *)
Ended == /\ \A h \in Host : pc[h] = "app" /\ entered[h] = MaxBarrier
         /\ UNCHANGED vars

MCNext == Next \/ Ended

MCSpec == Init /\ [][MCNext]_vars /\ Fairness
=============================================================================
