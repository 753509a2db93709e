------------------------------ MODULE MCMiLock ------------------------------
(* Small instances of MiLock. *)
EXTENDS MiLock

(* Every host uses every lock. *)
AllUsers == [l \in Lock |-> Host]

(* Windows of graspLock and freeLock in which a handler can do nothing that *)
(* the stores after it overwrite: no owner and no waiter gets lost.         *)
QuietPoints == {"graspOwner", "graspLast", "freeShift", "freeHand", "freeLast"}
=============================================================================
