---------------------------- MODULE LockService ----------------------------
(***************************************************************************)
(* What mi_lock and mi_unlock promise to the program: a lock has at most   *)
(* one holder, and the lock remembers who released it last, because the    *)
(* next holder takes that host's write notices (lazy release consistency). *)
(* MiLock implements this specification.                                   *)
(***************************************************************************)
EXTENDS Integers

CONSTANTS Host, \* ids of the hosts
          Lock  \* lock numbers

NoHost == -1

VARIABLES holder, \* holder[l]: the host that is inside lock l, or NoHost
          last    \* last[l]: the host that released l last, or NoHost

Init == /\ holder = [l \in Lock |-> NoHost]
        /\ last = [l \in Lock |-> NoHost]

(* mi_lock(l) returns at host h. *)
Acquire(h, l) == /\ holder[l] = NoHost
                 /\ holder' = [holder EXCEPT ![l] = h]
                 /\ UNCHANGED last

(* mi_unlock(l) is called at host h. *)
Release(h, l) == /\ holder[l] = h
                 /\ holder' = [holder EXCEPT ![l] = NoHost]
                 /\ last' = [last EXCEPT ![l] = h]

(* A barrier completes: every write notice is exchanged there, so a lock   *)
(* may forget who released it last. Only free locks forget.                *)
Forget(S) == /\ \A l \in S : holder[l] = NoHost
             /\ last' = [l \in Lock |-> IF l \in S THEN NoHost ELSE last[l]]
             /\ UNCHANGED holder

Next == \/ \E h \in Host, l \in Lock : Acquire(h, l) \/ Release(h, l)
        \/ \E S \in SUBSET Lock : Forget(S)

Spec == Init /\ [][Next]_<<holder, last>>
============================================================================
