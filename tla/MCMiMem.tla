------------------------------- MODULE MCMiMem -------------------------------
(* Small programs for MiMem: what a host may do between two barriers. Every  *)
(* one of them is free of data races.                                        *)
EXTENDS MiMem

Op(l, p, c, i) == [lock |-> l, page |-> p, cell |-> c, inc |-> i]

(* mem-test-host1.c and mem-test-host2.c: every host adds to a counter under *)
(* lock 0, and reads it without a lock after the last barrier.               *)
TestProgram ==
  [h \in Host |-> [k \in 0 .. MaxBarrier |->
     IF k = MaxBarrier THEN {Op(NoLock, 0, 0, FALSE)} ELSE {Op(0, 0, 0, TRUE)}]]

(* Page 0 is shared under lock 0, every host adding to any of its cells;    *)
(* page 1 is written by its home alone. After the barrier everyone reads     *)
(* both without a lock.                                                      *)
SharedProgram ==
  [h \in Host |-> [k \in 0 .. MaxBarrier |->
     IF k > 0 THEN {Op(NoLock, p, 0, FALSE) : p \in PageIndex}
     ELSE {Op(0, 0, c, TRUE) : c \in Cell}
          \cup {Op(NoLock, p, 0, TRUE) : p \in {1} \cap {h}}]]

(* False sharing: every host writes a cell of its own in page 0, without a   *)
(* lock; after the barrier everyone reads all cells.                         *)
OwnCellProgram ==
  [h \in Host |-> [k \in 0 .. MaxBarrier |->
     IF k > 0 THEN {Op(NoLock, 0, c, FALSE) : c \in Cell} ELSE {Op(NoLock, 0, h, TRUE)}]]

(* The hosts write one cell in turns, with a barrier between two turns. *)
TurnsProgram ==
  [h \in Host |-> [k \in 0 .. MaxBarrier |->
     IF k % hostnum = h THEN {Op(NoLock, 0, 0, TRUE)} ELSE {}]]

(* Page l is used under lock l only, as the blocks of matrix c in mm.c. *)
TwoLockProgram == [h \in Host |-> [k \in 0 .. MaxBarrier |-> {Op(l, l, 0, TRUE) : l \in Lock}]]

(* The programs have ended. *)
Ended == /\ \A h \in Host : pc[h] = "app" /\ phase[h] = MaxBarrier /\ done[h] = MaxOps
         /\ msgs = {}
         /\ UNCHANGED vars

MCNext == Next \/ Ended

MCSpec == Init /\ [][MCNext]_vars
=============================================================================
