-------------------------- MODULE MiLockExclusion ---------------------------
(***************************************************************************)
(* Mutual exclusion of MiLock, for any number of hosts and locks, wherever *)
(* the handler cannot meet a lock half updated (RaceFree): on the code as  *)
(* written for locks that their manager's own program does not use, and    *)
(* for all locks with SIGIO masked at the race points.                     *)
(*                                                                         *)
(* The argument: the right to a lock is somewhere exactly once.  It is in  *)
(* the owner's myLocks, or in a GRANT_LOCK or RLS_LOCK on its way, or with *)
(* the manager's thread inside mi_lock or mi_unlock; and wherever it is,   *)
(* the manager records the host it belongs to as the owner.                *)
(***************************************************************************)
EXTENDS MiLock, TLAPS

-----------------------------------------------------------------------------
(* Types: TypeCorrect *)

(* A lock's manager is a host. *)
LEMMA ManagerIsHost == ASSUME NEW l \in Lock PROVE Manager(l) \in Host
BY HostNumAssumption, LockNumAssumption DEF Manager, Host, Lock

(* Host 0 and lock 0 exist, and a waitingList has a first place. *)
LEMMA Zeros == 0 \in Host /\ 0 \in Lock /\ 0 \in Slot /\ Host \subseteq HostOrNone
               /\ NoHost \in HostOrNone /\ HostOrNone \subseteq Int
BY HostNumAssumption, LockNumAssumption, MaxHostAssumption
DEF Host, Lock, Slot, HostOrNone, NoHost

(* The operations on a milock_t give a milock_t, in any state of the lock. *)
LEMMA LockOpsType ==
  ASSUME NEW lk \in MiLockRecord, NEW h \in Host, NEW w \in HostOrNone
  PROVE /\ TakeLock(lk, h) \in MiLockRecord
        /\ PutWaiter(lk, h) \in MiLockRecord
        /\ CountWaiter(lk) \in MiLockRecord
        /\ graspLock(lk, h) \in MiLockRecord
        /\ SetFree(lk, h) \in MiLockRecord
        /\ ShiftWaiters(lk) \in MiLockRecord
        /\ DropWaiter(lk, w, h) \in MiLockRecord
        /\ freeLock(lk, h) \in MiLockRecord
        /\ FreeResult(lk, h) \in HostOrNone \cup {-5, -4, -3}
        /\ GraspResult(lk, h) \in HostOrNone \cup {-4, -3}
<1>1. TakeLock(lk, h) \in MiLockRecord
  BY Zeros DEF TakeLock, MiLockRecord
<1>2. ASSUME NEW r \in MiLockRecord PROVE PutWaiter(r, h) \in MiLockRecord /\ CountWaiter(r) \in MiLockRecord
  BY Zeros DEF PutWaiter, CountWaiter, MiLockRecord
<1>3. graspLock(lk, h) \in MiLockRecord
  BY <1>1, <1>2 DEF graspLock
<1>4. SetFree(lk, h) \in MiLockRecord
  BY Zeros DEF SetFree, MiLockRecord
<1>5. ShiftWaiters(lk) \in MiLockRecord
  <2> DEFINE wl == [i \in Slot |-> IF i < lk.waitingListCount - 1 /\ i + 1 \in Slot
                                  THEN lk.waitingList[i + 1] ELSE lk.waitingList[i]]
  <2>1. wl \in [Slot -> HostOrNone]
    BY DEF MiLockRecord
  <2>2. ShiftWaiters(lk) = [lk EXCEPT !.waitingList = wl]
    BY DEF ShiftWaiters
  <2> HIDE DEF wl
  <2> QED BY <2>1, <2>2 DEF MiLockRecord
<1>6. ASSUME NEW r \in MiLockRecord, NEW v \in HostOrNone PROVE DropWaiter(r, v, h) \in MiLockRecord
  <2> DEFINE wl == [r.waitingList EXCEPT ![r.waitingListCount - 1] = NoHost]
  <2>0. r.waitingList \in [Slot -> HostOrNone] /\ r.waitingListCount \in Int
    BY DEF MiLockRecord
  <2>a. ASSUME NEW g \in [Slot -> HostOrNone], NEW c PROVE [g EXCEPT ![c] = NoHost] \in [Slot -> HostOrNone]
    BY Zeros
  <2>1. wl \in [Slot -> HostOrNone] /\ r.waitingListCount - 1 \in Int
    BY <2>0, <2>a
  <2>2. DropWaiter(r, v, h) = [r EXCEPT !.waitingList = wl, !.waitingListCount = r.waitingListCount - 1,
                                        !.owner = v, !.lasthostid = h]
    BY DEF DropWaiter
  <2> HIDE DEF wl
  <2> QED BY <2>1, <2>2, Zeros DEF MiLockRecord
<1>7. lk.waitingList[0] \in HostOrNone
  BY Zeros DEF MiLockRecord
<1>8. freeLock(lk, h) \in MiLockRecord
  BY <1>4, <1>5, <1>6, <1>7 DEF freeLock
<1>9. FreeResult(lk, h) \in HostOrNone \cup {-5, -4, -3} /\ GraspResult(lk, h) \in HostOrNone \cup {-4, -3}
  BY <1>7 DEF FreeResult, GraspResult, MiLockRecord
<1> QED BY <1>1, <1>2, <1>3, <1>4, <1>5, <1>6, <1>8, <1>9

(* Sending and taking messages keep the channels well typed. *)
LEMMA NetType ==
  ASSUME NEW n \in [Host -> [Host -> Seq(Message)]], NEW f \in Host, NEW t \in Host
  PROVE /\ \A m \in Message : Sent(n, f, t, m) \in [Host -> [Host -> Seq(Message)]]
        /\ n[f][t] # << >> => /\ Taken(n, f, t) \in [Host -> [Host -> Seq(Message)]]
                              /\ Head(n[f][t]) \in Message
BY DEF Sent, Taken

(* The messages of syn.c's locks are well typed. *)
LEMMA MsgType ==
  ASSUME NEW l \in Lock, NEW last \in HostOrNone
  PROVE /\ Msg("ACQ_LOCK", l, last) \in Message
        /\ Msg("RLS_LOCK", l, last) \in Message
        /\ Msg("GRANT_LOCK", l, last) \in Message
BY DEF Msg, Message

(* grantLock keeps the channels well typed. *)
LEMMA GrantType ==
  ASSUME NEW n \in [Host -> [Host -> Seq(Message)]], NEW lk \in MiLockRecord,
         NEW l \in Lock, NEW h
  PROVE grantLock(n, lk, l, h) \in [Host -> [Host -> Seq(Message)]]
<1>1. lk.lasthostid \in HostOrNone
  BY DEF MiLockRecord
<1> QED BY <1>1, NetType, MsgType, ManagerIsHost DEF grantLock

(* TypeOK alone is not inductive: the waiter that freeLock has read and not *)
(* yet made the owner is a host or -1.                                      *)
Picking == {"freeShift", "freeClear", "freeCount", "freeHand"}
PickedTyped == \A h \in Host : pc[h] \in Picking => result[h] \in HostOrNone

TypeInv == TypeOK /\ PickedTyped

(* A call that returns leaves the thread's variables well typed. *)
LEMMA IdleType ==
  ASSUME TypeInv, NEW h \in Host, Idle(h)
  PROVE /\ pc' \in [Host -> Points]
        /\ cur' \in [Host -> Lock]
        /\ result' \in [Host -> HostOrNone \cup {-5, -4, -3, 0}]
        /\ PickedTyped'
<1>1. /\ pc' \in [Host -> Points]
      /\ cur' \in [Host -> Lock]
      /\ result' \in [Host -> HostOrNone \cup {-5, -4, -3, 0}]
  BY Zeros DEF Idle, TypeInv, TypeOK, Points
<1>2. ASSUME NEW g \in Host, pc'[g] \in Picking PROVE result'[g] \in HostOrNone
  <2>1. g # h /\ pc'[g] = pc[g] /\ result'[g] = result[g]
    BY <1>2 DEF Idle, TypeInv, TypeOK, Picking
  <2> QED BY <1>2, <2>1 DEF TypeInv, PickedTyped
<1> QED BY <1>1, <1>2 DEF PickedTyped

(* The single stores of graspLock and freeLock keep a milock_t well typed. *)
LEMMA StoreType ==
  ASSUME TypeInv, NEW h \in Host
  PROVE LET lk == locks[cur[h]]
            end == lk.waitingListCount - 1
        IN /\ [lk EXCEPT !.state = "FREE"] \in MiLockRecord
           /\ [lk EXCEPT !.state = "LOCKED"] \in MiLockRecord
           /\ [lk EXCEPT !.owner = h] \in MiLockRecord
           /\ [lk EXCEPT !.owner = NoHost] \in MiLockRecord
           /\ [lk EXCEPT !.waitingList = [lk.waitingList EXCEPT ![end] = NoHost]] \in MiLockRecord
           /\ [lk EXCEPT !.waitingListCount = end] \in MiLockRecord
           /\ pc[h] \in Picking => [lk EXCEPT !.owner = result[h]] \in MiLockRecord
           /\ [lk EXCEPT !.lasthostid = h] \in MiLockRecord
<1>1. locks[cur[h]] \in MiLockRecord /\ (pc[h] \in Picking => result[h] \in HostOrNone)
  BY DEF TypeInv, TypeOK, PickedTyped
<1> QED BY <1>1, Zeros DEF MiLockRecord

(* TypeInv is inductive. *)
LEMMA TypeStep == TypeInv /\ [Next]_vars => TypeInv'
<1> SUFFICES ASSUME TypeInv, [Next]_vars PROVE TypeInv'
  OBVIOUS
<1> USE Zeros DEF TypeOK, TypeInv, PickedTyped, Picking
<1>1. ASSUME NEW h \in Host, NEW l \in Lock, LockRemote(h, l) PROVE TypeInv'
  BY <1>1, ManagerIsHost, NetType, MsgType DEF LockRemote, Points
<1>2. ASSUME NEW h \in Host, NEW l \in Lock, LockLocal(h, l) PROVE TypeInv'
  <2> DEFINE r == GraspResult(locks[l], h)
             point == IF r >= -1 THEN "graspSet" ELSE IF r = -3 THEN "graspPut" ELSE "app"
  <2>1. pc' = [pc EXCEPT ![h] = point] /\ cur' = [cur EXCEPT ![h] = l]
    BY <1>2 DEF LockLocal
  <2>2. point \in Points \ Picking
    BY DEF Points, RacePoints
  <2> HIDE DEF point
  <2>3. pc' \in [Host -> Points] /\ cur' \in [Host -> Lock]
    BY <2>1, <2>2
  <2>4. PICK g \in Garbage : ret' = [ret EXCEPT ![h] = IF r = -4 THEN g ELSE @]
    BY <1>2 DEF LockLocal
  <2>5. ret' \in [Host -> Garbage]
    BY <2>4
  <2>6. UNCHANGED <<locks, myLocks, waitFlag, lasthostid, result, net>>
    BY <1>2 DEF LockLocal
  <2>7. PickedTyped'
    BY <2>1, <2>2, <2>6
  <2> QED BY <2>3, <2>5, <2>6, <2>7
<1>3. ASSUME NEW h \in Host, NEW l \in Lock, UnlockRemote(h, l) PROVE TypeInv'
  BY <1>3, ManagerIsHost, NetType, MsgType, GarbageAssumption DEF UnlockRemote
<1>4. ASSUME NEW h \in Host, NEW l \in Lock, UnlockLocal(h, l) PROVE TypeInv'
  <2> DEFINE r == FreeResult(locks[l], h)
             point == IF r \in {-3, -4} THEN "grant" ELSE IF r = -5 THEN "freeSet" ELSE "freeShift"
  <2>1. r \in HostOrNone \cup {-5, -4, -3}
    BY LockOpsType
  <2>2. point \in Points \ {"freeClear", "freeCount", "freeHand"} /\ (point = "freeShift" => r \in HostOrNone)
    BY <2>1 DEF Points, RacePoints
  <2>3. /\ pc' = [pc EXCEPT ![h] = point]
        /\ result' = [result EXCEPT ![h] = r]
        /\ cur' = [cur EXCEPT ![h] = l]
        /\ myLocks' = [myLocks EXCEPT ![h][l] = 0]
        /\ UNCHANGED <<locks, waitFlag, lasthostid, ret, net>>
    BY <1>4 DEF UnlockLocal
  <2> HIDE DEF r, point
  <2>4. PickedTyped'
    BY <2>2, <2>3
  <2>5. myLocks' \in [Host -> [Lock -> {0, 1}]]
    BY <2>3
  <2> QED BY <2>1, <2>2, <2>3, <2>4, <2>5
<1>5. ASSUME NEW h \in Host, GraspSet(h) PROVE TypeInv'
  <2>1. locks[cur[h]].lasthostid \in HostOrNone
    BY DEF MiLockRecord
  <2> QED BY <1>5, <2>1, LockOpsType DEF GraspSet, Points
<1>6. ASSUME NEW h \in Host, GraspPut(h) PROVE TypeInv'
  BY <1>6, LockOpsType DEF GraspPut, Points, RacePoints
<1>7. ASSUME NEW h \in Host, GraspCount(h) PROVE TypeInv'
  BY <1>7, LockOpsType DEF GraspCount, Points, RacePoints
<1>8. ASSUME NEW h \in Host, SetWait(h) PROVE TypeInv'
  BY <1>8 DEF SetWait, Points
<1>9. ASSUME NEW h \in Host, Wake(h) PROVE TypeInv'
  BY <1>9 DEF Wake, Points
<1>10. ASSUME NEW h \in Host, AcquiredAfterWait(h) PROVE TypeInv'
  <2>1. Idle(h) /\ UNCHANGED <<locks, myLocks, waitFlag, net>>
    BY <1>10 DEF AcquiredAfterWait
  <2>2. PICK g \in Garbage : ret' = [ret EXCEPT ![h] = Returned(h, g)]
    BY <1>10 DEF AcquiredAfterWait
  <2>3. ret' \in [Host -> Garbage]
    BY <2>2, GarbageAssumption DEF Returned
  <2>4. lasthostid' \in [Host -> HostOrNone]
    BY <1>10 DEF AcquiredAfterWait
  <2> QED BY <2>1, <2>3, <2>4, IdleType
<1>11. ASSUME NEW h \in Host, AcquiredAtOnce(h) PROVE TypeInv'
  <2>1. Idle(h) /\ UNCHANGED <<locks, waitFlag, lasthostid, net>>
    BY <1>11 DEF AcquiredAtOnce
  <2>2. PICK g \in Garbage : ret' = [ret EXCEPT ![h] = Returned(h, g)]
    BY <1>11 DEF AcquiredAtOnce
  <2>3. ret' \in [Host -> Garbage]
    BY <2>2, GarbageAssumption DEF Returned
  <2>4. myLocks' \in [Host -> [Lock -> {0, 1}]]
    BY <1>11 DEF AcquiredAtOnce
  <2> QED BY <2>1, <2>3, <2>4, IdleType
<1>12. ASSUME NEW h \in Host, FreeSet(h) PROVE TypeInv'
  BY <1>12, LockOpsType DEF FreeSet, Points
<1>13. ASSUME NEW h \in Host, FreeShift(h) PROVE TypeInv'
  BY <1>13, LockOpsType DEF FreeShift, Points, RacePoints
<1>14. ASSUME NEW h \in Host, FreeClear(h) PROVE TypeInv'
  BY <1>14, LockOpsType DEF FreeClear, Points
<1>21. ASSUME NEW h \in Host, FreeStore(h) \/ GraspStore(h) PROVE TypeInv'
  <2> DEFINE Good(lk, q) == /\ lk \in MiLockRecord
                            /\ q \in Stores \cup {"grant"}
                            /\ q \in Picking => pc[h] \in Picking
  <2>a. \E lk, q : StoreAt(h, pc[h], lk, q) /\ Good(lk, q)
    <3>1. CASE FreeStore(h)
      BY <3>1, StoreType DEF FreeStore, StoreAt, Stores
    <3>2. CASE GraspStore(h)
      BY <3>2, StoreType DEF GraspStore, StoreAt, Stores
    <3> QED BY <1>21, <3>1, <3>2
  <2>b. PICK lk, q : StoreAt(h, pc[h], lk, q) /\ Good(lk, q)
    BY <2>a
  <2>1. /\ locks' = [locks EXCEPT ![cur[h]] = lk]
        /\ pc' = [pc EXCEPT ![h] = q]
        /\ UNCHANGED <<myLocks, waitFlag, lasthostid, cur, result, ret, net>>
        /\ lk \in MiLockRecord /\ q \in Points
        /\ q \in Picking => pc[h] \in Picking
    BY <2>b DEF StoreAt, Points, RacePoints, Stores
  <2>2. locks' \in [Lock -> MiLockRecord] /\ pc' \in [Host -> Points]
    BY <2>1
  <2>3. PickedTyped'
    BY <2>1
  <2> QED BY <2>1, <2>2, <2>3
<1>22. ASSUME NEW h \in Host, GraspLast(h) PROVE TypeInv'
  BY <1>22 DEF GraspLast, Points, MiLockRecord
<1>15. ASSUME NEW h \in Host, Grant(h) PROVE TypeInv'
  <2>1. Idle(h) /\ UNCHANGED <<locks, myLocks, waitFlag, lasthostid>>
    BY <1>15 DEF Grant
  <2>2. ret' \in [Host -> Garbage]
    BY <1>15 DEF Grant
  <2>3. net' = grantLock(net, locks[cur[h]], cur[h], result[h])
    BY <1>15 DEF Grant
  <2>4. net' \in [Host -> [Host -> Seq(Message)]]
    BY <2>3, GrantType
  <2> QED BY <2>1, <2>2, <2>4, IdleType
<1>16. ASSUME NEW f \in Host, NEW h \in Host, HandleAcquire(f, h) PROVE TypeInv'
  <2> DEFINE l == Head(net[f][h]).lockno
             lk == graspLock(locks[l], f)
  <2>1. l \in Lock /\ Taken(net, f, h) \in [Host -> [Host -> Seq(Message)]]
    BY <1>16, NetType DEF HandleAcquire, Arrived, Message
  <2>2. lk \in MiLockRecord
    BY <2>1, LockOpsType
  <2>3. grantLock(Taken(net, f, h), lk, l, f) \in [Host -> [Host -> Seq(Message)]]
    BY <2>1, <2>2, GrantType
  <2> QED BY <1>16, <2>1, <2>2, <2>3 DEF HandleAcquire
<1>17. ASSUME NEW f \in Host, NEW h \in Host, HandleRelease(f, h) PROVE TypeInv'
  <2> DEFINE l == Head(net[f][h]).lockno
             lk == freeLock(locks[l], f)
             n == grantLock(Taken(net, f, h), lk, l, FreeResult(locks[l], f))
  <2>1. l \in Lock /\ Taken(net, f, h) \in [Host -> [Host -> Seq(Message)]]
    BY <1>17, NetType DEF HandleRelease, Arrived, Message
  <2>2. lk \in MiLockRecord
    BY <2>1, LockOpsType
  <2>3. n \in [Host -> [Host -> Seq(Message)]]
    BY <2>1, <2>2, GrantType
  <2>4. /\ locks' = [locks EXCEPT ![l] = lk]
        /\ net' = n
        /\ lasthostid' = [lasthostid EXCEPT ![h] = IF FreeResult(locks[l], f) = h THEN f ELSE @]
        /\ waitFlag' = [waitFlag EXCEPT ![h] = IF FreeResult(locks[l], f) = h THEN 0 ELSE @]
        /\ myLocks' = [myLocks EXCEPT ![h][l] = IF FreeResult(locks[l], f) = h THEN 1 ELSE @]
        /\ UNCHANGED <<pc, cur, result, ret>>
    BY <1>17 DEF HandleRelease
  <2> HIDE DEF l, lk, n
  <2>5. locks' \in [Lock -> MiLockRecord] /\ net' \in [Host -> [Host -> Seq(Message)]]
    BY <2>1, <2>2, <2>3, <2>4
  <2>6. lasthostid' \in [Host -> HostOrNone] /\ waitFlag' \in [Host -> {0, 1}]
    BY <2>4
  <2>7. myLocks' \in [Host -> [Lock -> {0, 1}]]
    BY <2>1, <2>4
  <2> QED BY <2>4, <2>5, <2>6, <2>7
<1>18. ASSUME NEW f \in Host, NEW h \in Host, HandleGrant(f, h) PROVE TypeInv'
  BY <1>18, NetType DEF HandleGrant, Arrived, Message
<1>19. CASE BarrierReset
  <2>1. ASSUME NEW lk \in MiLockRecord PROVE [lk EXCEPT !.lasthostid = NoHost] \in MiLockRecord
    BY DEF MiLockRecord
  <2> QED BY <1>19, <2>1 DEF BarrierReset
<1>20. CASE UNCHANGED vars
  BY <1>20 DEF vars
<1> QED
  BY <1>1, <1>2, <1>3, <1>4, <1>5, <1>6, <1>7, <1>8, <1>9, <1>10, <1>11, <1>12, <1>13,
     <1>14, <1>15, <1>16, <1>17, <1>18, <1>19, <1>20, <1>21, <1>22
  DEF Next, Call, Unlock, Main, Dispatch

(* initsyn establishes TypeInv. *)
LEMMA TypeInit == Init => TypeInv
BY Zeros, GarbageAssumption DEF Init, TypeInv, PickedTyped, Picking, TypeOK, FreshLock, MiLockRecord, Points, Message

(* TypeInv holds throughout. *)
LEMMA TypeInvariant == Spec => []TypeInv
BY TypeInit, TypeStep, PTL DEF Spec

(* The type invariant of MiLock: through every interleaving of the SIGIO    *)
(* handler with mi_lock and mi_unlock, also at the racing points.           *)
THEOREM TypeCorrect == Spec => []TypeOK
<1>1. TypeInv => TypeOK
  BY DEF TypeInv
<1> QED BY <1>1, TypeInvariant, PTL

-----------------------------------------------------------------------------
(* Where threads, lists and messages may be: PlaceInv *)

AtManager == {"graspSet", "graspPut", "graspCount", "setWait", "fetchGrasp",
              "freeSet", "freeShift", "freeClear", "grant"}

(* A thread of h at point p, in a call for lock c with result r: graspLock   *)
(* and freeLock run in the thread of the lock's manager only, there only     *)
(* for a program that uses the lock, and freeLock picks only users. No       *)
(* handler tells its stores apart.                                           *)
HostPlaced(h, p, c, r) ==
  /\ p \in AtManager => Manager(c) = h /\ h \in Users[c]
  /\ p = "freeSet" => r = -5
  /\ p \in {"freeShift", "freeClear", "grant"} => r \in Users[c] \cup {-5, -4, -3, NoHost}
  /\ p \notin {"graspOwner", "graspLast", "freeOwner", "freeCount", "freeHand", "freeLast"}

ThreadsPlaced == \A h \in Host : HostPlaced(h, pc[h], cur[h], result[h])

HeldPlaced == \A h \in Host, l \in Lock : myLocks[h][l] = 1 => h \in Users[l]

ListOf(lk, U) == \A i \in Slot : lk.waitingList[i] \in U \cup {NoHost}

ListsPlaced == \A l \in Lock : ListOf(locks[l], Users[l])

(* Requests go from a user to the lock's manager, grants to a user. *)
MsgPlaced(f, t, m) ==
  /\ m.command = "GRANT_LOCK" => t \in Users[m.lockno]
  /\ m.command # "GRANT_LOCK" => t = Manager(m.lockno) /\ f \in Users[m.lockno]

NetPlaced(n) == \A f, t \in Host : \A i \in 1 .. Len(n[f][t]) : MsgPlaced(f, t, n[f][t][i])

PlaceInv == ThreadsPlaced /\ HeldPlaced /\ ListsPlaced /\ NetPlaced(net)

-----------------------------------------------------------------------------
(* Who has the right to a lock: OwnerInv *)

Own(h, l) == locks[l].state = "LOCKED" /\ locks[l].owner = h

(* A message that carries the right to l, and the host it belongs to. *)
Token(m, l) == m.command \in {"GRANT_LOCK", "RLS_LOCK"} /\ m.lockno = l

Bearer(f, t, m) == IF m.command = "GRANT_LOCK" THEN t ELSE f

Carries(n, f, t, i, l) == i \in 1 .. Len(n[f][t]) /\ Token(n[f][t][i], l)

Bears(n, h, l) == \E f, t \in Host : \E i \in Nat : Carries(n, f, t, i, l) /\ Bearer(f, t, n[f][t][i]) = h

AtMostOne(n, l) ==
  \A f1, t1, f2, t2 \in Host : \A i1, i2 \in Nat :
    Carries(n, f1, t1, i1, l) /\ Carries(n, f2, t2, i2, l) => f1 = f2 /\ t1 = t2 /\ i1 = i2

(* The thread of a manager has taken l, has not yet given it back, or has   *)
(* picked the next owner and not yet sent it GRANT_LOCK.                    *)
Busy(h, l) == /\ cur[h] = l
              /\ \/ pc[h] \in {"fetchGrasp", "freeSet", "freeShift", "freeClear"}
                 \/ pc[h] = "grant" /\ result[h] \in Host \ {h}

BusyFor(h) == IF pc[h] = "grant" THEN result[h] ELSE h

OwnerInv(l) ==
  /\ \A h \in Host : myLocks[h][l] = 1 => Own(h, l)
  /\ \A h \in Host : Bears(net, h, l) => Own(h, l)
  /\ \A h \in Host : Busy(h, l) => Own(BusyFor(h), l)
  /\ \A h, g \in Host : ~(myLocks[h][l] = 1 /\ Bears(net, g, l))
  /\ \A h, g \in Host : ~(myLocks[h][l] = 1 /\ Busy(g, l))
  /\ \A h, g \in Host : ~(Bears(net, h, l) /\ Busy(g, l))
  /\ AtMostOne(net, l)
  /\ \A h \in Host : pc[h] = "graspSet" /\ cur[h] = l => locks[l].state = "FREE"

LockInv == TypeInv /\ PlaceInv /\ \A l \in Lock : OwnerInv(l)

-----------------------------------------------------------------------------
(* The operations on a milock_t *)

(* What each part of graspLock and freeLock does to state and owner. *)
LEMMA LockOpsEffect ==
  ASSUME NEW lk \in MiLockRecord, NEW h \in Host, NEW w \in HostOrNone
  PROVE /\ TakeLock(lk, h).state = "LOCKED" /\ TakeLock(lk, h).owner = h
        /\ PutWaiter(lk, h).state = lk.state /\ PutWaiter(lk, h).owner = lk.owner
        /\ CountWaiter(lk).state = lk.state /\ CountWaiter(lk).owner = lk.owner
        /\ SetFree(lk, h).state = "FREE" /\ SetFree(lk, h).owner = NoHost
        /\ ShiftWaiters(lk).state = lk.state /\ ShiftWaiters(lk).owner = lk.owner
        /\ DropWaiter(lk, w, h).state = lk.state /\ DropWaiter(lk, w, h).owner = w
<1>1. TakeLock(lk, h).state = "LOCKED" /\ TakeLock(lk, h).owner = h
  BY DEF TakeLock, MiLockRecord
<1>2. ASSUME NEW wl PROVE [lk EXCEPT !.waitingList = wl].state = lk.state
                          /\ [lk EXCEPT !.waitingList = wl].owner = lk.owner
  BY DEF MiLockRecord
<1>3. PutWaiter(lk, h).state = lk.state /\ PutWaiter(lk, h).owner = lk.owner
  BY <1>2 DEF PutWaiter
<1>4. CountWaiter(lk).state = lk.state /\ CountWaiter(lk).owner = lk.owner
  BY DEF CountWaiter, MiLockRecord
<1>5. SetFree(lk, h).state = "FREE" /\ SetFree(lk, h).owner = NoHost
  BY DEF SetFree, MiLockRecord
<1>6. ShiftWaiters(lk).state = lk.state /\ ShiftWaiters(lk).owner = lk.owner
  BY <1>2 DEF ShiftWaiters
<1>7. ASSUME NEW wl, NEW c
      PROVE LET r == [lk EXCEPT !.waitingList = wl, !.waitingListCount = c, !.owner = w, !.lasthostid = h]
            IN r.state = lk.state /\ r.owner = w
  BY DEF MiLockRecord
<1>8. DropWaiter(lk, w, h).state = lk.state /\ DropWaiter(lk, w, h).owner = w
  BY <1>7 DEF DropWaiter
<1> QED BY <1>1, <1>3, <1>4, <1>5, <1>6, <1>8

(* No part of graspLock and freeLock lists a host that is not a user. *)
LEMMA LockOpsList ==
  ASSUME NEW lk \in MiLockRecord, NEW h \in Host, NEW w \in HostOrNone, NEW U, ListOf(lk, U)
  PROVE /\ ListOf(TakeLock(lk, h), U)
        /\ h \in U => ListOf(PutWaiter(lk, h), U)
        /\ ListOf(CountWaiter(lk), U)
        /\ ListOf(SetFree(lk, h), U)
        /\ ListOf(ShiftWaiters(lk), U)
        /\ ListOf(DropWaiter(lk, w, h), U)
<1>0. lk.waitingList \in [Slot -> HostOrNone]
  BY DEF MiLockRecord
<1>1. TakeLock(lk, h).waitingList = lk.waitingList /\ CountWaiter(lk).waitingList = lk.waitingList
      /\ SetFree(lk, h).waitingList = lk.waitingList
  BY DEF TakeLock, CountWaiter, SetFree, MiLockRecord
<1>2. ASSUME NEW wl PROVE [lk EXCEPT !.waitingList = wl].waitingList = wl
  BY DEF MiLockRecord
<1>3. PutWaiter(lk, h).waitingList = [lk.waitingList EXCEPT ![lk.waitingListCount] = h]
  BY <1>2 DEF PutWaiter
<1>4. ShiftWaiters(lk).waitingList =
        [i \in Slot |-> IF i < lk.waitingListCount - 1 /\ i + 1 \in Slot
                        THEN lk.waitingList[i + 1] ELSE lk.waitingList[i]]
  BY <1>2 DEF ShiftWaiters
<1>5. ASSUME NEW wl, NEW c
      PROVE [lk EXCEPT !.waitingList = wl, !.waitingListCount = c, !.owner = w, !.lasthostid = h].waitingList = wl
  BY DEF MiLockRecord
<1>6. DropWaiter(lk, w, h).waitingList = [lk.waitingList EXCEPT ![lk.waitingListCount - 1] = NoHost]
  BY <1>5 DEF DropWaiter
<1>7. ASSUME NEW g \in [Slot -> HostOrNone], NEW c, NEW v, v \in U \cup {NoHost},
             \A i \in Slot : g[i] \in U \cup {NoHost}
      PROVE \A i \in Slot : [g EXCEPT ![c] = v][i] \in U \cup {NoHost}
  BY <1>7
<1>8. h \in U => ListOf(PutWaiter(lk, h), U)
  BY <1>0, <1>3, <1>7 DEF ListOf
<1>9. ListOf(DropWaiter(lk, w, h), U)
  BY <1>0, <1>6, <1>7 DEF ListOf
<1> QED BY <1>1, <1>4, <1>8, <1>9 DEF ListOf

-----------------------------------------------------------------------------
(* Channels *)

Nets == [Host -> [Host -> Seq(Message)]]

(* The places of a channel after a send. *)
LEMMA AppendAt ==
  ASSUME NEW s \in Seq(Message), NEW m \in Message, NEW i \in Nat, i \in 1 .. Len(Append(s, m))
  PROVE \/ i \in 1 .. Len(s) /\ Append(s, m)[i] = s[i]
        \/ i = Len(s) + 1 /\ Append(s, m)[i] = m
<1>1. Len(Append(s, m)) = Len(s) + 1 /\ Len(s) \in Nat
  OBVIOUS
<1>2. CASE i = Len(s) + 1
  BY <1>2
<1>3. CASE i \in 1 .. Len(s)
  BY <1>3
<1> QED BY <1>1, <1>2, <1>3

(* The places of a channel after a receive. *)
LEMMA TailAt ==
  ASSUME NEW s \in Seq(Message), s # << >>, NEW i \in Nat, i \in 1 .. Len(Tail(s))
  PROVE i + 1 \in 1 .. Len(s) /\ Tail(s)[i] = s[i + 1]
OBVIOUS

(* The message received was the first. *)
LEMMA HeadAt ==
  ASSUME NEW s \in Seq(Message), s # << >>
  PROVE 1 \in 1 .. Len(s) /\ Head(s) = s[1] /\ Head(s) \in Message
OBVIOUS

(* What the channels hold after a send or a receive. *)
LEMMA SentAt ==
  ASSUME NEW n \in Nets, NEW a \in Host, NEW b \in Host, NEW m \in Message, NEW k, k = Sent(n, a, b, m),
         NEW f \in Host, NEW t \in Host, NEW i \in Nat, i \in 1 .. Len(k[f][t])
  PROVE \/ i \in 1 .. Len(n[f][t]) /\ k[f][t][i] = n[f][t][i]
        \/ f = a /\ t = b /\ i = Len(n[a][b]) + 1 /\ k[f][t][i] = m
<1>1. CASE f = a /\ t = b
  <2>1. k[f][t] = Append(n[a][b], m) /\ n[a][b] \in Seq(Message)
    BY <1>1 DEF Sent, Nets
  <2> QED BY <1>1, <2>1, AppendAt
<1>2. CASE ~(f = a /\ t = b)
  <2>1. k[f][t] = n[f][t]
    BY <1>2 DEF Sent, Nets
  <2> QED BY <2>1
<1> QED BY <1>1, <1>2

(* After a receive. *)
LEMMA TakenAt ==
  ASSUME NEW n \in Nets, NEW a \in Host, NEW b \in Host, NEW k, k = Taken(n, a, b), n[a][b] # << >>,
         NEW f \in Host, NEW t \in Host, NEW i \in Nat, i \in 1 .. Len(k[f][t])
  PROVE \/ f = a /\ t = b /\ i + 1 \in 1 .. Len(n[f][t]) /\ k[f][t][i] = n[f][t][i + 1]
        \/ ~(f = a /\ t = b) /\ i \in 1 .. Len(n[f][t]) /\ k[f][t][i] = n[f][t][i]
<1>1. CASE f = a /\ t = b
  <2>1. k[f][t] = Tail(n[a][b]) /\ n[a][b] \in Seq(Message)
    BY <1>1 DEF Taken, Nets
  <2> QED BY <1>1, <2>1, TailAt
<1>2. CASE ~(f = a /\ t = b)
  <2>1. k[f][t] = n[f][t]
    BY <1>2 DEF Taken, Nets
  <2> QED BY <1>2, <2>1
<1> QED BY <1>1, <1>2

(* A send of a well placed message keeps NetPlaced. *)
LEMMA SentPlaced ==
  ASSUME NEW n \in Nets, NEW a \in Host, NEW b \in Host, NEW m \in Message, NEW k, k = Sent(n, a, b, m),
         NetPlaced(n), MsgPlaced(a, b, m)
  PROVE NetPlaced(k)
<1> SUFFICES ASSUME NEW f \in Host, NEW t \in Host, NEW i \in 1 .. Len(k[f][t])
             PROVE MsgPlaced(f, t, k[f][t][i])
  BY DEF NetPlaced
<1>1. i \in Nat
  OBVIOUS
<1>2. \/ i \in 1 .. Len(n[f][t]) /\ k[f][t][i] = n[f][t][i]
      \/ f = a /\ t = b /\ i = Len(n[a][b]) + 1 /\ k[f][t][i] = m
  BY <1>1, SentAt
<1> QED BY <1>2 DEF NetPlaced

(* A receive keeps NetPlaced, and its message is well placed. *)
LEMMA TakenPlaced ==
  ASSUME NEW n \in Nets, NEW a \in Host, NEW b \in Host, NEW k, k = Taken(n, a, b), n[a][b] # << >>,
         NetPlaced(n)
  PROVE NetPlaced(k) /\ MsgPlaced(a, b, Head(n[a][b]))
<1>1. ASSUME NEW f \in Host, NEW t \in Host, NEW i \in 1 .. Len(k[f][t])
      PROVE MsgPlaced(f, t, k[f][t][i])
  <2>1. i \in Nat
    OBVIOUS
  <2>2. \/ f = a /\ t = b /\ i + 1 \in 1 .. Len(n[f][t]) /\ k[f][t][i] = n[f][t][i + 1]
        \/ ~(f = a /\ t = b) /\ i \in 1 .. Len(n[f][t]) /\ k[f][t][i] = n[f][t][i]
    BY <2>1, TakenAt
  <2> QED BY <2>2 DEF NetPlaced
<1>2. n[a][b] \in Seq(Message)
  BY DEF Nets
<1>3. MsgPlaced(a, b, Head(n[a][b]))
  BY <1>2, HeadAt DEF NetPlaced
<1> QED BY <1>1, <1>3 DEF NetPlaced

(* A receive adds no right, and takes one away with the message. *)
LEMMA TakenTokens ==
  ASSUME NEW n \in Nets, NEW a \in Host, NEW b \in Host, NEW k, k = Taken(n, a, b), n[a][b] # << >>,
         NEW l, AtMostOne(n, l)
  PROVE /\ AtMostOne(k, l)
        /\ \A h \in Host : Bears(k, h, l) => Bears(n, h, l)
        /\ Token(Head(n[a][b]), l) => /\ Bears(n, Bearer(a, b, Head(n[a][b])), l)
                                      /\ \A h \in Host : ~Bears(k, h, l)
<1> DEFINE At(f, t, i) == IF f = a /\ t = b THEN i + 1 ELSE i
<1>1. ASSUME NEW f \in Host, NEW t \in Host, NEW i \in Nat, Carries(k, f, t, i, l)
      PROVE Carries(n, f, t, At(f, t, i), l) /\ At(f, t, i) \in Nat /\ k[f][t][i] = n[f][t][At(f, t, i)]
  <2>1. i \in 1 .. Len(k[f][t]) /\ Token(k[f][t][i], l)
    BY <1>1 DEF Carries
  <2>2. \/ f = a /\ t = b /\ i + 1 \in 1 .. Len(n[f][t]) /\ k[f][t][i] = n[f][t][i + 1]
        \/ ~(f = a /\ t = b) /\ i \in 1 .. Len(n[f][t]) /\ k[f][t][i] = n[f][t][i]
    BY <2>1, TakenAt
  <2> QED BY <2>1, <2>2 DEF Carries
<1>2. AtMostOne(k, l)
  <2> SUFFICES ASSUME NEW f1 \in Host, NEW t1 \in Host, NEW f2 \in Host, NEW t2 \in Host,
                      NEW i1 \in Nat, NEW i2 \in Nat,
                      Carries(k, f1, t1, i1, l), Carries(k, f2, t2, i2, l)
               PROVE f1 = f2 /\ t1 = t2 /\ i1 = i2
    BY DEF AtMostOne
  <2> DEFINE j1 == At(f1, t1, i1)
             j2 == At(f2, t2, i2)
  <2>1. Carries(n, f1, t1, j1, l) /\ j1 \in Nat
    BY <1>1
  <2>2. Carries(n, f2, t2, j2, l) /\ j2 \in Nat
    BY <1>1
  <2> HIDE DEF j1, j2
  <2>3. f1 = f2 /\ t1 = t2 /\ j1 = j2
    BY <2>1, <2>2, Zenon DEF AtMostOne
  <2> QED BY <2>3 DEF j1, j2
<1>3. ASSUME NEW h \in Host, Bears(k, h, l) PROVE Bears(n, h, l)
  <2>1. PICK f \in Host, t \in Host, i \in Nat : Carries(k, f, t, i, l) /\ Bearer(f, t, k[f][t][i]) = h
    BY <1>3 DEF Bears
  <2>2. Carries(n, f, t, At(f, t, i), l) /\ At(f, t, i) \in Nat /\ Bearer(f, t, n[f][t][At(f, t, i)]) = h
    BY <2>1, <1>1
  <2> QED BY <2>2 DEF Bears
<1>4. ASSUME Token(Head(n[a][b]), l)
      PROVE Bears(n, Bearer(a, b, Head(n[a][b])), l) /\ \A h \in Host : ~Bears(k, h, l)
  <2>0. n[a][b] \in Seq(Message)
    BY DEF Nets
  <2>1. Carries(n, a, b, 1, l) /\ Head(n[a][b]) = n[a][b][1] /\ 1 \in Nat
    BY <1>4, <2>0, HeadAt DEF Carries
  <2>2. Bears(n, Bearer(a, b, Head(n[a][b])), l)
    BY <2>1 DEF Bears
  <2>3. ASSUME NEW f \in Host, NEW t \in Host, NEW i \in Nat, Carries(k, f, t, i, l) PROVE FALSE
    <3> DEFINE j == At(f, t, i)
    <3>1. Carries(n, f, t, j, l) /\ j \in Nat
      BY <2>3, <1>1
    <3> HIDE DEF j
    <3>2. f = a /\ t = b /\ j = 1
      BY <2>1, <3>1, Zenon DEF AtMostOne
    <3>3. i = 0
      BY <3>2 DEF j
    <3> QED BY <2>3, <3>3 DEF Carries
  <2> QED BY <2>2, <2>3 DEF Bears
<1> QED BY <1>2, <1>3, <1>4

(* A send adds at most the right that the message carries. *)
LEMMA SentTokens ==
  ASSUME NEW n \in Nets, NEW a \in Host, NEW b \in Host, NEW m \in Message, NEW k, k = Sent(n, a, b, m),
         NEW l, AtMostOne(n, l)
  PROVE /\ ~Token(m, l) => AtMostOne(k, l) /\ \A h \in Host : Bears(k, h, l) => Bears(n, h, l)
        /\ (\A h \in Host : ~Bears(n, h, l)) =>
              AtMostOne(k, l) /\ \A h \in Host : Bears(k, h, l) => h = Bearer(a, b, m)
<1>1. ASSUME NEW f \in Host, NEW t \in Host, NEW i \in Nat, Carries(k, f, t, i, l)
      PROVE \/ Carries(n, f, t, i, l) /\ k[f][t][i] = n[f][t][i]
            \/ f = a /\ t = b /\ i = Len(n[a][b]) + 1 /\ k[f][t][i] = m /\ Token(m, l)
  <2>1. i \in 1 .. Len(k[f][t]) /\ Token(k[f][t][i], l)
    BY <1>1 DEF Carries
  <2>2. \/ i \in 1 .. Len(n[f][t]) /\ k[f][t][i] = n[f][t][i]
        \/ f = a /\ t = b /\ i = Len(n[a][b]) + 1 /\ k[f][t][i] = m
    BY <2>1, SentAt
  <2> QED BY <2>1, <2>2 DEF Carries
<1>2. ASSUME ~Token(m, l) PROVE AtMostOne(k, l) /\ \A h \in Host : Bears(k, h, l) => Bears(n, h, l)
  <2>1. \A f, t \in Host : \A i \in Nat :
          Carries(k, f, t, i, l) => Carries(n, f, t, i, l) /\ k[f][t][i] = n[f][t][i]
    BY <1>1, <1>2
  <2>2. AtMostOne(k, l)
    <3> SUFFICES ASSUME NEW f1 \in Host, NEW t1 \in Host, NEW f2 \in Host, NEW t2 \in Host,
                        NEW i1 \in Nat, NEW i2 \in Nat,
                        Carries(k, f1, t1, i1, l), Carries(k, f2, t2, i2, l)
                 PROVE f1 = f2 /\ t1 = t2 /\ i1 = i2
      BY DEF AtMostOne
    <3>1. Carries(n, f1, t1, i1, l) /\ Carries(n, f2, t2, i2, l)
      BY <2>1
    <3> QED BY <3>1, Zenon DEF AtMostOne
  <2>3. \A h \in Host : Bears(k, h, l) => Bears(n, h, l)
    BY <2>1 DEF Bears
  <2> QED BY <2>2, <2>3
<1>3. ASSUME \A h \in Host : ~Bears(n, h, l)
      PROVE AtMostOne(k, l) /\ \A h \in Host : Bears(k, h, l) => h = Bearer(a, b, m)
  <2>1. ASSUME NEW f \in Host, NEW t \in Host, NEW i \in Nat PROVE ~Carries(n, f, t, i, l)
    <3>1. Bearer(f, t, n[f][t][i]) \in Host
      BY DEF Bearer
    <3> QED BY <1>3, <3>1 DEF Bears
  <2>2. \A f, t \in Host : \A i \in Nat :
          Carries(k, f, t, i, l) => f = a /\ t = b /\ i = Len(n[a][b]) + 1 /\ k[f][t][i] = m
    BY <1>1, <2>1
  <2>3. AtMostOne(k, l)
    <3> SUFFICES ASSUME NEW f1 \in Host, NEW t1 \in Host, NEW f2 \in Host, NEW t2 \in Host,
                        NEW i1 \in Nat, NEW i2 \in Nat,
                        Carries(k, f1, t1, i1, l), Carries(k, f2, t2, i2, l)
                 PROVE f1 = f2 /\ t1 = t2 /\ i1 = i2
      BY DEF AtMostOne
    <3> QED BY <2>2
  <2>4. \A h \in Host : Bears(k, h, l) => h = Bearer(a, b, m)
    BY <2>2 DEF Bears
  <2> QED BY <2>3, <2>4
<1> QED BY <1>2, <1>3

-----------------------------------------------------------------------------
(* PlaceInv is inductive *)

(* A step of h's thread leaves the other threads where they are. *)
OnlyAt(h) == \A g \in Host \ {h} : pc'[g] = pc[g] /\ cur'[g] = cur[g] /\ result'[g] = result[g]

(* A step of one thread to a permitted point. *)
LEMMA ThreadsStep ==
  ASSUME ThreadsPlaced, NEW h \in Host, OnlyAt(h), HostPlaced(h, pc'[h], cur'[h], result'[h])
  PROVE ThreadsPlaced'
<1> SUFFICES ASSUME NEW g \in Host PROVE HostPlaced(g, pc'[g], cur'[g], result'[g])
  BY DEF ThreadsPlaced
<1>1. CASE g = h
  BY <1>1
<1>2. CASE g # h
  BY <1>2 DEF OnlyAt, ThreadsPlaced
<1> QED BY <1>1, <1>2

(* A call that returns. *)
LEMMA IdleStep ==
  ASSUME TypeInv, ThreadsPlaced, NEW h \in Host, Idle(h)
  PROVE OnlyAt(h) /\ pc'[h] = "app" /\ ThreadsPlaced'
<1>1. OnlyAt(h) /\ pc'[h] = "app"
  BY DEF Idle, OnlyAt, TypeInv, TypeOK
<1>2. HostPlaced(h, pc'[h], cur'[h], result'[h])
  BY <1>1 DEF HostPlaced, AtManager
<1> QED BY <1>1, <1>2, ThreadsStep

(* One lock changes. *)
LEMMA ListsStep ==
  ASSUME TypeInv, ListsPlaced, NEW l \in Lock, NEW lk, locks' = [locks EXCEPT ![l] = lk], ListOf(lk, Users[l])
  PROVE ListsPlaced'
BY DEF ListsPlaced, TypeInv, TypeOK

(* grantLock to a waiter keeps NetPlaced. *)
LEMMA GrantPlaced ==
  ASSUME NEW n \in Nets, NetPlaced(n), NEW lk \in MiLockRecord, NEW l \in Lock,
         NEW w \in Users[l] \cup {-5, -4, -3, NoHost}
  PROVE NetPlaced(grantLock(n, lk, l, w))
<1> DEFINE m == Msg("GRANT_LOCK", l, lk.lasthostid)
<1>1. m \in Message /\ m.command = "GRANT_LOCK" /\ m.lockno = l
  BY MsgType DEF Msg, MiLockRecord
<1>2. CASE w \in Host \ {Manager(l)}
  <2>1. grantLock(n, lk, l, w) = Sent(n, Manager(l), w, m)
    BY <1>2 DEF grantLock
  <2> HIDE DEF m
  <2>2. MsgPlaced(Manager(l), w, m)
    BY <1>1, <1>2 DEF MsgPlaced, Host, NoHost
  <2> QED BY <1>1, <1>2, <2>1, <2>2, ManagerIsHost, SentPlaced
<1>3. CASE w \notin Host \ {Manager(l)}
  BY <1>3 DEF grantLock
<1> QED BY <1>2, <1>3

(* initsyn establishes PlaceInv. *)
LEMMA PlaceInit == Init => PlaceInv
<1> SUFFICES ASSUME Init PROVE PlaceInv
  OBVIOUS
<1>1. ThreadsPlaced
  BY DEF Init, ThreadsPlaced, HostPlaced, AtManager
<1>2. HeldPlaced
  BY DEF Init, HeldPlaced
<1>3. ListsPlaced
  BY DEF Init, ListsPlaced, ListOf, FreshLock
<1>4. NetPlaced(net)
  BY DEF Init, NetPlaced
<1> QED BY <1>1, <1>2, <1>3, <1>4 DEF PlaceInv

(* The stores of graspLock and freeLock are taken together: SIGIO is masked  *)
(* between them, or no manager's program gets there.                         *)
LEMMA NoStore ==
  ASSUME RaceFree, TypeInv, ThreadsPlaced, NEW h \in Host
  PROVE ~FreeStore(h) /\ ~GraspStore(h) /\ ~GraspLast(h)
<1>1. ~GraspLast(h)
  BY DEF GraspLast, ThreadsPlaced, HostPlaced
<1>2. ASSUME FreeStore(h) \/ GraspStore(h) PROVE FALSE
  <2>1. ~Whole /\ pc[h] \in {"graspSet", "freeSet", "freeClear"} \cup Stores
    BY <1>2 DEF FreeStore, GraspStore, StoreAt, Stores
  <2>2. Manager(cur[h]) = h /\ h \in Users[cur[h]] /\ cur[h] \in Lock
    BY <2>1 DEF ThreadsPlaced, HostPlaced, AtManager, TypeInv, TypeOK, Stores
  <2>3. SigioPoints # {}
    BY <2>1 DEF Whole
  <2> QED BY <2>2, <2>3 DEF RaceFree
<1> QED BY <1>1, <1>2

(* Every step keeps PlaceInv. *)
LEMMA PlaceStep == RaceFree /\ TypeInv /\ PlaceInv /\ [Next]_vars => PlaceInv'
<1> SUFFICES ASSUME RaceFree, TypeInv, PlaceInv, [Next]_vars PROVE PlaceInv'
  OBVIOUS
<1> USE DEF PlaceInv
<1>t. /\ locks \in [Lock -> MiLockRecord] /\ pc \in [Host -> Points] /\ cur \in [Host -> Lock]
      /\ result \in [Host -> HostOrNone \cup {-5, -4, -3, 0}]
      /\ myLocks \in [Host -> [Lock -> {0, 1}]] /\ net \in Nets
  BY DEF TypeInv, TypeOK, Nets
<1>1. ASSUME NEW h \in Host, NEW l \in Lock, LockRemote(h, l) PROVE PlaceInv'
  <2>1. OnlyAt(h) /\ pc'[h] = "lockWait"
    BY <1>1, <1>t DEF LockRemote, OnlyAt
  <2>2. ThreadsPlaced'
    BY <2>1, ThreadsStep DEF HostPlaced, AtManager
  <2>3. Msg("ACQ_LOCK", l, NoHost) \in Message /\ MsgPlaced(h, Manager(l), Msg("ACQ_LOCK", l, NoHost))
    BY <1>1, MsgType, Zeros DEF LockRemote, MayAsk, MsgPlaced, Msg
  <2>4. NetPlaced(net')
    BY <1>1, <1>t, <2>3, SentPlaced, ManagerIsHost DEF LockRemote
  <2>5. HeldPlaced' /\ ListsPlaced'
    BY <1>1 DEF LockRemote, HeldPlaced, ListsPlaced
  <2> QED BY <2>2, <2>4, <2>5
<1>2. ASSUME NEW h \in Host, NEW l \in Lock, LockLocal(h, l) PROVE PlaceInv'
  <2>1. OnlyAt(h) /\ cur'[h] = l /\ Manager(l) = h /\ h \in Users[l]
    BY <1>2, <1>t DEF LockLocal, MayAsk, OnlyAt
  <2>2. pc'[h] \in {"graspSet", "graspPut", "app"}
    BY <1>2, <1>t DEF LockLocal
  <2>3. ThreadsPlaced'
    BY <2>1, <2>2, ThreadsStep DEF HostPlaced
  <2>4. HeldPlaced' /\ ListsPlaced' /\ NetPlaced(net)'
    BY <1>2 DEF LockLocal, HeldPlaced, ListsPlaced
  <2> QED BY <2>3, <2>4
<1>3. ASSUME NEW h \in Host, NEW l \in Lock, UnlockRemote(h, l) PROVE PlaceInv'
  <2>1. ThreadsPlaced' /\ ListsPlaced'
    BY <1>3 DEF UnlockRemote, ThreadsPlaced, ListsPlaced
  <2>2. HeldPlaced'
    BY <1>3, <1>t DEF UnlockRemote, HeldPlaced
  <2>3. Msg("RLS_LOCK", l, NoHost) \in Message /\ MsgPlaced(h, Manager(l), Msg("RLS_LOCK", l, NoHost))
    BY <1>3, MsgType, Zeros DEF UnlockRemote, HeldPlaced, MsgPlaced, Msg
  <2>4. NetPlaced(net')
    BY <1>3, <1>t, <2>3, SentPlaced, ManagerIsHost DEF UnlockRemote
  <2> QED BY <2>1, <2>2, <2>4
<1>4. ASSUME NEW h \in Host, NEW l \in Lock, UnlockLocal(h, l) PROVE PlaceInv'
  <2> DEFINE r == FreeResult(locks[l], h)
  <2>1. OnlyAt(h) /\ cur'[h] = l /\ result'[h] = r /\ Manager(l) = h
    BY <1>4, <1>t DEF UnlockLocal, OnlyAt
  <2>2. h \in Users[l]
    BY <1>4 DEF UnlockLocal, HeldPlaced
  <2>3. r \in Users[l] \cup {-5, -4, -3, NoHost}
    BY Zeros DEF FreeResult, ListsPlaced, ListOf
  <2>4. pc'[h] = IF r \in {-3, -4} THEN "grant" ELSE IF r = -5 THEN "freeSet" ELSE "freeShift"
    BY <1>4, <1>t DEF UnlockLocal
  <2> HIDE DEF r
  <2>5. HostPlaced(h, pc'[h], cur'[h], result'[h])
    BY <2>1, <2>2, <2>3, <2>4 DEF HostPlaced
  <2>6. ThreadsPlaced'
    BY <2>1, <2>5, ThreadsStep
  <2>7. HeldPlaced'
    BY <1>4, <1>t DEF UnlockLocal, HeldPlaced
  <2>8. ListsPlaced' /\ NetPlaced(net)'
    BY <1>4 DEF UnlockLocal, ListsPlaced
  <2> QED BY <2>6, <2>7, <2>8
<1>5. ASSUME NEW h \in Host, GraspSet(h) PROVE PlaceInv'
  <2>1. OnlyAt(h) /\ pc'[h] = "fetchGrasp" /\ cur'[h] = cur[h] /\ pc[h] = "graspSet"
    BY <1>5, <1>t DEF GraspSet, OnlyAt
  <2>2. ThreadsPlaced'
    BY <2>1, ThreadsStep DEF ThreadsPlaced, HostPlaced, AtManager
  <2>3. ListsPlaced'
    BY <1>5, <1>t, ListsStep, LockOpsList, Zeros DEF GraspSet, ListsPlaced
  <2>4. HeldPlaced' /\ NetPlaced(net)'
    BY <1>5 DEF GraspSet, HeldPlaced
  <2> QED BY <2>2, <2>3, <2>4
<1>6. ASSUME NEW h \in Host, GraspPut(h) PROVE PlaceInv'
  <2>1. OnlyAt(h) /\ pc'[h] = "graspCount" /\ cur'[h] = cur[h] /\ pc[h] = "graspPut"
    BY <1>6, <1>t DEF GraspPut, OnlyAt
  <2>2. ThreadsPlaced' /\ h \in Users[cur[h]]
    BY <2>1, ThreadsStep DEF ThreadsPlaced, HostPlaced, AtManager
  <2>3. ListsPlaced'
    BY <1>6, <1>t, <2>2, ListsStep, LockOpsList, Zeros DEF GraspPut, ListsPlaced
  <2>4. HeldPlaced' /\ NetPlaced(net)'
    BY <1>6 DEF GraspPut, HeldPlaced
  <2> QED BY <2>2, <2>3, <2>4
<1>7. ASSUME NEW h \in Host, GraspCount(h) PROVE PlaceInv'
  <2>1. OnlyAt(h) /\ pc'[h] = "setWait" /\ cur'[h] = cur[h] /\ pc[h] = "graspCount"
    BY <1>7, <1>t DEF GraspCount, OnlyAt
  <2>2. ThreadsPlaced'
    BY <2>1, ThreadsStep DEF ThreadsPlaced, HostPlaced, AtManager
  <2>3. ListsPlaced'
    BY <1>7, <1>t, ListsStep, LockOpsList, Zeros DEF GraspCount, ListsPlaced
  <2>4. HeldPlaced' /\ NetPlaced(net)'
    BY <1>7 DEF GraspCount, HeldPlaced
  <2> QED BY <2>2, <2>3, <2>4
<1>8. ASSUME NEW h \in Host, SetWait(h) \/ Wake(h) PROVE PlaceInv'
  <2>1. OnlyAt(h) /\ pc'[h] \in {"lockWait", "fetchWake"}
    BY <1>8, <1>t DEF SetWait, Wake, OnlyAt
  <2>2. ThreadsPlaced'
    BY <2>1, ThreadsStep DEF HostPlaced, AtManager
  <2>3. HeldPlaced' /\ ListsPlaced' /\ NetPlaced(net)'
    BY <1>8 DEF SetWait, Wake, HeldPlaced, ListsPlaced
  <2> QED BY <2>2, <2>3
<1>10. ASSUME NEW h \in Host, AcquiredAfterWait(h) PROVE PlaceInv'
  BY <1>10, IdleStep DEF AcquiredAfterWait, HeldPlaced, ListsPlaced
<1>11. ASSUME NEW h \in Host, AcquiredAtOnce(h) PROVE PlaceInv'
  <2>1. ThreadsPlaced' /\ ListsPlaced' /\ NetPlaced(net)'
    BY <1>11, IdleStep DEF AcquiredAtOnce, ListsPlaced
  <2>2. h \in Users[cur[h]]
    BY <1>11 DEF AcquiredAtOnce, ThreadsPlaced, HostPlaced, AtManager
  <2>3. HeldPlaced'
    BY <1>11, <1>t, <2>2 DEF AcquiredAtOnce, HeldPlaced
  <2> QED BY <2>1, <2>3
<1>12. ASSUME NEW h \in Host, FreeSet(h) PROVE PlaceInv'
  <2>1. OnlyAt(h) /\ pc'[h] = "grant" /\ cur'[h] = cur[h] /\ result'[h] = result[h] /\ pc[h] = "freeSet"
    BY <1>12, <1>t DEF FreeSet, OnlyAt
  <2>2. ThreadsPlaced'
    BY <2>1, ThreadsStep DEF ThreadsPlaced, HostPlaced, AtManager
  <2>3. ListsPlaced'
    BY <1>12, <1>t, ListsStep, LockOpsList, Zeros DEF FreeSet, ListsPlaced
  <2>4. HeldPlaced' /\ NetPlaced(net)'
    BY <1>12 DEF FreeSet, HeldPlaced
  <2> QED BY <2>2, <2>3, <2>4
<1>13. ASSUME NEW h \in Host, FreeShift(h) PROVE PlaceInv'
  <2>1. OnlyAt(h) /\ pc'[h] = "freeClear" /\ cur'[h] = cur[h] /\ result'[h] = result[h] /\ pc[h] = "freeShift"
    BY <1>13, <1>t DEF FreeShift, OnlyAt
  <2>2. ThreadsPlaced'
    BY <2>1, ThreadsStep DEF ThreadsPlaced, HostPlaced, AtManager
  <2>3. ListsPlaced'
    BY <1>13, <1>t, ListsStep, LockOpsList, Zeros DEF FreeShift, ListsPlaced
  <2>4. HeldPlaced' /\ NetPlaced(net)'
    BY <1>13 DEF FreeShift, HeldPlaced
  <2> QED BY <2>2, <2>3, <2>4
<1>14. ASSUME NEW h \in Host, FreeClear(h) PROVE PlaceInv'
  <2>1. OnlyAt(h) /\ pc'[h] = "grant" /\ cur'[h] = cur[h] /\ result'[h] = result[h] /\ pc[h] = "freeClear"
    BY <1>14, <1>t DEF FreeClear, OnlyAt
  <2>2. ThreadsPlaced' /\ result[h] \in HostOrNone
    BY <2>1, ThreadsStep DEF ThreadsPlaced, HostPlaced, AtManager, TypeInv, PickedTyped, Picking
  <2>3. ListsPlaced'
    BY <1>14, <1>t, <2>2, ListsStep, LockOpsList DEF FreeClear, ListsPlaced
  <2>4. HeldPlaced' /\ NetPlaced(net)'
    BY <1>14 DEF FreeClear, HeldPlaced
  <2> QED BY <2>2, <2>3, <2>4
<1>15. ASSUME NEW h \in Host, Grant(h) PROVE PlaceInv'
  <2>1. ThreadsPlaced' /\ HeldPlaced' /\ ListsPlaced'
    BY <1>15, IdleStep DEF Grant, HeldPlaced, ListsPlaced
  <2>2. result[h] \in Users[cur[h]] \cup {-5, -4, -3, NoHost}
    BY <1>15, <1>t DEF Grant, ThreadsPlaced, HostPlaced
  <2>3. net' = grantLock(net, locks[cur[h]], cur[h], result[h])
    BY <1>15 DEF Grant
  <2> QED BY <1>t, <2>1, <2>2, <2>3, GrantPlaced
<1>16. ASSUME NEW f \in Host, NEW h \in Host, HandleAcquire(f, h) PROVE PlaceInv'
  <2> DEFINE c == Head(net[f][h]).lockno
             n == Taken(net, f, h)
             lk == graspLock(locks[c], f)
  <2>1. net[f][h] # << >> /\ Head(net[f][h]).command = "ACQ_LOCK"
    BY <1>16 DEF HandleAcquire, Arrived
  <2>2. n \in Nets /\ Head(net[f][h]) \in Message
    BY <1>t, <2>1, NetType DEF Nets
  <2>3. NetPlaced(n) /\ MsgPlaced(f, h, Head(net[f][h]))
    BY <1>t, <2>1, TakenPlaced
  <2>4. c \in Lock /\ f \in Users[c]
    BY <2>1, <2>2, <2>3 DEF MsgPlaced, Message
  <2>5. /\ locks' = [locks EXCEPT ![c] = lk]
        /\ net' = n \/ net' = grantLock(n, lk, c, f)
        /\ UNCHANGED <<myLocks, pc, cur, result>>
    BY <1>16 DEF HandleAcquire
  <2> HIDE DEF c, n
  <2>6. lk \in MiLockRecord
    <3>1. locks[c] \in MiLockRecord
      BY <1>t, <2>4
    <3> QED BY <3>1, LockOpsType, Zeros
  <2>7. ListOf(lk, Users[c])
    <3>1. locks[c] \in MiLockRecord /\ ListOf(locks[c], Users[c])
      BY <1>t, <2>4 DEF ListsPlaced
    <3>2. PutWaiter(locks[c], f) \in MiLockRecord /\ ListOf(PutWaiter(locks[c], f), Users[c])
      BY <2>4, <3>1, LockOpsType, LockOpsList, Zeros
    <3> QED BY <3>1, <3>2, LockOpsList, Zeros DEF graspLock
  <2> HIDE DEF lk
  <2>8. NetPlaced(net')
    BY <2>2, <2>3, <2>4, <2>5, <2>6, GrantPlaced
  <2>9. ListsPlaced'
    BY <2>4, <2>5, <2>7, ListsStep
  <2> QED BY <2>5, <2>8, <2>9 DEF ThreadsPlaced, HeldPlaced
<1>17. ASSUME NEW f \in Host, NEW h \in Host, HandleRelease(f, h) PROVE PlaceInv'
  <2> DEFINE c == Head(net[f][h]).lockno
             n == Taken(net, f, h)
             r == FreeResult(locks[c], f)
             lk == freeLock(locks[c], f)
  <2>1. net[f][h] # << >> /\ Head(net[f][h]).command = "RLS_LOCK"
    BY <1>17 DEF HandleRelease, Arrived
  <2>2. n \in Nets /\ Head(net[f][h]) \in Message
    BY <1>t, <2>1, NetType DEF Nets
  <2>3. NetPlaced(n)
    BY <1>t, <2>1, TakenPlaced
  <2>4. c \in Lock
    BY <2>2 DEF Message
  <2>5. /\ locks' = [locks EXCEPT ![c] = lk]
        /\ net' = grantLock(n, lk, c, r)
        /\ myLocks' = [myLocks EXCEPT ![h][c] = IF r = h THEN 1 ELSE @]
        /\ UNCHANGED <<pc, cur, result>>
    BY <1>17 DEF HandleRelease
  <2> HIDE DEF c, n
  <2>6. locks[c] \in MiLockRecord /\ ListOf(locks[c], Users[c]) /\ locks[c].waitingList[0] \in HostOrNone
    BY <1>t, <2>4, Zeros DEF ListsPlaced, MiLockRecord
  <2>7. r \in Users[c] \cup {-5, -4, -3, NoHost}
    BY <2>6, Zeros DEF FreeResult, ListOf
  <2>8. lk \in MiLockRecord /\ ListOf(lk, Users[c])
    <3>1. ShiftWaiters(locks[c]) \in MiLockRecord /\ ListOf(ShiftWaiters(locks[c]), Users[c])
      BY <2>6, LockOpsType, LockOpsList, Zeros
    <3>2. SetFree(locks[c], f) \in MiLockRecord /\ ListOf(SetFree(locks[c], f), Users[c])
      BY <2>6, LockOpsType, LockOpsList, Zeros
    <3>3. ASSUME NEW w \in HostOrNone
          PROVE /\ DropWaiter(ShiftWaiters(locks[c]), w, f) \in MiLockRecord
                /\ ListOf(DropWaiter(ShiftWaiters(locks[c]), w, f), Users[c])
      BY <3>1, LockOpsType, LockOpsList
    <3> QED BY <2>6, <3>2, <3>3 DEF freeLock
  <2> HIDE DEF r, lk
  <2>9. NetPlaced(net')
    BY <2>2, <2>3, <2>4, <2>5, <2>7, <2>8, GrantPlaced
  <2>10. ListsPlaced'
    BY <2>4, <2>5, <2>8, ListsStep
  <2>11. HeldPlaced'
    <3>1. r = h => h \in Users[c]
      BY <2>7 DEF Host, NoHost
    <3> QED BY <1>t, <2>4, <2>5, <3>1 DEF HeldPlaced
  <2> QED BY <2>5, <2>9, <2>10, <2>11 DEF ThreadsPlaced
<1>18. ASSUME NEW f \in Host, NEW h \in Host, HandleGrant(f, h) PROVE PlaceInv'
  <2> DEFINE c == Head(net[f][h]).lockno
  <2>1. net[f][h] # << >> /\ Head(net[f][h]).command = "GRANT_LOCK" /\ net' = Taken(net, f, h)
    BY <1>18 DEF HandleGrant, Arrived
  <2>2. NetPlaced(net') /\ MsgPlaced(f, h, Head(net[f][h]))
    BY <1>t, <2>1, TakenPlaced
  <2>3. h \in Users[c] /\ c \in Lock
    BY <1>t, <2>1, <2>2, NetType DEF MsgPlaced, Message, Nets
  <2>4. myLocks' = [myLocks EXCEPT ![h][c] = 1] /\ UNCHANGED <<locks, pc, cur, result>>
    BY <1>18 DEF HandleGrant
  <2> HIDE DEF c
  <2>5. HeldPlaced'
    BY <1>t, <2>3, <2>4 DEF HeldPlaced
  <2> QED BY <2>2, <2>4, <2>5 DEF ThreadsPlaced, ListsPlaced
<1>19. CASE BarrierReset
  <2>1. ASSUME NEW lk \in MiLockRecord PROVE [lk EXCEPT !.lasthostid = NoHost].waitingList = lk.waitingList
    BY DEF MiLockRecord
  <2>2. ListsPlaced'
    BY <1>19, <1>t, <2>1 DEF BarrierReset, ListsPlaced, ListOf
  <2> QED BY <1>19, <2>2 DEF BarrierReset, ThreadsPlaced, HeldPlaced
<1>20. CASE UNCHANGED vars
  BY <1>20 DEF vars, ThreadsPlaced, HeldPlaced, ListsPlaced
<1> QED
  BY <1>1, <1>2, <1>3, <1>4, <1>5, <1>6, <1>7, <1>8, <1>10, <1>11, <1>12, <1>13, <1>14,
     <1>15, <1>16, <1>17, <1>18, <1>19, <1>20, NoStore
  DEF Next, Call, Unlock, Main, Dispatch

-----------------------------------------------------------------------------
(* OwnerInv is inductive where no handler meets a lock half taken *)

(* Only the manager's thread is ever busy with a lock, or about to take it. *)
LEMMA BusyAtManager ==
  ASSUME ThreadsPlaced, NEW g \in Host, Busy(g, cur[g]) \/ pc[g] = "graspSet"
  PROVE g = Manager(cur[g])
BY DEF ThreadsPlaced, HostPlaced, AtManager, Busy

(* The handler does not run while the thread has tested a lock and not yet  *)
(* taken it: SIGIO is masked there, or no manager's thread gets there.      *)
LEMMA NoGraspInterrupted ==
  ASSUME RaceFree, TypeInv, ThreadsPlaced, NEW h \in Host, Interruptible(h)
  PROVE pc[h] # "graspSet"
<1> SUFFICES ASSUME pc[h] = "graspSet" PROVE FALSE
  OBVIOUS
<1>1. Manager(cur[h]) = h /\ h \in Users[cur[h]] /\ cur[h] \in Lock
  BY DEF ThreadsPlaced, HostPlaced, AtManager, TypeInv, TypeOK
<1>2. SigioPoints # {}
  BY DEF Interruptible, RacePoints
<1> QED BY <1>1, <1>2 DEF RaceFree

(* A step that moves no right to l. *)
LEMMA OwnerFrame ==
  ASSUME NEW l \in Lock, OwnerInv(l), locks'[l].state = locks[l].state, locks'[l].owner = locks[l].owner,
         \A g \in Host : myLocks'[g][l] = 1 => myLocks[g][l] = 1,
         \A g \in Host : Bears(net', g, l) => Bears(net, g, l),
         AtMostOne(net', l),
         \A g \in Host : Busy(g, l)' => Busy(g, l) /\ BusyFor(g)' = BusyFor(g),
         \A g \in Host : pc'[g] = "graspSet" /\ cur'[g] = l => locks[l].state = "FREE"
  PROVE OwnerInv(l)'
<1>1. \A g : Own(g, l) => Own(g, l)'
  BY DEF Own
<1>2. (\A h \in Host : myLocks[h][l] = 1 => Own(h, l))'
  BY <1>1 DEF OwnerInv
<1>3. (\A h \in Host : Bears(net, h, l) => Own(h, l))'
  BY <1>1 DEF OwnerInv
<1>4. (\A h \in Host : Busy(h, l) => Own(BusyFor(h), l))'
  <2> SUFFICES ASSUME NEW h \in Host, Busy(h, l)' PROVE Own(BusyFor(h), l)'
    OBVIOUS
  <2>1. Busy(h, l) /\ BusyFor(h)' = BusyFor(h)
    OBVIOUS
  <2>2. Own(BusyFor(h), l)
    BY <2>1 DEF OwnerInv
  <2> QED BY <2>1, <2>2 DEF Own
<1>5. (\A h, g \in Host : ~(myLocks[h][l] = 1 /\ Bears(net, g, l)))'
  BY DEF OwnerInv
<1>6. (\A h, g \in Host : ~(myLocks[h][l] = 1 /\ Busy(g, l)))'
  BY DEF OwnerInv
<1>7. (\A h, g \in Host : ~(Bears(net, h, l) /\ Busy(g, l)))'
  BY DEF OwnerInv
<1>8. (\A h \in Host : pc[h] = "graspSet" /\ cur[h] = l => locks[l].state = "FREE")'
  OBVIOUS
<1> QED BY <1>2, <1>3, <1>4, <1>5, <1>6, <1>7, <1>8 DEF OwnerInv

(* A step of h's thread that moves no right to l and sends no message. *)
LEMMA ThreadFrame ==
  ASSUME NEW l \in Lock, OwnerInv(l), NEW h \in Host, OnlyAt(h), UNCHANGED net,
         locks'[l].state = locks[l].state, locks'[l].owner = locks[l].owner,
         \A g \in Host : myLocks'[g][l] = myLocks[g][l],
         Busy(h, l)' => Busy(h, l) /\ BusyFor(h)' = BusyFor(h),
         pc'[h] = "graspSet" /\ cur'[h] = l => locks[l].state = "FREE"
  PROVE OwnerInv(l)'
<1>1. AtMostOne(net', l) /\ \A g \in Host : Bears(net', g, l) => Bears(net, g, l)
  BY DEF OwnerInv
<1>2. ASSUME NEW g \in Host, Busy(g, l)' PROVE Busy(g, l) /\ BusyFor(g)' = BusyFor(g)
  <2>1. CASE g = h
    BY <1>2, <2>1
  <2>2. CASE g # h
    BY <1>2, <2>2 DEF OnlyAt, Busy, BusyFor
  <2> QED BY <2>1, <2>2
<1>3. ASSUME NEW g \in Host, pc'[g] = "graspSet", cur'[g] = l PROVE locks[l].state = "FREE"
  <2>1. CASE g = h
    BY <1>3, <2>1
  <2>2. CASE g # h
    BY <1>3, <2>2 DEF OnlyAt, OwnerInv
  <2> QED BY <2>1, <2>2
<1> QED BY <1>1, <1>2, <1>3, OwnerFrame

(* The places of the right to l, in the state that a step leads to. *)
NoneHeld(l) == \A h \in Host : myLocks[h][l] # 1

NoneBusy(l) == \A h \in Host : ~Busy(h, l)

NoneBorne(n, l) == \A h \in Host : ~Bears(n, h, l)

NoneTakes(l) == \A h \in Host : ~(pc[h] = "graspSet" /\ cur[h] = l)

(* No place has the right to l: it is FREE, or given to no host. *)
LEMMA InNoPlace ==
  ASSUME NEW l \in Lock, NoneHeld(l)', NoneBusy(l)', NoneBorne(net', l), AtMostOne(net', l),
         NoneTakes(l)' \/ locks'[l].state = "FREE"
  PROVE OwnerInv(l)'
BY DEF OwnerInv, NoneHeld, NoneBusy, NoneBorne, NoneTakes

(* The right is in the myLocks of the owner. *)
LEMMA InHand ==
  ASSUME NEW l \in Lock, NEW o \in Host, Own(o, l)', \A h \in Host : myLocks'[h][l] = 1 => h = o,
         NoneBusy(l)', NoneBorne(net', l), AtMostOne(net', l), NoneTakes(l)'
  PROVE OwnerInv(l)'
BY DEF OwnerInv, NoneBusy, NoneBorne, NoneTakes

(* The right is in a channel. *)
LEMMA InNet ==
  ASSUME NEW l \in Lock, NEW o \in Host, Own(o, l)', \A h \in Host : Bears(net', h, l) => h = o,
         NoneBusy(l)', NoneHeld(l)', AtMostOne(net', l), NoneTakes(l)'
  PROVE OwnerInv(l)'
BY DEF OwnerInv, NoneBusy, NoneHeld, NoneTakes

(* The right is with the manager's thread. *)
LEMMA InThread ==
  ASSUME NEW l \in Lock, NEW h \in Host, Own(BusyFor(h), l)', \A g \in Host : Busy(g, l)' => g = h,
         NoneBorne(net', l), NoneHeld(l)', AtMostOne(net', l), NoneTakes(l)'
  PROVE OwnerInv(l)'
BY DEF OwnerInv, NoneBorne, NoneHeld, NoneTakes

(* Where the right to l is before a step. *)
LEMMA WhereRight ==
  ASSUME NEW l \in Lock, OwnerInv(l), NEW h \in Host
  PROVE /\ AtMostOne(net, l)
        /\ locks[l].state = "FREE" => NoneHeld(l) /\ NoneBusy(l) /\ NoneBorne(net, l)
        /\ locks[l].state # "FREE" => NoneTakes(l)
        /\ myLocks[h][l] = 1 => /\ Own(h, l) /\ NoneBusy(l) /\ NoneBorne(net, l) /\ NoneTakes(l)
                                /\ \A g \in Host : myLocks[g][l] = 1 => g = h
        /\ Bears(net, h, l) => Own(h, l) /\ NoneBusy(l) /\ NoneHeld(l) /\ NoneTakes(l)
        /\ Busy(h, l) => Own(BusyFor(h), l) /\ NoneBorne(net, l) /\ NoneHeld(l) /\ NoneTakes(l)
<1>1. AtMostOne(net, l)
  BY DEF OwnerInv
<1>2. locks[l].state = "FREE" => NoneHeld(l) /\ NoneBusy(l) /\ NoneBorne(net, l)
  BY DEF OwnerInv, Own, NoneHeld, NoneBusy, NoneBorne
<1>3. locks[l].state # "FREE" => NoneTakes(l)
  BY DEF OwnerInv, NoneTakes
<1>4. \A g : Own(g, l) => locks[l].state # "FREE" /\ locks[l].owner = g
  BY DEF Own
<1>5. myLocks[h][l] = 1 => /\ Own(h, l) /\ NoneBusy(l) /\ NoneBorne(net, l)
                           /\ \A g \in Host : myLocks[g][l] = 1 => g = h
  BY <1>4 DEF OwnerInv, NoneBusy, NoneBorne
<1>6. Bears(net, h, l) => Own(h, l) /\ NoneBusy(l) /\ NoneHeld(l)
  BY DEF OwnerInv, NoneBusy, NoneHeld
<1>7. Busy(h, l) => Own(BusyFor(h), l) /\ NoneBorne(net, l) /\ NoneHeld(l)
  BY DEF OwnerInv, NoneBorne, NoneHeld
<1> QED BY <1>1, <1>2, <1>3, <1>4, <1>5, <1>6, <1>7

(* A thread that is at a lock, at a point that only its manager reaches, is *)
(* alone there: the step of h's thread that does not lead to such a point   *)
(* leaves no thread busy with the lock.                                     *)
LEMMA AloneAtLock ==
  ASSUME ThreadsPlaced, NEW h \in Host, NEW l \in Lock, OnlyAt(h), Manager(l) = h
  PROVE /\ \A g \in Host : Busy(g, l)' => g = h
        /\ \A g \in Host : pc'[g] = "graspSet" /\ cur'[g] = l => g = h
<1> SUFFICES ASSUME NEW g \in Host, g # h PROVE ~Busy(g, l)' /\ ~(pc'[g] = "graspSet" /\ cur'[g] = l)
  OBVIOUS
<1>1. pc'[g] = pc[g] /\ cur'[g] = cur[g] /\ result'[g] = result[g]
  BY DEF OnlyAt
<1>2. ~Busy(g, l) /\ ~(pc[g] = "graspSet" /\ cur[g] = l)
  BY BusyAtManager DEF Busy
<1> QED BY <1>1, <1>2 DEF Busy

(* initsyn establishes OwnerInv. *)
LEMMA OwnerInit == Init => \A l \in Lock : OwnerInv(l)
<1> SUFFICES ASSUME Init, NEW l \in Lock PROVE OwnerInv(l)
  OBVIOUS
<1>1. \A f, t \in Host : net[f][t] = << >> /\ Len(net[f][t]) = 0
  BY DEF Init
<1>2. \A f, t \in Host : \A i \in Nat : ~Carries(net, f, t, i, l)
  BY <1>1 DEF Carries
<1>3. AtMostOne(net, l) /\ \A h \in Host : ~Bears(net, h, l)
  BY <1>2 DEF AtMostOne, Bears
<1>4. \A h \in Host : pc[h] = "app" /\ myLocks[h][l] = 0
  BY DEF Init
<1> QED BY <1>3, <1>4 DEF OwnerInv, Busy

(* The calls and steps of a thread. *)
LEMMA OwnerThreadStep ==
  ASSUME RaceFree, TypeInv, PlaceInv, \A l \in Lock : OwnerInv(l), NEW h \in Host,
         Call(h) \/ Unlock(h) \/ Main(h)
  PROVE \A l \in Lock : OwnerInv(l)'
<1> SUFFICES ASSUME NEW l \in Lock PROVE OwnerInv(l)'
  OBVIOUS
<1> USE DEF PlaceInv
<1>t. /\ locks \in [Lock -> MiLockRecord] /\ pc \in [Host -> Points] /\ cur \in [Host -> Lock]
      /\ result \in [Host -> HostOrNone \cup {-5, -4, -3, 0}]
      /\ myLocks \in [Host -> [Lock -> {0, 1}]] /\ net \in Nets
  BY DEF TypeInv, TypeOK, Nets
<1>i. OwnerInv(l) /\ AtMostOne(net, l) /\ cur[h] \in Lock
  BY <1>t DEF OwnerInv
<1>1. ASSUME NEW c \in Lock, LockRemote(h, c) PROVE OwnerInv(l)'
  <2> DEFINE m == Msg("ACQ_LOCK", c, NoHost)
  <2>1. OnlyAt(h) /\ pc'[h] = "lockWait" /\ UNCHANGED <<locks, myLocks>> /\ net' = Sent(net, h, Manager(c), m)
    BY <1>1, <1>t DEF LockRemote, OnlyAt
  <2>2. m \in Message /\ ~Token(m, l)
    BY MsgType, Zeros DEF Token, Msg
  <2> HIDE DEF m
  <2>3. AtMostOne(net', l) /\ \A g \in Host : Bears(net', g, l) => Bears(net, g, l)
    BY <1>t, <1>i, <2>1, <2>2, ManagerIsHost, SentTokens
  <2>4. ASSUME NEW g \in Host
        PROVE /\ Busy(g, l)' => Busy(g, l) /\ BusyFor(g)' = BusyFor(g)
              /\ pc'[g] = "graspSet" /\ cur'[g] = l => locks[l].state = "FREE"
    <3>1. CASE g = h
      BY <2>1, <3>1 DEF Busy
    <3>2. CASE g # h
      BY <1>i, <2>1, <3>2 DEF OnlyAt, Busy, BusyFor, OwnerInv
    <3> QED BY <3>1, <3>2
  <2> QED BY <1>i, <2>1, <2>3, <2>4, OwnerFrame
<1>2. ASSUME NEW c \in Lock, LockLocal(h, c) PROVE OwnerInv(l)'
  <2> DEFINE r == GraspResult(locks[c], h)
  <2>1. OnlyAt(h) /\ cur'[h] = c /\ UNCHANGED <<locks, myLocks, net>>
    BY <1>2, <1>t DEF LockLocal, OnlyAt
  <2>2. pc'[h] = IF r >= -1 THEN "graspSet" ELSE IF r = -3 THEN "graspPut" ELSE "app"
    BY <1>2, <1>t DEF LockLocal
  <2>3. r >= -1 => locks[c].state = "FREE"
    BY DEF GraspResult
  <2> HIDE DEF r
  <2>4. ~Busy(h, l)' /\ (pc'[h] = "graspSet" => locks[c].state = "FREE")
    BY <2>2, <2>3 DEF Busy
  <2> QED BY <1>i, <2>1, <2>4, ThreadFrame
<1>3. ASSUME NEW c \in Lock, UnlockRemote(h, c) PROVE OwnerInv(l)'
  <2> DEFINE m == Msg("RLS_LOCK", c, NoHost)
  <2>1. /\ UNCHANGED <<locks, pc, cur, result>> /\ net' = Sent(net, h, Manager(c), m)
        /\ myLocks' = [myLocks EXCEPT ![h][c] = 0] /\ myLocks[h][c] = 1
    BY <1>3 DEF UnlockRemote
  <2>2. m \in Message /\ Bearer(h, Manager(c), m) = h /\ m.lockno = c
    BY MsgType, Zeros DEF Bearer, Msg
  <2> HIDE DEF m
  <2>3. CASE l # c
    <3>1. ~Token(m, l)
      BY <2>2, <2>3 DEF Token
    <3>2. AtMostOne(net', l) /\ \A g \in Host : Bears(net', g, l) => Bears(net, g, l)
      BY <1>t, <1>i, <2>1, <2>2, <3>1, ManagerIsHost, SentTokens
    <3>3. \A g \in Host : myLocks'[g][l] = myLocks[g][l]
      BY <1>t, <2>1, <2>3
    <3>4. \A g \in Host : /\ Busy(g, l)' => Busy(g, l) /\ BusyFor(g)' = BusyFor(g)
                          /\ pc'[g] = "graspSet" /\ cur'[g] = l => locks[l].state = "FREE"
      BY <1>i, <2>1 DEF Busy, BusyFor, OwnerInv
    <3> QED BY <1>i, <2>1, <3>2, <3>3, <3>4, OwnerFrame
  <2>4. CASE l = c
    <3>1. Own(h, l) /\ NoneBusy(l) /\ NoneBorne(net, l) /\ NoneTakes(l) /\ \A g \in Host : myLocks[g][l] = 1 => g = h
      BY <1>i, <2>1, <2>4, WhereRight
    <3>2. AtMostOne(net', l) /\ \A g \in Host : Bears(net', g, l) => g = h
      BY <1>t, <1>i, <2>1, <2>2, <3>1, ManagerIsHost, SentTokens DEF NoneBorne
    <3>3. NoneHeld(l)'
      BY <1>t, <2>1, <2>4, <3>1 DEF NoneHeld
    <3>4. Own(h, l)' /\ NoneBusy(l)' /\ NoneTakes(l)'
      BY <2>1, <3>1 DEF Own, NoneBusy, NoneTakes, Busy
    <3> QED BY <3>2, <3>3, <3>4, InNet
  <2> QED BY <2>3, <2>4
<1>4. ASSUME NEW c \in Lock, UnlockLocal(h, c) PROVE OwnerInv(l)'
  <2> DEFINE r == FreeResult(locks[c], h)
  <2>1. /\ OnlyAt(h) /\ UNCHANGED <<locks, net>> /\ cur'[h] = c /\ Manager(c) = h
        /\ myLocks' = [myLocks EXCEPT ![h][c] = 0] /\ myLocks[h][c] = 1
    BY <1>4, <1>t DEF UnlockLocal, OnlyAt
  <2>2. pc'[h] = IF r \in {-3, -4} THEN "grant" ELSE IF r = -5 THEN "freeSet" ELSE "freeShift"
    BY <1>4, <1>t DEF UnlockLocal
  <2>3. /\ Own(h, c) /\ NoneBusy(c) /\ NoneBorne(net, c) /\ NoneTakes(c)
        /\ \A g \in Host : myLocks[g][c] = 1 => g = h
    BY <2>1, WhereRight
  <2>4. locks[c].waitingList[0] \in HostOrNone
    BY <1>t, Zeros DEF MiLockRecord
  <2>5. r \notin {-3, -4}
    BY <2>3, <2>4 DEF FreeResult, Own, HostOrNone, Host, NoHost
  <2> HIDE DEF r
  <2>6. pc'[h] \in {"freeSet", "freeShift"}
    BY <2>2, <2>5
  <2>7. CASE l # c
    <3>1. \A g \in Host : myLocks'[g][l] = myLocks[g][l]
      BY <1>t, <2>1, <2>7
    <3>2. ~Busy(h, l)' /\ pc'[h] # "graspSet"
      BY <2>1, <2>6, <2>7 DEF Busy
    <3> QED BY <1>i, <2>1, <3>1, <3>2, ThreadFrame
  <2>8. CASE l = c
    <3>1. NoneHeld(l)'
      BY <1>t, <2>1, <2>3, <2>8 DEF NoneHeld
    <3>2. Own(BusyFor(h), l)'
      BY <2>1, <2>3, <2>6, <2>8 DEF Own, BusyFor
    <3>3. (\A g \in Host : Busy(g, l)' => g = h) /\ NoneTakes(l)'
      BY <2>1, <2>6, <2>8, AloneAtLock DEF NoneTakes
    <3> QED BY <1>i, <2>1, <2>3, <2>8, <3>1, <3>2, <3>3, InThread DEF NoneBorne
  <2> QED BY <2>7, <2>8
<1>5. ASSUME GraspSet(h) PROVE OwnerInv(l)'
  <2> DEFINE c == cur[h]
  <2>1. /\ OnlyAt(h) /\ UNCHANGED <<myLocks, net>> /\ cur'[h] = c
        /\ pc'[h] = "fetchGrasp" /\ pc[h] = "graspSet"
    BY <1>5, <1>t DEF GraspSet, OnlyAt
  <2>2. locks' = [locks EXCEPT ![c] = TakeLock(locks[c], h)]
    BY <1>5 DEF GraspSet
  <2>3. locks[c] \in MiLockRecord /\ locks[c].state = "FREE" /\ Manager(c) = h
    BY <1>t, <1>i, <2>1, BusyAtManager DEF OwnerInv
  <2> HIDE DEF c
  <2>4. CASE l # c
    BY <1>t, <1>i, <2>1, <2>2, <2>4, ThreadFrame DEF Busy
  <2>5. CASE l = c
    <3>1. locks'[l].state = "LOCKED" /\ locks'[l].owner = h
      BY <1>t, <2>2, <2>3, <2>5, LockOpsEffect, Zeros
    <3>2. Own(BusyFor(h), l)'
      BY <2>1, <3>1 DEF Own, BusyFor
    <3>3. (\A g \in Host : Busy(g, l)' => g = h) /\ NoneTakes(l)'
      BY <2>1, <2>3, <2>5, AloneAtLock DEF NoneTakes
    <3>4. NoneHeld(l) /\ NoneBorne(net, l)
      BY <1>i, <2>3, <2>5, WhereRight
    <3>5. NoneHeld(l)' /\ NoneBorne(net', l)
      BY <2>1, <3>4 DEF NoneHeld
    <3> QED BY <1>i, <2>1, <3>2, <3>3, <3>5, InThread
  <2> QED BY <2>4, <2>5
<1>6. ASSUME GraspPut(h) \/ GraspCount(h) \/ FreeShift(h) PROVE OwnerInv(l)'
  <2> DEFINE c == cur[h]
  <2>1. OnlyAt(h) /\ UNCHANGED <<myLocks, net>> /\ cur'[h] = c
    BY <1>6, <1>t DEF GraspPut, GraspCount, FreeShift, OnlyAt
  <2>2. \/ pc'[h] \in {"graspCount", "setWait"}
        \/ pc'[h] = "freeClear" /\ pc[h] = "freeShift"
    BY <1>6, <1>t DEF GraspPut, GraspCount, FreeShift
  <2>3. PICK lk \in {PutWaiter(locks[c], h), CountWaiter(locks[c]), ShiftWaiters(locks[c])} :
           locks' = [locks EXCEPT ![c] = lk]
    BY <1>6 DEF GraspPut, GraspCount, FreeShift
  <2>4. locks[c] \in MiLockRecord
    BY <1>t
  <2>5. lk.state = locks[c].state /\ lk.owner = locks[c].owner
    BY <2>3, <2>4, LockOpsEffect, Zeros
  <2>6. locks'[l].state = locks[l].state /\ locks'[l].owner = locks[l].owner
    BY <1>t, <2>3, <2>5
  <2>7. Busy(h, l)' => Busy(h, l) /\ BusyFor(h)' = BusyFor(h)
    BY <2>1, <2>2 DEF Busy, BusyFor
  <2> QED BY <1>i, <2>1, <2>2, <2>6, <2>7, ThreadFrame
<1>7. ASSUME SetWait(h) \/ Wake(h) PROVE OwnerInv(l)'
  <2>1. OnlyAt(h) /\ pc'[h] \in {"lockWait", "fetchWake"} /\ UNCHANGED <<locks, myLocks, net>>
    BY <1>7, <1>t DEF SetWait, Wake, OnlyAt
  <2> QED BY <1>i, <2>1, ThreadFrame DEF Busy
<1>8. ASSUME AcquiredAfterWait(h) PROVE OwnerInv(l)'
  <2>1. OnlyAt(h) /\ pc'[h] = "app" /\ UNCHANGED <<locks, myLocks, net>>
    BY <1>8, IdleStep DEF AcquiredAfterWait
  <2> QED BY <1>i, <2>1, ThreadFrame DEF Busy
<1>9. ASSUME AcquiredAtOnce(h) PROVE OwnerInv(l)'
  <2> DEFINE c == cur[h]
  <2>1. OnlyAt(h) /\ pc'[h] = "app" /\ UNCHANGED <<locks, net>> /\ pc[h] = "fetchGrasp"
        /\ myLocks' = [myLocks EXCEPT ![h][c] = 1]
    BY <1>9, IdleStep DEF AcquiredAtOnce
  <2>2. Busy(h, c) /\ Manager(c) = h
    BY <2>1, BusyAtManager DEF Busy
  <2> HIDE DEF c
  <2>3. CASE l # c
    <3>1. \A g \in Host : myLocks'[g][l] = myLocks[g][l]
      BY <1>t, <2>1, <2>3
    <3> QED BY <1>i, <2>1, <3>1, ThreadFrame DEF Busy
  <2>4. CASE l = c
    <3>1. Own(BusyFor(h), l) /\ NoneBorne(net, l) /\ NoneHeld(l)
      BY <1>i, <2>2, <2>4, WhereRight
    <3>2. Own(h, l)' /\ NoneBorne(net', l)
      BY <2>1, <3>1 DEF Own, BusyFor
    <3>3. \A g \in Host : myLocks'[g][l] = 1 => g = h
      BY <1>t, <2>1, <2>4, <3>1 DEF NoneHeld
    <3>4. NoneBusy(l)' /\ NoneTakes(l)'
      BY <2>1, <2>2, <2>4, AloneAtLock DEF NoneBusy, NoneTakes, Busy
    <3> QED BY <1>i, <2>1, <3>2, <3>3, <3>4, InHand
  <2> QED BY <2>3, <2>4
<1>10. ASSUME FreeSet(h) PROVE OwnerInv(l)'
  <2> DEFINE c == cur[h]
  <2>1. /\ OnlyAt(h) /\ pc'[h] = "grant" /\ UNCHANGED <<myLocks, net>> /\ pc[h] = "freeSet"
        /\ cur'[h] = c /\ result'[h] = result[h]
    BY <1>10, <1>t DEF FreeSet, OnlyAt
  <2>2. Busy(h, c) /\ Manager(c) = h /\ result[h] = -5 /\ c \in Lock
    BY <1>i, <2>1, BusyAtManager DEF Busy, ThreadsPlaced, HostPlaced
  <2>3. locks' = [locks EXCEPT ![c] = SetFree(locks[c], h)]
    BY <1>10 DEF FreeSet
  <2> HIDE DEF c
  <2>4. ~Busy(h, l)'
    BY <2>1, <2>2 DEF Busy, Host
  <2>5. CASE l # c
    BY <1>t, <1>i, <2>1, <2>3, <2>4, <2>5, ThreadFrame
  <2>6. CASE l = c
    <3>1. NoneBorne(net, l) /\ NoneHeld(l)
      BY <1>i, <2>2, <2>6, WhereRight
    <3>2. NoneBorne(net', l) /\ NoneHeld(l)'
      BY <2>1, <3>1 DEF NoneHeld
    <3>3. NoneBusy(l)' /\ NoneTakes(l)'
      BY <2>1, <2>2, <2>4, <2>6, AloneAtLock DEF NoneBusy, NoneTakes
    <3> QED BY <1>i, <2>1, <3>2, <3>3, InNoPlace
  <2> QED BY <2>5, <2>6
<1>11. ASSUME FreeClear(h) PROVE OwnerInv(l)'
  <2> DEFINE c == cur[h]
  <2>1. /\ OnlyAt(h) /\ pc'[h] = "grant" /\ UNCHANGED <<myLocks, net>> /\ pc[h] = "freeClear"
        /\ cur'[h] = c /\ result'[h] = result[h]
    BY <1>11, <1>t DEF FreeClear, OnlyAt
  <2>2. Busy(h, c) /\ Manager(c) = h /\ c \in Lock /\ result[h] \in HostOrNone
    BY <1>i, <2>1, BusyAtManager DEF Busy, TypeInv, PickedTyped, Picking
  <2>3. locks' = [locks EXCEPT ![c] = DropWaiter(locks[c], result[h], h)]
    BY <1>11 DEF FreeClear
  <2> HIDE DEF c
  <2>5. CASE l # c
    BY <1>t, <1>i, <2>1, <2>3, <2>5, ThreadFrame DEF Busy
  <2>6. CASE l = c
    <3>1. Own(h, l) /\ NoneBorne(net, l) /\ NoneHeld(l)
      BY <1>i, <2>1, <2>2, <2>6, WhereRight DEF BusyFor
    <3>2. NoneBorne(net', l) /\ NoneHeld(l)'
      BY <2>1, <3>1 DEF NoneHeld
    <3>3. (\A g \in Host : Busy(g, l)' => g = h) /\ NoneTakes(l)'
      BY <2>1, <2>2, <2>6, AloneAtLock DEF NoneTakes
    <3>4. locks'[l].state = "LOCKED" /\ locks'[l].owner = result[h]
      BY <1>t, <2>2, <2>3, <2>6, <3>1, LockOpsEffect DEF Own
    <3>5. Own(BusyFor(h), l)'
      BY <2>1, <3>4 DEF Own, BusyFor
    <3> QED BY <1>i, <2>1, <3>2, <3>3, <3>5, InThread
  <2> QED BY <2>5, <2>6
<1>12. ASSUME Grant(h) PROVE OwnerInv(l)'
  <2> DEFINE c == cur[h]
             m == Msg("GRANT_LOCK", c, locks[c].lasthostid)
  <2>0. PICK w : w = result[h]
    OBVIOUS
  <2>1. OnlyAt(h) /\ pc'[h] = "app" /\ UNCHANGED <<locks, myLocks>> /\ pc[h] = "grant"
    BY <1>12, IdleStep DEF Grant
  <2>2. Manager(c) = h /\ c \in Lock
    BY <1>i, <2>1 DEF ThreadsPlaced, HostPlaced, AtManager
  <2>3. net' = IF w \in Host \ {h} THEN Sent(net, h, w, m) ELSE net
    BY <1>12, <2>0, <2>2 DEF Grant, grantLock
  <2>4. m \in Message /\ m.lockno = c /\ m.command = "GRANT_LOCK"
    <3>1. locks[c].lasthostid \in HostOrNone
      BY <1>t DEF MiLockRecord
    <3> QED BY <1>i, <3>1, MsgType DEF Msg
  <2>5. Bearer(h, w, m) = w
    BY <2>4 DEF Bearer
  <2>6. ~Busy(h, l)' /\ pc'[h] # "graspSet"
    BY <2>1 DEF Busy
  <2>7. w \in Host \ {h} => Busy(h, c) /\ BusyFor(h) = w
    BY <2>0, <2>1 DEF Busy, BusyFor
  <2> HIDE DEF c, m
  <2>8. CASE w \notin Host \ {h}
    BY <1>i, <2>1, <2>3, <2>6, <2>8, ThreadFrame
  <2>9. CASE w \in Host \ {h} /\ l # c
    <3>1. ~Token(m, l)
      BY <2>4, <2>9 DEF Token
    <3>2. AtMostOne(net', l) /\ \A g \in Host : Bears(net', g, l) => Bears(net, g, l)
      BY <1>t, <1>i, <2>3, <2>4, <2>9, <3>1, SentTokens
    <3>3. ASSUME NEW g \in Host
          PROVE /\ Busy(g, l)' => Busy(g, l) /\ BusyFor(g)' = BusyFor(g)
                /\ pc'[g] = "graspSet" /\ cur'[g] = l => locks[l].state = "FREE"
      <4>1. CASE g = h
        BY <2>6, <4>1
      <4>2. CASE g # h
        BY <1>i, <2>1, <4>2 DEF OnlyAt, Busy, BusyFor, OwnerInv
      <4> QED BY <4>1, <4>2
    <3> QED BY <1>i, <2>1, <3>2, <3>3, OwnerFrame
  <2>10. CASE w \in Host \ {h} /\ l = c
    <3>1. Own(BusyFor(h), l) /\ NoneBorne(net, l) /\ NoneHeld(l)
      BY <1>i, <2>7, <2>10, WhereRight
    <3>2. Own(w, l)' /\ NoneHeld(l)'
      BY <2>1, <2>7, <2>10, <3>1 DEF Own, NoneHeld
    <3>3. AtMostOne(net', l) /\ \A g \in Host : Bears(net', g, l) => g = w
      BY <1>t, <1>i, <2>3, <2>4, <2>5, <2>10, <3>1, SentTokens DEF NoneBorne
    <3>4. NoneBusy(l)' /\ NoneTakes(l)'
      BY <2>1, <2>2, <2>6, <2>10, AloneAtLock DEF NoneBusy, NoneTakes
    <3> QED BY <2>10, <3>2, <3>3, <3>4, InNet
  <2> QED BY <2>8, <2>9, <2>10
<1> QED BY <1>1, <1>2, <1>3, <1>4, <1>5, <1>6, <1>7, <1>8, <1>9, <1>10, <1>11, <1>12, NoStore DEF Call, Unlock, Main

(* What a grant adds to the channels. *)
LEMMA GrantTokens ==
  ASSUME NEW n \in Nets, NEW lk \in MiLockRecord, NEW c \in Lock, NEW w, NEW l, AtMostOne(n, l),
         NEW k, k = grantLock(n, lk, c, w)
  PROVE /\ l # c \/ w \notin Host \ {Manager(c)} =>
             AtMostOne(k, l) /\ \A g \in Host : Bears(k, g, l) => Bears(n, g, l)
        /\ NoneBorne(n, l) => AtMostOne(k, l) /\ \A g \in Host : Bears(k, g, l) => g = w
<1>1. CASE w \notin Host \ {Manager(c)}
  BY <1>1 DEF grantLock, NoneBorne
<1>2. CASE w \in Host \ {Manager(c)}
  <2> DEFINE m == Msg("GRANT_LOCK", c, lk.lasthostid)
  <2>1. m \in Message /\ m.lockno = c /\ m.command = "GRANT_LOCK"
    <3>1. lk.lasthostid \in HostOrNone
      BY DEF MiLockRecord
    <3> QED BY <3>1, MsgType DEF Msg
  <2>2. k = Sent(n, Manager(c), w, m)
    BY <1>2 DEF grantLock
  <2>3. Bearer(Manager(c), w, m) = w /\ (l # c => ~Token(m, l))
    BY <2>1 DEF Bearer, Token
  <2> HIDE DEF m
  <2> QED BY <1>2, <2>1, <2>2, <2>3, ManagerIsHost, SentTokens DEF NoneBorne
<1> QED BY <1>1, <1>2

(* A handler that moves no right to l. *)
LEMMA HandlerFrame ==
  ASSUME NEW l \in Lock, OwnerInv(l), UNCHANGED <<pc, cur, result>>,
         locks'[l].state = locks[l].state, locks'[l].owner = locks[l].owner,
         \A g \in Host : myLocks'[g][l] = 1 => myLocks[g][l] = 1,
         AtMostOne(net', l), \A g \in Host : Bears(net', g, l) => Bears(net, g, l)
  PROVE OwnerInv(l)'
<1>1. \A g \in Host : Busy(g, l)' => Busy(g, l) /\ BusyFor(g)' = BusyFor(g)
  BY DEF Busy, BusyFor
<1>2. \A g \in Host : pc'[g] = "graspSet" /\ cur'[g] = l => locks[l].state = "FREE"
  BY DEF OwnerInv
<1> QED BY <1>1, <1>2, OwnerFrame

(* handleAcquireMsg: a FREE lock goes to the sender, by GRANT_LOCK. *)
LEMMA OwnerAcquire ==
  ASSUME RaceFree, TypeInv, PlaceInv, \A l \in Lock : OwnerInv(l),
         NEW f \in Host, NEW h \in Host, HandleAcquire(f, h)
  PROVE \A l \in Lock : OwnerInv(l)'
<1> SUFFICES ASSUME NEW l \in Lock PROVE OwnerInv(l)'
  OBVIOUS
<1> USE DEF PlaceInv
<1>t. locks \in [Lock -> MiLockRecord] /\ net \in Nets
  BY DEF TypeInv, TypeOK, Nets
<1>i. OwnerInv(l) /\ AtMostOne(net, l)
  BY DEF OwnerInv
<1>1. net[f][h] # << >> /\ Head(net[f][h]).command = "ACQ_LOCK" /\ pc[h] # "graspSet"
  BY NoGraspInterrupted DEF HandleAcquire, Arrived
<1>2. PICK c : c = Head(net[f][h]).lockno
  OBVIOUS
<1>3. PICK n : n = Taken(net, f, h)
  OBVIOUS
<1>4. n \in Nets /\ Head(net[f][h]) \in Message /\ c \in Lock
  BY <1>t, <1>1, <1>2, <1>3, NetType DEF Nets, Message
<1>5. h = Manager(c)
  BY <1>t, <1>1, <1>2, <1>3, TakenPlaced DEF MsgPlaced
<1>6. AtMostOne(n, l) /\ \A g \in Host : Bears(n, g, l) => Bears(net, g, l)
  BY <1>t, <1>i, <1>1, <1>3, TakenTokens
<1>7. PICK lk : lk = graspLock(locks[c], f)
  OBVIOUS
<1>8. /\ locks' = [locks EXCEPT ![c] = lk]
      /\ net' = IF GraspResult(locks[c], f) >= -1 THEN grantLock(n, lk, c, f) ELSE n
      /\ UNCHANGED <<myLocks, pc, cur, result>>
  BY <1>2, <1>3, <1>7 DEF HandleAcquire
<1>9. locks[c] \in MiLockRecord
  BY <1>t, <1>4
<1>10. lk \in MiLockRecord
  BY <1>7, <1>9, LockOpsType, Zeros
<1>11. CASE l # c
  <2>1. AtMostOne(net', l) /\ \A g \in Host : Bears(net', g, l) => Bears(net, g, l)
    BY <1>4, <1>6, <1>8, <1>10, <1>11, GrantTokens
  <2>2. locks'[l] = locks[l]
    BY <1>t, <1>8, <1>11
  <2> QED BY <1>i, <1>8, <2>1, <2>2, HandlerFrame
<1>12. CASE l = c /\ locks[c].state # "FREE"
  <2>1. net' = n
    BY <1>8, <1>9, <1>12 DEF GraspResult
  <2>2. PutWaiter(locks[c], f) \in MiLockRecord
    BY <1>9, LockOpsType, Zeros
  <2>3. lk.state = locks[c].state /\ lk.owner = locks[c].owner
    BY <1>7, <1>9, <1>12, <2>2, LockOpsEffect, Zeros DEF graspLock
  <2>4. locks'[l].state = locks[l].state /\ locks'[l].owner = locks[l].owner
    BY <1>t, <1>8, <1>12, <2>3
  <2> QED BY <1>i, <1>6, <1>8, <2>1, <2>4, HandlerFrame
<1>13. CASE l = c /\ locks[c].state = "FREE"
  <2>1. NoneHeld(l) /\ NoneBusy(l) /\ NoneBorne(net, l)
    BY <1>i, <1>13, WhereRight
  <2>2. NoneTakes(l)
    BY <1>1, <1>5, <1>13, BusyAtManager DEF NoneTakes
  <2>3. NoneHeld(l)' /\ NoneBusy(l)' /\ NoneTakes(l)'
    BY <1>8, <2>1, <2>2 DEF NoneHeld, NoneBusy, NoneTakes, Busy
  <2>4. NoneBorne(n, l)
    BY <1>6, <2>1 DEF NoneBorne
  <2>5. locks[c].lasthostid >= -1
    BY <1>9 DEF MiLockRecord, HostOrNone, Host, NoHost
  <2>6. net' = grantLock(n, lk, c, f)
    BY <1>8, <1>13, <2>5 DEF GraspResult
  <2>7. AtMostOne(net', l) /\ \A g \in Host : Bears(net', g, l) => g = f
    BY <1>4, <1>6, <1>10, <2>4, <2>6, GrantTokens
  <2>8. lk.state = "LOCKED" /\ lk.owner = f
    BY <1>7, <1>9, <1>13, LockOpsEffect, Zeros DEF graspLock
  <2>9. Own(f, l)'
    BY <1>t, <1>4, <1>8, <1>13, <2>8 DEF Own
  <2> QED BY <2>3, <2>7, <2>9, InNet
<1> QED BY <1>11, <1>12, <1>13

(* handleReleaseMsg: the right that came with RLS_LOCK goes to the waiter. *)
LEMMA OwnerRelease ==
  ASSUME TypeInv, PlaceInv, \A l \in Lock : OwnerInv(l),
         NEW f \in Host, NEW h \in Host, HandleRelease(f, h)
  PROVE \A l \in Lock : OwnerInv(l)'
<1> SUFFICES ASSUME NEW l \in Lock PROVE OwnerInv(l)'
  OBVIOUS
<1> USE DEF PlaceInv
<1>t. locks \in [Lock -> MiLockRecord] /\ net \in Nets /\ myLocks \in [Host -> [Lock -> {0, 1}]]
  BY DEF TypeInv, TypeOK, Nets
<1>i. OwnerInv(l) /\ AtMostOne(net, l)
  BY DEF OwnerInv
<1>1. net[f][h] # << >> /\ Head(net[f][h]).command = "RLS_LOCK"
  BY DEF HandleRelease, Arrived
<1>2. PICK c : c = Head(net[f][h]).lockno
  OBVIOUS
<1>3. PICK n : n = Taken(net, f, h)
  OBVIOUS
<1>4. n \in Nets /\ Head(net[f][h]) \in Message /\ c \in Lock
  BY <1>t, <1>1, <1>2, <1>3, NetType DEF Nets, Message
<1>5. h = Manager(c)
  BY <1>t, <1>1, <1>2, <1>3, TakenPlaced DEF MsgPlaced
<1>6. AtMostOne(n, l) /\ \A g \in Host : Bears(n, g, l) => Bears(net, g, l)
  BY <1>t, <1>i, <1>1, <1>3, TakenTokens
<1>7. PICK lk : lk = freeLock(locks[c], f)
  OBVIOUS
<1>8. PICK r : r = FreeResult(locks[c], f)
  OBVIOUS
<1>9. /\ locks' = [locks EXCEPT ![c] = lk]
      /\ net' = grantLock(n, lk, c, r)
      /\ myLocks' = [myLocks EXCEPT ![h][c] = IF r = h THEN 1 ELSE @]
      /\ UNCHANGED <<pc, cur, result>>
  BY <1>2, <1>3, <1>7, <1>8 DEF HandleRelease
<1>10. locks[c] \in MiLockRecord
  BY <1>t, <1>4
<1>11. lk \in MiLockRecord
  BY <1>7, <1>10, LockOpsType, Zeros
<1>12. CASE l # c
  <2>1. AtMostOne(net', l) /\ \A g \in Host : Bears(net', g, l) => Bears(net, g, l)
    BY <1>4, <1>6, <1>9, <1>11, <1>12, GrantTokens
  <2>2. locks'[l] = locks[l]
    BY <1>t, <1>9, <1>12
  <2>3. \A g \in Host : myLocks'[g][l] = myLocks[g][l]
    BY <1>t, <1>9, <1>12
  <2> QED BY <1>i, <1>9, <2>1, <2>2, <2>3, HandlerFrame
<1>13. CASE l = c
  <2>1. Token(Head(net[f][h]), l) /\ Bearer(f, h, Head(net[f][h])) = f
    BY <1>1, <1>2, <1>13 DEF Token, Bearer
  <2>2. Bears(net, f, l) /\ NoneBorne(n, l)
    BY <1>t, <1>i, <1>1, <1>3, <2>1, TakenTokens DEF NoneBorne
  <2>3. Own(f, l) /\ NoneBusy(l) /\ NoneHeld(l) /\ NoneTakes(l)
    BY <1>i, <2>2, WhereRight
  <2>4. NoneBusy(l)' /\ NoneTakes(l)'
    BY <1>9, <2>3 DEF NoneBusy, NoneTakes, Busy
  <2>5. AtMostOne(net', l) /\ \A g \in Host : Bears(net', g, l) => g = r
    BY <1>4, <1>6, <1>9, <1>11, <2>2, GrantTokens
  <2>6. \A g \in Host : myLocks'[g][l] = 1 => g = r /\ g = h
    BY <1>t, <1>9, <1>13, <2>3 DEF NoneHeld
  <2>7. r = h => NoneBorne(net', l)
    <3>1. ASSUME r = h PROVE net' = n
      BY <1>5, <1>9, <3>1 DEF grantLock
    <3> QED BY <2>2, <3>1
  <2>8. \/ r = -5
        \/ r \in HostOrNone /\ lk.state = "LOCKED" /\ lk.owner = r
    <3>1. locks[c].state = "LOCKED" /\ locks[c].owner = f
      BY <1>13, <2>3 DEF Own
    <3>2. locks[c].waitingList[0] \in HostOrNone
      BY <1>10, Zeros DEF MiLockRecord
    <3>3. ShiftWaiters(locks[c]) \in MiLockRecord /\ ShiftWaiters(locks[c]).state = "LOCKED"
      BY <1>10, <3>1, LockOpsType, LockOpsEffect, Zeros
    <3>4. DropWaiter(ShiftWaiters(locks[c]), locks[c].waitingList[0], f).state = "LOCKED"
          /\ DropWaiter(ShiftWaiters(locks[c]), locks[c].waitingList[0], f).owner = locks[c].waitingList[0]
      BY <3>2, <3>3, LockOpsEffect
    <3> QED BY <1>7, <1>8, <3>1, <3>2, <3>4 DEF FreeResult, freeLock
  <2>9. CASE r \notin Host
    <3>1. NoneHeld(l)' /\ NoneBorne(net', l)
      BY <2>5, <2>6, <2>9 DEF NoneHeld, NoneBorne
    <3> QED BY <2>4, <2>5, <3>1, InNoPlace
  <2>10. CASE r \in Host
    <3>1. lk.state = "LOCKED" /\ lk.owner = r
      BY <2>8, <2>10 DEF Host
    <3>2. Own(r, l)'
      BY <1>t, <1>4, <1>9, <1>13, <3>1 DEF Own
    <3>3. CASE r = h
      BY <2>4, <2>5, <2>6, <2>7, <2>10, <3>2, <3>3, InHand
    <3>4. CASE r # h
      <4>1. NoneHeld(l)'
        BY <2>6, <3>4 DEF NoneHeld
      <4> QED BY <2>4, <2>5, <2>10, <3>2, <4>1, InNet
    <3> QED BY <3>3, <3>4
  <2> QED BY <2>9, <2>10
<1> QED BY <1>12, <1>13

(* handleGrantMsg: the right goes from the message to myLocks. *)
LEMMA OwnerGrant ==
  ASSUME TypeInv, PlaceInv, \A l \in Lock : OwnerInv(l),
         NEW f \in Host, NEW h \in Host, HandleGrant(f, h)
  PROVE \A l \in Lock : OwnerInv(l)'
<1> SUFFICES ASSUME NEW l \in Lock PROVE OwnerInv(l)'
  OBVIOUS
<1>t. net \in Nets /\ myLocks \in [Host -> [Lock -> {0, 1}]]
  BY DEF TypeInv, TypeOK, Nets
<1>i. OwnerInv(l) /\ AtMostOne(net, l)
  BY DEF OwnerInv
<1>1. net[f][h] # << >> /\ Head(net[f][h]).command = "GRANT_LOCK" /\ net' = Taken(net, f, h)
  BY DEF HandleGrant, Arrived
<1>2. PICK c : c = Head(net[f][h]).lockno
  OBVIOUS
<1>3. myLocks' = [myLocks EXCEPT ![h][c] = 1] /\ UNCHANGED <<locks, pc, cur, result>>
  BY <1>2 DEF HandleGrant
<1>4. AtMostOne(net', l) /\ \A g \in Host : Bears(net', g, l) => Bears(net, g, l)
  BY <1>t, <1>i, <1>1, TakenTokens
<1>5. CASE l # c
  <2>1. \A g \in Host : myLocks'[g][l] = myLocks[g][l]
    BY <1>t, <1>3, <1>5
  <2> QED BY <1>i, <1>3, <1>4, <2>1, HandlerFrame
<1>6. CASE l = c
  <2>1. Token(Head(net[f][h]), l) /\ Bearer(f, h, Head(net[f][h])) = h
    BY <1>1, <1>2, <1>6 DEF Token, Bearer
  <2>2. Bears(net, h, l) /\ NoneBorne(net', l)
    BY <1>t, <1>i, <1>1, <2>1, TakenTokens DEF NoneBorne
  <2>3. Own(h, l) /\ NoneBusy(l) /\ NoneHeld(l) /\ NoneTakes(l)
    BY <1>i, <2>2, WhereRight
  <2>4. Own(h, l)' /\ NoneBusy(l)' /\ NoneTakes(l)'
    BY <1>3, <2>3 DEF Own, NoneBusy, NoneTakes, Busy
  <2>5. \A g \in Host : myLocks'[g][l] = 1 => g = h
    BY <1>t, <1>3, <1>6, <2>3 DEF NoneHeld
  <2> QED BY <1>4, <2>2, <2>4, <2>5, InHand
<1> QED BY <1>5, <1>6

(* Every step keeps OwnerInv. *)
LEMMA OwnerStep ==
  ASSUME RaceFree, TypeInv, PlaceInv, \A l \in Lock : OwnerInv(l), [Next]_vars
  PROVE \A l \in Lock : OwnerInv(l)'
<1>1. ASSUME NEW h \in Host, Call(h) \/ Unlock(h) \/ Main(h) PROVE \A l \in Lock : OwnerInv(l)'
  BY <1>1, OwnerThreadStep
<1>2. ASSUME NEW f \in Host, NEW h \in Host, Dispatch(f, h) PROVE \A l \in Lock : OwnerInv(l)'
  BY <1>2, OwnerAcquire, OwnerRelease, OwnerGrant DEF Dispatch
<1>3. CASE BarrierReset \/ UNCHANGED vars
  <2> SUFFICES ASSUME NEW l \in Lock PROVE OwnerInv(l)'
    OBVIOUS
  <2>1. UNCHANGED <<myLocks, pc, cur, result, net>>
    BY <1>3 DEF BarrierReset, vars
  <2>2. ASSUME NEW lk \in MiLockRecord
        PROVE [lk EXCEPT !.lasthostid = NoHost].state = lk.state /\ [lk EXCEPT !.lasthostid = NoHost].owner = lk.owner
    BY DEF MiLockRecord
  <2>3. locks'[l].state = locks[l].state /\ locks'[l].owner = locks[l].owner
    BY ZenonT(60), <1>3, <2>2 DEF BarrierReset, vars, TypeInv, TypeOK
  <2>4. AtMostOne(net', l)
    BY <2>1 DEF OwnerInv
  <2> QED BY <2>1, <2>3, <2>4, HandlerFrame
<1> QED BY <1>1, <1>2, <1>3 DEF Next

-----------------------------------------------------------------------------
(* The theorems *)

(* LockInv holds throughout: the right to a lock is in one place at most,   *)
(* and always with the host that the manager records as the owner.          *)
LEMMA LockInvariant == ASSUME RaceFree PROVE Spec => []LockInv
<1>1. Init => LockInv
  BY TypeInit, PlaceInit, OwnerInit DEF LockInv
<1>2. LockInv /\ [Next]_vars => LockInv'
  BY TypeStep, PlaceStep, OwnerStep DEF LockInv
<1> QED BY <1>1, <1>2, PTL DEF Spec

(* Two hosts are never inside the same lock (mi_lock, mi_unlock and the     *)
(* handlers of syn.c), for any number of hosts and locks, wherever the      *)
(* handler cannot meet a lock half updated.                                 *)
THEOREM Exclusion == ASSUME RaceFree PROVE Spec => []MutualExclusion
<1>1. LockInv => MutualExclusion
  <2> SUFFICES ASSUME LockInv, NEW l \in Lock, NEW h1 \in Host, NEW h2 \in Host, Held(h1, l), Held(h2, l)
               PROVE h1 = h2
    BY DEF MutualExclusion
  <2>1. Own(h1, l) /\ Own(h2, l)
    BY DEF LockInv, OwnerInv, Held
  <2> QED BY <2>1 DEF Own
<1> QED BY <1>1, LockInvariant, PTL

(* A GRANT_LOCK on its way means what grantLock's comment says: until it is *)
(* handled, the manager records the host it goes to as the lock's owner.    *)
THEOREM GrantsOwned == ASSUME RaceFree PROVE Spec => []GrantMeansOwner
<1>1. LockInv => GrantMeansOwner
  <2> SUFFICES ASSUME LockInv, NEW l \in Lock, NEW h \in Host, InFlight(Manager(l), h, "GRANT_LOCK", l) # {}
               PROVE locks[l].owner = h
    BY DEF GrantMeansOwner
  <2> DEFINE s == net[Manager(l)][h]
  <2>1. s \in Seq(Message) /\ Manager(l) \in Host
    BY ManagerIsHost DEF LockInv, TypeInv, TypeOK
  <2>2. PICK i \in DOMAIN s : s[i].command = "GRANT_LOCK" /\ s[i].lockno = l
    BY DEF InFlight
  <2>3. i \in 1 .. Len(s) /\ i \in Nat
    BY <2>1, <2>2
  <2>4. Carries(net, Manager(l), h, i, l) /\ Bearer(Manager(l), h, s[i]) = h
    BY <2>2, <2>3 DEF Carries, Token, Bearer
  <2>5. Bears(net, h, l)
    BY <2>1, <2>3, <2>4 DEF Bears
  <2> QED BY <2>5 DEF LockInv, OwnerInv, Own
<1> QED BY <1>1, LockInvariant, PTL
=============================================================================
