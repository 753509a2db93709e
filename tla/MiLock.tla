------------------------------- MODULE MiLock -------------------------------
(***************************************************************************)
(* The lock half of syn.c.  Lock l is managed by host l % hostnum: other   *)
(* hosts send it ACQ_LOCK and RLS_LOCK and wait for GRANT_LOCK, and the    *)
(* manager's own program calls graspLock and freeLock directly.            *)
(*                                                                         *)
(* A host is one process: the program's thread (mi_lock, mi_unlock) and    *)
(* the SIGIO handler, which interrupts it, handles a message to the end    *)
(* and returns.  Nothing in syn.c masks SIGIO, so the handler may run      *)
(* between any two statements of graspLock and freeLock.  pc[h] is the     *)
(* statement the program's thread of h has reached; only the points at     *)
(* which an interruption can be told apart are kept.                       *)
(*                                                                         *)
(* Messages are taken from net.c at the level sendMsg offers: each one     *)
(* reaches its receiver once and in order from each sender.                *)
(***************************************************************************)
EXTENDS Integers, Sequences, FiniteSets

CONSTANTS
  hostnum,      \* number of hosts
  LOCK_NUM,     \* number of locks
  MAX_HOST_NUM, \* length of a waitingList
  Users,        \* Users[l]: the hosts whose program takes lock l
  SigioPoints,  \* the points inside graspLock/freeLock/mi_lock where SIGIO is open
  Garbage       \* what an uninitialised int may hold

Host == 0 .. (hostnum - 1)
Lock == 0 .. (LOCK_NUM - 1)
Slot == 0 .. (MAX_HOST_NUM - 1)
NoHost == -1
HostOrNone == Host \cup {NoHost}

(* The host that keeps locks[l] (syn.c uses lockno % hostnum everywhere). *)
Manager(l) == l % hostnum

(* Points of the program's thread between two accesses to a lock's state.  *)
(* In syn.c SIGIO is open at all of them: SigioPoints = RacePoints.  With  *)
(* SigioPoints = {} the module describes the same code with the signal     *)
(* masked there, as addNewInterval in mem.c does with its own updates.     *)
(* Stores are the points between two stores of graspLock, or of freeLock,   *)
(* to the same lock.                                                        *)
Stores == {"graspOwner", "graspLast", "freeOwner", "freeCount", "freeHand", "freeLast"}

RacePoints == {"graspSet", "graspPut", "graspCount", "setWait",
               "freeSet", "freeShift", "freeClear"} \cup Stores

Points == RacePoints \cup {"app", "lockWait", "fetchGrasp", "fetchWake", "grant"}

ASSUME HostNumAssumption == hostnum \in Nat \ {0}
ASSUME LockNumAssumption == LOCK_NUM \in Nat \ {0}
ASSUME MaxHostAssumption == MAX_HOST_NUM \in Nat /\ hostnum <= MAX_HOST_NUM
ASSUME UsersAssumption == Users \in [Lock -> SUBSET Host]
ASSUME SigioAssumption == SigioPoints \subseteq RacePoints
ASSUME GarbageAssumption == Garbage \subseteq Int /\ 0 \in Garbage

VARIABLES
  locks,      \* locks[l]: the milock_t of lock l, at its manager
  myLocks,    \* myLocks[h][l] = 1: host h believes it has lock l
  waitFlag,   \* waitFlag[h]: the flag the program's thread spins on
  lasthostid, \* lasthostid[h]: the last releaser named by the latest grant
  pc,         \* the statement the program's thread of h has reached
  cur,        \* cur[h]: the lockno of the call in progress
  result,     \* result[h]: the inner local "result" of mi_lock and mi_unlock
  ret,        \* ret[h]: what the latest mi_lock or mi_unlock returned
  net         \* net[f][t]: messages from f to t not yet handled

(* SIGIO is masked between these stores: no one sees them apart.            *)
Whole == SigioPoints \cap Stores = {}

vars == <<locks, myLocks, waitFlag, lasthostid, pc, cur, result, ret, net>>

-----------------------------------------------------------------------------
(* Messages *)

Msg(command, lockno, last) ==
  [command |-> command, lockno |-> lockno, lasthostid |-> last]

Message == [command : {"ACQ_LOCK", "RLS_LOCK", "GRANT_LOCK"},
            lockno : Lock, lasthostid : HostOrNone]

Sent(n, f, t, m) == [n EXCEPT ![f][t] = Append(@, m)]

Taken(n, f, t) == [n EXCEPT ![f][t] = Tail(@)]

-----------------------------------------------------------------------------
(* graspLock and freeLock on one milock_t, split at the points where SIGIO  *)
(* can come in between, and as a whole for the handler.                     *)

(* Mutant: a lock that is taken is given out again. *)
GraspResultBusy(lk, h) == IF lk.state = "LOCKED" /\ lk.owner = h THEN -4 ELSE lk.lasthostid

(* graspLock's return value: the last releaser (or -1), -3 busy, -4 owned.  *)
GraspResult(lk, h) == IF lk.state = "FREE" THEN lk.lasthostid
                      ELSE IF lk.owner = h THEN -4 ELSE -3

TakeLock(lk, h) == [lk EXCEPT !.state = "LOCKED", !.owner = h]

PutWaiter(lk, h) ==
  [lk EXCEPT !.waitingList = [lk.waitingList EXCEPT ![lk.waitingListCount] = h]]

CountWaiter(lk) == [lk EXCEPT !.waitingListCount = lk.waitingListCount + 1]

graspLock(lk, h) ==
  IF lk.state = "FREE" THEN TakeLock(lk, h)
  ELSE IF lk.owner = h THEN lk ELSE CountWaiter(PutWaiter(lk, h))

(* freeLock's return value: the next owner, -3 free, -4 not the owner,      *)
(* -5 no one waits.                                                         *)
FreeResult(lk, h) == IF lk.state = "FREE" THEN -3
                     ELSE IF lk.owner # h THEN -4
                     ELSE IF lk.waitingListCount = 0 THEN -5
                     ELSE lk.waitingList[0]

(* Mutant: the last releaser is not recorded. *)
SetFreeOldLast(lk, h) == [lk EXCEPT !.state = "FREE", !.owner = NoHost]

SetFree(lk, h) == [lk EXCEPT !.state = "FREE", !.owner = NoHost, !.lasthostid = h]

(* Mutant: the list is not shifted. *)
ShiftNothing(lk) == lk

(* The places of the array only: WaitingListIsQueue shows that the count    *)
(* never leads past its end.                                                *)
ShiftWaiters(lk) ==
  [lk EXCEPT !.waitingList =
     [i \in Slot |-> IF i < lk.waitingListCount - 1 /\ i + 1 \in Slot
                     THEN lk.waitingList[i + 1] ELSE lk.waitingList[i]]]

(* Mutant: the last place is not cleared. *)
DropWaiterDirty(lk, w, h) ==
  [lk EXCEPT !.waitingListCount = lk.waitingListCount - 1, !.owner = w, !.lasthostid = h]

(* Mutant: the last releaser is not recorded. *)
DropWaiterOldLast(lk, w, h) ==
  [lk EXCEPT !.waitingList = [lk.waitingList EXCEPT ![lk.waitingListCount - 1] = NoHost],
             !.waitingListCount = lk.waitingListCount - 1,
             !.owner = w]

(* Mutant: the waiter is taken off the list but not made the owner. *)
DropWaiterOldOwner(lk, w, h) ==
  [lk EXCEPT !.waitingList = [lk.waitingList EXCEPT ![lk.waitingListCount - 1] = NoHost],
             !.waitingListCount = lk.waitingListCount - 1, !.lasthostid = h]

DropWaiter(lk, w, h) ==
  [lk EXCEPT !.waitingList = [lk.waitingList EXCEPT ![lk.waitingListCount - 1] = NoHost],
             !.waitingListCount = lk.waitingListCount - 1,
             !.owner = w, !.lasthostid = h]

freeLock(lk, h) ==
  IF lk.state = "FREE" \/ lk.owner # h THEN lk
  ELSE IF lk.waitingListCount = 0 THEN SetFree(lk, h)
  ELSE DropWaiter(ShiftWaiters(lk), lk.waitingList[0], h)

(* grantLock run at the manager: nothing is sent to itself or to no host.   *)
grantLock(n, lk, l, h) ==
  IF h \in Host \ {Manager(l)}
  THEN Sent(n, Manager(l), h, Msg("GRANT_LOCK", l, lk.lasthostid)) ELSE n

-----------------------------------------------------------------------------
(* initsyn *)

FreshLock == [state |-> "FREE", owner |-> NoHost, lasthostid |-> NoHost,
              waitingList |-> [i \in Slot |-> NoHost], waitingListCount |-> 0]

Init == /\ locks = [l \in Lock |-> FreshLock]
        /\ myLocks = [h \in Host |-> [l \in Lock |-> 0]]
        /\ waitFlag = [h \in Host |-> 0]
        /\ lasthostid = [h \in Host |-> NoHost]
        /\ pc = [h \in Host |-> "app"]
        /\ cur = [h \in Host |-> 0]
        /\ result = [h \in Host |-> 0]
        /\ ret = [h \in Host |-> 0]
        /\ net = [f \in Host |-> [t \in Host |-> << >>]]

-----------------------------------------------------------------------------
(* mi_lock(l) at host h *)

(* The program takes locks in increasing order, which is what keeps a       *)
(* program that nests them from deadlocking whatever the lock code does.    *)
MayAsk(h, l) == /\ pc[h] = "app"
                /\ h \in Users[l]
                /\ \A k \in Lock : myLocks[h][k] = 1 => k < l

(* Another host manages l: waitFlag is raised, then ACQ_LOCK is sent. *)
LockRemote(h, l) ==
  /\ MayAsk(h, l)
  /\ Manager(l) # h
  /\ waitFlag' = [waitFlag EXCEPT ![h] = 1]
  /\ net' = Sent(net, h, Manager(l), Msg("ACQ_LOCK", l, NoHost))
  /\ pc' = [pc EXCEPT ![h] = "lockWait"]
  /\ cur' = [cur EXCEPT ![h] = l]
  /\ UNCHANGED <<locks, myLocks, lasthostid, result, ret>>

(* h manages l: graspLock tests the state, and branches on it. If h already *)
(* owned the lock (-4), mi_lock would return at once without it.            *)
LockLocal(h, l) ==
  /\ MayAsk(h, l)
  /\ Manager(l) = h
  /\ cur' = [cur EXCEPT ![h] = l]
  /\ LET r == GraspResult(locks[l], h) IN
       /\ pc' = [pc EXCEPT ![h] = IF r >= -1 THEN "graspSet"
                                  ELSE IF r = -3 THEN "graspPut" ELSE "app"]
       /\ \E g \in Garbage : ret' = [ret EXCEPT ![h] = IF r = -4 THEN g ELSE @]
  /\ UNCHANGED <<locks, myLocks, waitFlag, lasthostid, result, net>>

(* The lock was FREE when tested: it is taken, whatever happened since. *)
GraspSet(h) ==
  /\ Whole
  /\ pc[h] = "graspSet"
  /\ locks' = [locks EXCEPT ![cur[h]] = TakeLock(@, h)]
  /\ result' = [result EXCEPT ![h] = locks[cur[h]].lasthostid]
  /\ pc' = [pc EXCEPT ![h] = "fetchGrasp"]
  /\ UNCHANGED <<myLocks, waitFlag, lasthostid, cur, ret, net>>

(* With SIGIO open in between, one store after the other: thread h is at    *)
(* point p, leaves lk in the lock and goes on at q.                         *)
StoreAt(h, p, lk, q) ==
  /\ ~Whole
  /\ pc[h] = p
  /\ locks' = [locks EXCEPT ![cur[h]] = lk]
  /\ pc' = [pc EXCEPT ![h] = q]
  /\ UNCHANGED <<myLocks, waitFlag, lasthostid, cur, result, ret, net>>

(* Of TakeLock: state, owner; then lasthostid is read. *)
GraspStore(h) ==
  LET lk == locks[cur[h]]
  IN \/ StoreAt(h, "graspSet", [lk EXCEPT !.state = "LOCKED"], "graspOwner")
     \/ StoreAt(h, "graspOwner", [lk EXCEPT !.owner = h], "graspLast")

GraspLast(h) ==
  /\ pc[h] = "graspLast"
  /\ result' = [result EXCEPT ![h] = locks[cur[h]].lasthostid]
  /\ pc' = [pc EXCEPT ![h] = "fetchGrasp"]
  /\ UNCHANGED <<locks, myLocks, waitFlag, lasthostid, cur, ret, net>>

(* The lock was LOCKED when tested: h is written at the end of the list... *)
GraspPut(h) ==
  /\ pc[h] = "graspPut"
  /\ locks' = [locks EXCEPT ![cur[h]] = PutWaiter(@, h)]
  /\ pc' = [pc EXCEPT ![h] = "graspCount"]
  /\ UNCHANGED <<myLocks, waitFlag, lasthostid, cur, result, ret, net>>

(* ... and counted. *)
GraspCount(h) ==
  /\ pc[h] = "graspCount"
  /\ locks' = [locks EXCEPT ![cur[h]] = CountWaiter(@)]
  /\ pc' = [pc EXCEPT ![h] = "setWait"]
  /\ UNCHANGED <<myLocks, waitFlag, lasthostid, cur, result, ret, net>>

(* graspLock returned -3: only now is waitFlag raised. *)
SetWait(h) ==
  /\ pc[h] = "setWait"
  /\ waitFlag' = [waitFlag EXCEPT ![h] = 1]
  /\ pc' = [pc EXCEPT ![h] = "lockWait"]
  /\ UNCHANGED <<locks, myLocks, lasthostid, cur, result, ret, net>>

(* while(waitFlag) ends. *)
Wake(h) ==
  /\ pc[h] = "lockWait"
  /\ waitFlag[h] = 0
  /\ pc' = [pc EXCEPT ![h] = "fetchWake"]
  /\ UNCHANGED <<locks, myLocks, waitFlag, lasthostid, cur, result, ret, net>>

(* Mutant: the last releaser that graspLock returned is passed on. *)
ReturnedRaw(h, g) == IF Manager(cur[h]) = h THEN result[h] ELSE 0

(* The value mi_lock returns: the outer "result" is assigned on the path of *)
(* a remote manager only; the manager's own path assigns the inner one.     *)
Returned(h, g) == IF Manager(cur[h]) = h THEN g ELSE 0

(* The host mi_lock takes write notices from before it returns (NoHost: it  *)
(* opens an interval of its own). mem.c answers the request.                *)
NoticesFrom(h) ==
  LET from == IF pc[h] = "fetchGrasp" THEN result[h] ELSE lasthostid[h]
  IN IF from = h THEN NoHost ELSE from

(* The call returns to the program, and its locals die. *)
Idle(h) == /\ pc' = [pc EXCEPT ![h] = "app"]
           /\ cur' = [cur EXCEPT ![h] = 0]
           /\ result' = [result EXCEPT ![h] = 0]

(* mi_lock returns after a wait: lasthostid is reset if notices were taken. *)
AcquiredAfterWait(h) ==
  /\ pc[h] = "fetchWake"
  /\ lasthostid' = [lasthostid EXCEPT ![h] = IF NoticesFrom(h) # NoHost THEN NoHost ELSE @]
  /\ \E g \in Garbage : ret' = [ret EXCEPT ![h] = Returned(h, g)]
  /\ Idle(h)
  /\ UNCHANGED <<locks, myLocks, waitFlag, net>>

(* mi_lock returns after graspLock succeeded: myLocks is set last. *)
AcquiredAtOnce(h) ==
  /\ pc[h] = "fetchGrasp"
  /\ myLocks' = [myLocks EXCEPT ![h][cur[h]] = 1]
  /\ \E g \in Garbage : ret' = [ret EXCEPT ![h] = Returned(h, g)]
  /\ Idle(h)
  /\ UNCHANGED <<locks, waitFlag, lasthostid, net>>

-----------------------------------------------------------------------------
(* mi_unlock(l) at host h *)

(* Another host manages l: RLS_LOCK is sent and myLocks cleared. *)
UnlockRemote(h, l) ==
  /\ pc[h] = "app"
  /\ myLocks[h][l] = 1
  /\ Manager(l) # h
  /\ net' = Sent(net, h, Manager(l), Msg("RLS_LOCK", l, NoHost))
  /\ myLocks' = [myLocks EXCEPT ![h][l] = 0]
  /\ ret' = [ret EXCEPT ![h] = 0]
  /\ UNCHANGED <<locks, waitFlag, lasthostid, pc, cur, result>>

(* h manages l: myLocks is cleared, and freeLock tests the lock and reads   *)
(* the first waiter. Its error results end in mi_unlock's last branch.      *)
UnlockLocal(h, l) ==
  /\ pc[h] = "app"
  /\ myLocks[h][l] = 1
  /\ Manager(l) = h
  /\ myLocks' = [myLocks EXCEPT ![h][l] = 0]
  /\ cur' = [cur EXCEPT ![h] = l]
  /\ result' = [result EXCEPT ![h] = FreeResult(locks[l], h)]
  /\ LET r == FreeResult(locks[l], h) IN
       pc' = [pc EXCEPT ![h] = IF r \in {-3, -4} THEN "grant"
                               ELSE IF r = -5 THEN "freeSet" ELSE "freeShift"]
  /\ UNCHANGED <<locks, waitFlag, lasthostid, ret, net>>

(* No one waited when tested: the lock becomes FREE. *)
FreeSet(h) ==
  /\ Whole
  /\ pc[h] = "freeSet"
  /\ locks' = [locks EXCEPT ![cur[h]] = SetFree(@, h)]
  /\ pc' = [pc EXCEPT ![h] = "grant"]
  /\ UNCHANGED <<myLocks, waitFlag, lasthostid, cur, result, ret, net>>

(* The list is shifted one place down. Until freeLock stores a new owner a  *)
(* handler can only append to the list, and the loop tests the count again  *)
(* for each place: an append in its midst is as good as one before it...    *)
FreeShift(h) ==
  /\ pc[h] = "freeShift"
  /\ locks' = [locks EXCEPT ![cur[h]] = ShiftWaiters(@)]
  /\ pc' = [pc EXCEPT ![h] = "freeClear"]
  /\ UNCHANGED <<myLocks, waitFlag, lasthostid, cur, result, ret, net>>

(* ... its last place cleared, and the lock given to the waiter read first. *)
FreeClear(h) ==
  /\ Whole
  /\ pc[h] = "freeClear"
  /\ locks' = [locks EXCEPT ![cur[h]] = DropWaiter(@, result[h], h)]
  /\ pc' = [pc EXCEPT ![h] = "grant"]
  /\ UNCHANGED <<myLocks, waitFlag, lasthostid, cur, result, ret, net>>

(* Of SetFree: state, owner, lasthostid. Of DropWaiter: the last place, the *)
(* count, owner, lasthostid.                                                *)
FreeStore(h) ==
  LET lk == locks[cur[h]]
      end == lk.waitingListCount - 1
  IN \/ StoreAt(h, "freeSet", [lk EXCEPT !.state = "FREE"], "freeOwner")
     \/ StoreAt(h, "freeOwner", [lk EXCEPT !.owner = NoHost], "freeLast")
     \/ StoreAt(h, "freeClear",
                [lk EXCEPT !.waitingList = [lk.waitingList EXCEPT ![end] = NoHost]], "freeCount")
     \/ StoreAt(h, "freeCount", [lk EXCEPT !.waitingListCount = end], "freeHand")
     \/ StoreAt(h, "freeHand", [lk EXCEPT !.owner = result[h]], "freeLast")
     \/ StoreAt(h, "freeLast", [lk EXCEPT !.lasthostid = h], "grant")

(* Mutant: the next owner is not told. *)
GrantNobody(h) ==
  /\ pc[h] = "grant"
  /\ \E g \in Garbage : ret' = [ret EXCEPT ![h] = g]
  /\ Idle(h)
  /\ UNCHANGED <<locks, myLocks, waitFlag, lasthostid, net>>

(* freeLock returned: a waiter that is another host is sent GRANT_LOCK. *)
Grant(h) ==
  /\ pc[h] = "grant"
  /\ net' = grantLock(net, locks[cur[h]], cur[h], result[h])
  /\ \E g \in Garbage : ret' = [ret EXCEPT ![h] = g]
  /\ Idle(h)
  /\ UNCHANGED <<locks, myLocks, waitFlag, lasthostid>>

-----------------------------------------------------------------------------
(* The SIGIO handler of host h, for the next message of host f *)

Interruptible(h) == pc[h] \notin RacePoints \/ pc[h] \in SigioPoints

Arrived(f, h, command) ==
  /\ Interruptible(h)
  /\ net[f][h] # << >>
  /\ Head(net[f][h]).command = command

HandleAcquire(f, h) ==
  /\ Arrived(f, h, "ACQ_LOCK")
  /\ LET l == Head(net[f][h]).lockno
         lk == graspLock(locks[l], f)
     IN /\ locks' = [locks EXCEPT ![l] = lk]
        /\ net' = IF GraspResult(locks[l], f) >= -1
                  THEN grantLock(Taken(net, f, h), lk, l, f) ELSE Taken(net, f, h)
  /\ UNCHANGED <<myLocks, waitFlag, lasthostid, pc, cur, result, ret>>

(* Mutant: the manager's program is not told who released the lock. *)
HandleReleaseUnnamed(f, h) ==
  /\ Arrived(f, h, "RLS_LOCK")
  /\ LET l == Head(net[f][h]).lockno
         r == FreeResult(locks[l], f)
         lk == freeLock(locks[l], f)
     IN /\ locks' = [locks EXCEPT ![l] = lk]
        /\ net' = grantLock(Taken(net, f, h), lk, l, r)
        /\ waitFlag' = [waitFlag EXCEPT ![h] = IF r = h THEN 0 ELSE @]
        /\ myLocks' = [myLocks EXCEPT ![h][l] = IF r = h THEN 1 ELSE @]
  /\ UNCHANGED <<lasthostid, pc, cur, result, ret>>

(* The lock goes to the first waiter: by GRANT_LOCK, or in place when the   *)
(* waiter is the manager's own program.                                     *)
HandleRelease(f, h) ==
  /\ Arrived(f, h, "RLS_LOCK")
  /\ LET l == Head(net[f][h]).lockno
         r == FreeResult(locks[l], f)
         lk == freeLock(locks[l], f)
     IN /\ locks' = [locks EXCEPT ![l] = lk]
        /\ net' = grantLock(Taken(net, f, h), lk, l, r)
        /\ lasthostid' = [lasthostid EXCEPT ![h] = IF r = h THEN f ELSE @]
        /\ waitFlag' = [waitFlag EXCEPT ![h] = IF r = h THEN 0 ELSE @]
        /\ myLocks' = [myLocks EXCEPT ![h][l] = IF r = h THEN 1 ELSE @]
  /\ UNCHANGED <<pc, cur, result, ret>>

(* Mutant: myLocks is not set. *)
HandleGrantUnmarked(f, h) ==
  /\ Arrived(f, h, "GRANT_LOCK")
  /\ lasthostid' = [lasthostid EXCEPT ![h] = Head(net[f][h]).lasthostid]
  /\ waitFlag' = [waitFlag EXCEPT ![h] = 0]
  /\ net' = Taken(net, f, h)
  /\ UNCHANGED <<locks, myLocks, pc, cur, result, ret>>

HandleGrant(f, h) ==
  /\ Arrived(f, h, "GRANT_LOCK")
  /\ LET m == Head(net[f][h])
     IN /\ lasthostid' = [lasthostid EXCEPT ![h] = m.lasthostid]
        /\ myLocks' = [myLocks EXCEPT ![h][m.lockno] = 1]
        /\ waitFlag' = [waitFlag EXCEPT ![h] = 0]
  /\ net' = Taken(net, f, h)
  /\ UNCHANGED <<locks, pc, cur, result, ret>>

-----------------------------------------------------------------------------
(* A barrier completes at host 0: every program is inside mi_barrier, with  *)
(* its locks released and its messages handled. returnAllBarrierInfo resets *)
(* the lasthostid of host 0's own array only.                               *)
BarrierReset ==
  /\ \A h \in Host : pc[h] = "app" /\ \A l \in Lock : myLocks[h][l] = 0
  /\ \A f, t \in Host : net[f][t] = << >>
  /\ locks' = [l \in Lock |-> IF Manager(l) = 0
                              THEN [locks[l] EXCEPT !.lasthostid = NoHost] ELSE locks[l]]
  /\ UNCHANGED <<myLocks, waitFlag, lasthostid, pc, cur, result, ret, net>>

(* What the program calls. *)
Call(h) == \E l \in Lock : LockRemote(h, l) \/ LockLocal(h, l)

Unlock(h) == \E l \in Lock : UnlockRemote(h, l) \/ UnlockLocal(h, l)

(* A step inside mi_lock or mi_unlock. *)
Main(h) == \/ GraspSet(h) \/ GraspPut(h) \/ GraspCount(h) \/ SetWait(h)
           \/ Wake(h) \/ AcquiredAfterWait(h) \/ AcquiredAtOnce(h)
           \/ FreeSet(h) \/ FreeShift(h) \/ FreeClear(h) \/ FreeStore(h) \/ Grant(h)
           \/ GraspStore(h) \/ GraspLast(h)

Dispatch(f, h) == HandleAcquire(f, h) \/ HandleRelease(f, h) \/ HandleGrant(f, h)

Next == \/ \E h \in Host : Call(h) \/ Unlock(h) \/ Main(h)
        \/ \E f, h \in Host : Dispatch(f, h)
        \/ BarrierReset

Spec == Init /\ [][Next]_vars

(* A signal that was held back is delivered as soon as SIGIO is open again, *)
(* and the thread of a host always goes on: Dispatch and Main are fair. The *)
(* program is assumed to release every lock it holds, sooner or later.      *)
FairSpec ==
  /\ Spec
  /\ \A h \in Host : WF_vars(Main(h))
  /\ \A h \in Host : \A f \in Host \ {h} : SF_vars(Dispatch(f, h))
  /\ \A h \in Host, l \in Lock : SF_vars(UnlockRemote(h, l) \/ UnlockLocal(h, l))

-----------------------------------------------------------------------------
(* Properties *)

(* Type invariant: every variable keeps the shape its C declaration gives. *)
MiLockRecord == [state : {"FREE", "LOCKED"}, owner : HostOrNone, lasthostid : HostOrNone,
                 waitingList : [Slot -> HostOrNone], waitingListCount : Int]

TypeOK == /\ locks \in [Lock -> MiLockRecord]
          /\ myLocks \in [Host -> [Lock -> {0, 1}]]
          /\ waitFlag \in [Host -> {0, 1}]
          /\ lasthostid \in [Host -> HostOrNone]
          /\ pc \in [Host -> Points]
          /\ cur \in [Host -> Lock]
          /\ result \in [Host -> HostOrNone \cup {-5, -4, -3, 0}]
          /\ ret \in [Host -> Garbage]
          /\ net \in [Host -> [Host -> Seq(Message)]]

(* The handler cannot find a lock half updated: no manager's program uses a *)
(* lock that it manages, or SIGIO is masked at the points above.            *)
RaceFree == SigioPoints = {} \/ \A l \in Lock : Manager(l) \notin Users[l]

(* Host h is between the return of mi_lock(l) and its call of mi_unlock(l). *)
Held(h, l) == myLocks[h][l] = 1 /\ (pc[h] = "app" \/ cur[h] # l)

(* No two programs are inside the same lock, through every order of the     *)
(* manager's handler and the hosts' calls (mi_lock, mi_unlock and the three *)
(* handlers).                                                               *)
MutualExclusion ==
  \A l \in Lock, h1, h2 \in Host : Held(h1, l) /\ Held(h2, l) => h1 = h2

(* A message of this kind about l on the way from f to t. *)
InFlight(f, t, command, l) ==
  {i \in DOMAIN net[f][t] : net[f][t][i].command = command /\ net[f][t][i].lockno = l}

(* freeLock, called by the manager's program, has taken the first waiter    *)
(* out of l's list (shifted it, not yet shortened it) or returned it.       *)
Shifted(l) == pc[Manager(l)] = "freeClear" /\ cur[Manager(l)] = l

Popped(l) == Shifted(l) \/ (pc[Manager(l)] = "grant" /\ cur[Manager(l)] = l)

(* The places of h in the part of l's waitingList that counts. *)
Places(h, l) ==
  {i \in Slot : /\ i < locks[l].waitingListCount - (IF Shifted(l) THEN 1 ELSE 0)
                /\ locks[l].waitingList[i] = h}

(* Host h is inside mi_lock(l), about to spin on waitFlag or spinning. *)
WaitsFor(h, l) == pc[h] \in {"setWait", "lockWait"} /\ cur[h] = l

(* Where the request of a host may be: sent, listed, picked, or answered. *)
Requests(h, l) == Cardinality(InFlight(h, Manager(l), "ACQ_LOCK", l))
                + Cardinality(Places(h, l))
                + (IF Popped(l) /\ result[Manager(l)] = h THEN 1 ELSE 0)
                + Cardinality(InFlight(Manager(l), h, "GRANT_LOCK", l))

(* Host h has the lock and its wake-up. *)
Woken(h, l) == myLocks[h][l] = 1 /\ waitFlag[h] = 0

(* A host that waits for a lock is remembered exactly once, or has just     *)
(* been woken with the lock, and a host that does not wait has no request:  *)
(* the list's shift and append, the grants and the wake-up lose nothing and *)
(* grant nothing twice.                                                     *)
WaiterRemembered ==
  \A l \in Lock, h \in Host :
    Requests(h, l) = IF WaitsFor(h, l) /\ ~Woken(h, l) THEN 1 ELSE 0

(* A host that leaves the loop in mi_lock(l) has lock l: waitFlag is one    *)
(* flag for every lock, and no grant of another lock lowers it.             *)
WokenWithLock == \A h \in Host : pc[h] = "fetchWake" => myLocks[h][cur[h]] = 1

(* waitingList is a queue without holes: its first waitingListCount places  *)
(* hold different hosts (while it is shifted and not yet shortened, all but *)
(* the last of them do), none of them the owner, the rest are clear, and    *)
(* there is room for one more (graspLock writes without testing the bound). *)
WaitingListIsQueue ==
  \A l \in Lock :
    LET lk == locks[l]
        n == lk.waitingListCount - (IF Shifted(l) THEN 1 ELSE 0)
        half == pc[Manager(l)] \in {"graspCount", "freeClear"} /\ cur[Manager(l)] = l
    IN /\ lk.waitingListCount \in Slot
       /\ ~half => \A i \in Slot : (i < lk.waitingListCount) <=> (lk.waitingList[i] # NoHost)
       /\ \A i, j \in Slot : i < j /\ j < n => lk.waitingList[i] # lk.waitingList[j]
       /\ \A i \in Slot : i < lk.waitingListCount => lk.waitingList[i] # lk.owner
       /\ lk.state = "FREE" => lk.waitingListCount = 0 /\ lk.owner = NoHost

(* mi_lock takes write notices from the host that released the lock last:   *)
(* what the grant said is still what the manager records when it is used.   *)
NoticesFromLastReleaser ==
  \A h \in Host : pc[h] \in {"fetchGrasp", "fetchWake"} =>
    LET last == locks[cur[h]].lasthostid
    IN NoticesFrom(h) = IF last = h THEN NoHost ELSE last

(* The manager's path after a wait opens no interval when there is no last  *)
(* releaser (mi_lock tests lasthostid and has no else): that never happens. *)
WokenManagerFetches ==
  \A h \in Host : pc[h] = "fetchWake" /\ Manager(cur[h]) = h => NoticesFrom(h) # NoHost

(* Whoever waits for a lock gets it: the list is served in order, and every *)
(* host that is granted the lock notices it.                                *)
LockGranted == \A h \in Host, l \in Lock : WaitsFor(h, l) ~> Held(h, l)

-----------------------------------------------------------------------------
(* MiLock implements LockService *)

HolderOf(l) == IF \E h \in Host : Held(h, l) THEN CHOOSE h \in Host : Held(h, l) ELSE NoHost

Releasing(h, l) == \/ Manager(l) # h /\ InFlight(h, Manager(l), "RLS_LOCK", l) # {}
                   \/ pc[h] \in {"freeSet", "freeShift", "freeClear"} /\ cur[h] = l

LastOf(l) == IF \E h \in Host : Releasing(h, l)
             THEN CHOOSE h \in Host : Releasing(h, l) ELSE locks[l].lasthostid

LS == INSTANCE LockService WITH holder <- [l \in Lock |-> HolderOf(l)],
                                last <- [l \in Lock |-> LastOf(l)]

(* Every step of the lock protocol is a step of the lock service or changes *)
(* nothing it shows: a lock is acquired only when free, and the manager's   *)
(* record of the last releaser is never behind or ahead of the releases.    *)
ImplementsLockService == LS!Spec

-----------------------------------------------------------------------------
(* What the comments of syn.c say, of every lock *)

(* "send GRANT msg to hostid, telling it that lockno belongs to it": while  *)
(* the message is on its way, the lock belongs to that host.                *)
GrantMeansOwner ==
  \A l \in Lock, h \in Host :
    InFlight(Manager(l), h, "GRANT_LOCK", l) # {} => locks[l].owner = h
=============================================================================
