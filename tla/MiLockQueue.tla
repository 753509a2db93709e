---------------------------- MODULE MiLockQueue ----------------------------
(***************************************************************************)
(* The requests for a lock of MiLock, for any number of hosts and locks,   *)
(* under the assumption of MiLockExclusion (RaceFree).                     *)
(*                                                                         *)
(* The argument: a host that waits for a lock has one request for it, in   *)
(* one of four places: in an ACQ_LOCK, in the waitingList, with the        *)
(* manager's thread that has picked it, or in a GRANT_LOCK.  The list is a *)
(* queue of different hosts without holes, so it cannot outgrow the number *)
(* of hosts.  And the right to a lock (MiLockExclusion) is never lost, so  *)
(* that a host which asks again while it is still recorded as the owner    *)
(* has its RLS_LOCK on the way before the ACQ_LOCK.                        *)
(*                                                                         *)
(* Who has the right to a lock also knows, by the time it asks for write   *)
(* notices, who released the lock last. With that, MiLock implements       *)
(* LockService: the last part of the module takes its steps to steps of    *)
(* LockService or to stutters.                                             *)
(***************************************************************************)
EXTENDS MiLockExclusion, FiniteSetTheorems

-----------------------------------------------------------------------------
(* The invariant *)

(* A message of this kind about l at place i of the channel from f to t. *)
MsgAt(n, f, t, command, l, i) ==
  i \in 1 .. Len(n[f][t]) /\ n[f][t][i].command = command /\ n[f][t][i].lockno = l

Has(n, f, t, command, l) == \E i \in Nat : MsgAt(n, f, t, command, l, i)
HasOnce(n, f, t, command, l) ==
  \A i, j \in Nat : MsgAt(n, f, t, command, l, i) /\ MsgAt(n, f, t, command, l, j) => i = j

Asked(n, h, l) == Has(n, h, Manager(l), "ACQ_LOCK", l)
Granted(n, h, l) == Has(n, Manager(l), h, "GRANT_LOCK", l)

(* The first e places of a waitingList have h. *)
Listed(lk, e, h) == \E i \in Slot : i < e /\ lk.waitingList[i] = h

(* How many places of l's list count, once freeLock has shifted it. *)
Length(l) == locks[l].waitingListCount - (IF Shifted(l) THEN 1 ELSE 0)

Picked(h, l) == Popped(l) /\ result[Manager(l)] = h

(* h waits for l and has not been woken with it. *)
Asks(h, l) == /\ cur[h] = l /\ myLocks[h][l] = 0
              /\ pc[h] \in {"setWait", "lockWait"}

(* An ACQ_LOCK of the owner comes after its RLS_LOCK. *)
AfterRelease(n, h, l) ==
  \A i \in Nat : MsgAt(n, h, Manager(l), "ACQ_LOCK", l, i) =>
    \E j \in Nat : j < i /\ MsgAt(n, h, Manager(l), "RLS_LOCK", l, j)

(* A host's request for a lock is in one place if it waits, else in none. *)
Exclusive(a, b, c, d) == /\ ~(a /\ b) /\ ~(a /\ c) /\ ~(a /\ d)
                         /\ ~(b /\ c) /\ ~(b /\ d) /\ ~(c /\ d)
RequestInv(h, l) ==
  /\ Asks(h, l) <=> \/ Asked(net, h, l) \/ Listed(locks[l], Length(l), h)
                    \/ Picked(h, l) \/ Granted(net, h, l)
  /\ Exclusive(Asked(net, h, l), Listed(locks[l], Length(l), h), Picked(h, l), Granted(net, h, l))
  /\ HasOnce(net, h, Manager(l), "ACQ_LOCK", l)
  /\ Own(h, l) => AfterRelease(net, h, l)

(* A lock record: a list of different hosts, none of them the owner, and    *)
(* nothing behind its first count places but what is being put there.       *)
Different(lk, e) == \A i, j \in Slot : i < j /\ j < e => lk.waitingList[i] # lk.waitingList[j]
ListInv(lk) ==
  /\ lk.waitingListCount \in Slot
  /\ lk.state = "FREE" => lk.waitingListCount = 0 /\ lk.owner = NoHost
  /\ lk.state = "LOCKED" => lk.owner \in Host
  /\ \A i \in Slot : i < lk.waitingListCount => lk.waitingList[i] \in Host \ {lk.owner}
ClearFrom(lk, k) == \A i \in Slot : i >= k => lk.waitingList[i] = NoHost

QueueInv(l) ==
  /\ ListInv(locks[l])
  /\ Different(locks[l], Length(l))
  /\ ~(pc[Manager(l)] = "graspCount" /\ cur[Manager(l)] = l) =>
       ClearFrom(locks[l], locks[l].waitingListCount)

(* What the manager's thread h has read of lock lk is still so: p is its    *)
(* point in graspLock or freeLock, r the waiter read.                       *)
ReadInv(h, p, r, lk) ==
  /\ p \in {"graspPut", "graspCount"} => lk.state = "LOCKED" /\ lk.owner # h
  /\ p = "graspCount" => /\ lk.waitingList[lk.waitingListCount] = h
                         /\ ClearFrom(lk, lk.waitingListCount + 1)
  /\ p = "freeSet" => lk.waitingListCount = 0
  /\ p \in {"freeShift", "freeClear"} => lk.waitingListCount > 0 /\ r \in Host \ {h}
  /\ p = "freeShift" => r = lk.waitingList[0]
  /\ p = "grant" => r # h

(* The loop on waitFlag. *)
LoopInv(p, w, mine) ==
  /\ w = 1 => p = "lockWait"
  /\ p = "lockWait" => (w = 1 <=> mine = 0)
  /\ p = "fetchWake" => mine = 1
  /\ p \in {"graspSet", "graspPut", "graspCount", "setWait", "fetchGrasp",
             "freeSet", "freeShift", "freeClear", "grant"} => mine = 0

(* The right to a lock that is not free is somewhere. *)
RightInv(l) ==
  \A h \in Host : Own(h, l) => \/ myLocks[h][l] = 1 \/ Bears(net, h, l)
                               \/ \E g \in Host : Busy(g, l) /\ BusyFor(g) = h

(* Who has the right to a lock knows who released it last: a thread of h at *)
(* point p in a call for lock c, with result r, waitFlag w and lasthostid t; *)
(* and the grants of lock l on their way.                                   *)
WokenKnows(h, p, c, r, w, t, last) ==
  /\ p = "fetchGrasp" => r = last
  /\ p = "fetchWake" \/ (p = "lockWait" /\ w = 0) =>
       t = last /\ (Manager(c) = h => t \in Host \ {h})
GrantsKnow(n, l, last) ==
  \A h \in Host, i \in Nat :
    MsgAt(n, Manager(l), h, "GRANT_LOCK", l, i) => n[Manager(l)][h][i].lasthostid = last

(* No host sends messages to itself, and only the manager grants a lock. *)
Routed(f, t, m) == f # t /\ (m.command = "GRANT_LOCK" => f = Manager(m.lockno))
RouteInv(n) == \A f, t \in Host : \A i \in 1 .. Len(n[f][t]) : Routed(f, t, n[f][t][i])

ThreadInv(h) ==
  /\ ReadInv(h, pc[h], result[h], locks[cur[h]])
  /\ LoopInv(pc[h], waitFlag[h], myLocks[h][cur[h]])
  /\ WokenKnows(h, pc[h], cur[h], result[h], waitFlag[h], lasthostid[h], locks[cur[h]].lasthostid)

WaitInv ==
  /\ \A h \in Host, l \in Lock : RequestInv(h, l)
  /\ \A l \in Lock : QueueInv(l) /\ RightInv(l) /\ GrantsKnow(net, l, locks[l].lasthostid)
  /\ \A h \in Host : ThreadInv(h)
  /\ RouteInv(net)

-----------------------------------------------------------------------------
(* Messages of a kind *)

(* A message of this kind about l. *)
Matches(m, command, l) == m.command = command /\ m.lockno = l

(* What a send does to the messages of a kind. *)
LEMMA SentMsgAt ==
  ASSUME NEW n \in Nets, NEW a \in Host, NEW b \in Host, NEW m \in Message, NEW k, k = Sent(n, a, b, m),
         NEW f \in Host, NEW t \in Host, NEW command, NEW l, NEW i \in Nat
  PROVE MsgAt(k, f, t, command, l, i) <=>
          \/ MsgAt(n, f, t, command, l, i)
          \/ f = a /\ t = b /\ i = Len(n[a][b]) + 1 /\ Matches(m, command, l)
<1>1. CASE f = a /\ t = b
  <2>1. k[f][t] = Append(n[a][b], m) /\ n[a][b] \in Seq(Message)
    BY <1>1 DEF Sent, Nets
  <2>2. Len(k[f][t]) = Len(n[a][b]) + 1 /\ Len(n[a][b]) \in Nat
    BY <2>1
  <2>3. \A j \in 1 .. Len(n[a][b]) : k[f][t][j] = n[a][b][j]
    BY <2>1
  <2>4. k[f][t][Len(n[a][b]) + 1] = m
    BY <2>1
  <2>5. CASE i = Len(n[a][b]) + 1
    <3>1. i \in 1 .. Len(k[f][t]) /\ i \notin 1 .. Len(n[f][t]) /\ k[f][t][i] = m
      BY <1>1, <2>2, <2>4, <2>5
    <3> QED BY <1>1, <2>5, <3>1 DEF MsgAt, Matches
  <2>6. CASE i # Len(n[a][b]) + 1
    <3>1. i \in 1 .. Len(k[f][t]) <=> i \in 1 .. Len(n[f][t])
      BY <1>1, <2>2, <2>6
    <3>2. i \in 1 .. Len(n[f][t]) => k[f][t][i] = n[f][t][i]
      BY <1>1, <2>3
    <3> QED BY <2>6, <3>1, <3>2 DEF MsgAt
  <2> QED BY <2>5, <2>6
<1>2. CASE ~(f = a /\ t = b)
  <2>1. k[f][t] = n[f][t]
    BY <1>2 DEF Sent, Nets
  <2> QED BY <1>2, <2>1 DEF MsgAt
<1> QED BY <1>1, <1>2

LEMMA SentHas ==
  ASSUME NEW n \in Nets, NEW a \in Host, NEW b \in Host, NEW m \in Message, NEW k, k = Sent(n, a, b, m),
         NEW f \in Host, NEW t \in Host, NEW command, NEW l
  PROVE /\ Has(k, f, t, command, l) <=>
             Has(n, f, t, command, l) \/ (f = a /\ t = b /\ Matches(m, command, l))
        /\ HasOnce(n, f, t, command, l) /\ ~Has(n, f, t, command, l) => HasOnce(k, f, t, command, l)
        /\ HasOnce(n, f, t, command, l) /\ ~(f = a /\ t = b /\ Matches(m, command, l)) =>
             HasOnce(k, f, t, command, l)
<1>1. \A i \in Nat : MsgAt(k, f, t, command, l, i) <=>
        \/ MsgAt(n, f, t, command, l, i)
        \/ f = a /\ t = b /\ i = Len(n[a][b]) + 1 /\ Matches(m, command, l)
  BY SentMsgAt
<1>2. Len(n[a][b]) + 1 \in Nat
  BY DEF Nets
<1>3. Has(k, f, t, command, l) <=>
        Has(n, f, t, command, l) \/ (f = a /\ t = b /\ Matches(m, command, l))
  BY <1>1, <1>2 DEF Has
<1>4. HasOnce(n, f, t, command, l) /\ ~Has(n, f, t, command, l) => HasOnce(k, f, t, command, l)
  BY <1>1 DEF Has, HasOnce
<1>5. HasOnce(n, f, t, command, l) /\ ~(f = a /\ t = b /\ Matches(m, command, l)) =>
        HasOnce(k, f, t, command, l)
  BY <1>1 DEF HasOnce
<1> QED BY <1>3, <1>4, <1>5

(* The place a message had before a receive. *)
Before(f, t, a, b, i) == IF f = a /\ t = b THEN i + 1 ELSE i

LEMMA TakenMsgAt ==
  ASSUME NEW n \in Nets, NEW a \in Host, NEW b \in Host, NEW k, k = Taken(n, a, b), n[a][b] # << >>,
         NEW f \in Host, NEW t \in Host, NEW command, NEW l, NEW i \in Nat
  PROVE /\ MsgAt(k, f, t, command, l, i) => MsgAt(n, f, t, command, l, Before(f, t, a, b, i))
        /\ i > 0 /\ MsgAt(n, f, t, command, l, Before(f, t, a, b, i)) => MsgAt(k, f, t, command, l, i)
<1>1. CASE f = a /\ t = b
  <2>1. k[f][t] = Tail(n[a][b]) /\ n[a][b] \in Seq(Message)
    BY <1>1 DEF Taken, Nets
  <2>2. Len(n[a][b]) \in Nat \ {0} /\ Len(k[f][t]) = Len(n[a][b]) - 1
    BY <2>1
  <2>3. \A j \in 1 .. Len(k[f][t]) : k[f][t][j] = n[a][b][j + 1]
    BY <2>1, <2>2
  <2>4. Before(f, t, a, b, i) = i + 1
    BY <1>1 DEF Before
  <2>5. MsgAt(n, f, t, command, l, i + 1) <=>
          /\ i + 1 \in 1 .. Len(n[a][b])
          /\ n[a][b][i + 1].command = command /\ n[a][b][i + 1].lockno = l
    BY <1>1 DEF MsgAt
  <2>6. i \in 1 .. Len(k[f][t]) <=> i > 0 /\ i + 1 \in 1 .. Len(n[a][b])
    BY <2>2
  <2> QED BY <2>3, <2>4, <2>5, <2>6 DEF MsgAt
<1>2. CASE ~(f = a /\ t = b)
  <2>1. k[f][t] = n[f][t]
    BY <1>2 DEF Taken, Nets
  <2> QED BY <1>2, <2>1 DEF MsgAt, Before
<1> QED BY <1>1, <1>2

LEMMA TakenHas ==
  ASSUME NEW n \in Nets, NEW a \in Host, NEW b \in Host, NEW k, k = Taken(n, a, b), n[a][b] # << >>,
         NEW f \in Host, NEW t \in Host, NEW command, NEW l
  PROVE /\ Has(k, f, t, command, l) => Has(n, f, t, command, l)
        /\ ~(f = a /\ t = b /\ Matches(Head(n[a][b]), command, l)) =>
             (Has(k, f, t, command, l) <=> Has(n, f, t, command, l))
        /\ f = a /\ t = b /\ Matches(Head(n[a][b]), command, l) =>
             /\ MsgAt(n, f, t, command, l, 1)
             /\ HasOnce(n, f, t, command, l) => ~Has(k, f, t, command, l)
        /\ HasOnce(n, f, t, command, l) => HasOnce(k, f, t, command, l)
<1>0. n[a][b] \in Seq(Message) /\ Head(n[a][b]) = n[a][b][1] /\ 1 \in 1 .. Len(n[a][b])
  BY HeadAt DEF Nets
<1>1. ASSUME NEW i \in Nat, MsgAt(k, f, t, command, l, i)
      PROVE MsgAt(n, f, t, command, l, Before(f, t, a, b, i)) /\ Before(f, t, a, b, i) \in Nat /\ i > 0
  <2>1. MsgAt(n, f, t, command, l, Before(f, t, a, b, i)) /\ Before(f, t, a, b, i) \in Nat
    BY <1>1, TakenMsgAt DEF Before
  <2>2. i > 0
    BY <1>1 DEF MsgAt
  <2> QED BY <2>1, <2>2
<1>2. Has(k, f, t, command, l) => Has(n, f, t, command, l)
  BY <1>1 DEF Has
<1>3. ASSUME ~(f = a /\ t = b /\ Matches(Head(n[a][b]), command, l)), Has(n, f, t, command, l)
      PROVE Has(k, f, t, command, l)
  <2>1. PICK i \in Nat : MsgAt(n, f, t, command, l, i)
    BY <1>3 DEF Has
  <2>2. CASE f = a /\ t = b
    <3>1. i # 1
      BY <1>0, <1>3, <2>1, <2>2 DEF MsgAt, Matches
    <3>2. i - 1 \in Nat /\ i - 1 > 0 /\ Before(f, t, a, b, i - 1) = i
      BY <2>1, <2>2, <3>1 DEF MsgAt, Before
    <3>3. MsgAt(k, f, t, command, l, i - 1)
      BY <2>1, <3>2, TakenMsgAt
    <3> QED BY <3>2, <3>3 DEF Has
  <2>3. CASE ~(f = a /\ t = b)
    <3>1. i > 0 /\ Before(f, t, a, b, i) = i
      BY <2>1, <2>3 DEF MsgAt, Before
    <3> QED BY <2>1, <3>1, TakenMsgAt DEF Has
  <2> QED BY <2>2, <2>3
<1>4. ASSUME f = a, t = b, Matches(Head(n[a][b]), command, l)
      PROVE /\ MsgAt(n, f, t, command, l, 1)
            /\ HasOnce(n, f, t, command, l) => ~Has(k, f, t, command, l)
  <2>1. MsgAt(n, f, t, command, l, 1)
    BY <1>0, <1>4 DEF MsgAt, Matches
  <2>2. ASSUME HasOnce(n, f, t, command, l), NEW i \in Nat, MsgAt(k, f, t, command, l, i) PROVE FALSE
    <3>1. MsgAt(n, f, t, command, l, i + 1) /\ i + 1 \in Nat /\ i > 0
      BY <1>1, <1>4, <2>2 DEF Before
    <3>2. i + 1 = 1
      BY <2>1, <2>2, <3>1 DEF HasOnce
    <3> QED BY <3>1, <3>2
  <2> QED BY <2>1, <2>2 DEF Has
<1>5. ASSUME HasOnce(n, f, t, command, l) PROVE HasOnce(k, f, t, command, l)
  <2> SUFFICES ASSUME NEW i \in Nat, NEW j \in Nat, MsgAt(k, f, t, command, l, i), MsgAt(k, f, t, command, l, j)
               PROVE i = j
    BY DEF HasOnce
  <2>1. Before(f, t, a, b, i) = Before(f, t, a, b, j)
    BY <1>1, <1>5 DEF HasOnce
  <2> QED BY <2>1 DEF Before
<1> QED BY <1>2, <1>3, <1>4, <1>5

(* A send keeps AfterRelease, unless it is an ACQ_LOCK without RLS_LOCK before. *)
LEMMA SentAfter ==
  ASSUME NEW n \in Nets, NEW a \in Host, NEW b \in Host, NEW m \in Message, NEW k, k = Sent(n, a, b, m),
         NEW h \in Host, NEW l \in Lock, AfterRelease(n, h, l),
         \/ ~(a = h /\ b = Manager(l) /\ Matches(m, "ACQ_LOCK", l))
         \/ Has(n, h, Manager(l), "RLS_LOCK", l)
  PROVE AfterRelease(k, h, l)
<1> SUFFICES ASSUME NEW i \in Nat, MsgAt(k, h, Manager(l), "ACQ_LOCK", l, i)
             PROVE \E j \in Nat : j < i /\ MsgAt(k, h, Manager(l), "RLS_LOCK", l, j)
  BY DEF AfterRelease
<1>0. Manager(l) \in Host
  BY ManagerIsHost
<1>1. \A j \in Nat : MsgAt(n, h, Manager(l), "RLS_LOCK", l, j) => MsgAt(k, h, Manager(l), "RLS_LOCK", l, j)
  BY <1>0, SentMsgAt
<1>2. CASE MsgAt(n, h, Manager(l), "ACQ_LOCK", l, i)
  BY <1>1, <1>2 DEF AfterRelease
<1>3. CASE a = h /\ b = Manager(l) /\ i = Len(n[a][b]) + 1 /\ Matches(m, "ACQ_LOCK", l)
  <2>1. PICK j \in Nat : MsgAt(n, h, Manager(l), "RLS_LOCK", l, j)
    BY <1>3 DEF Has
  <2>2. j < i
    BY <1>3, <2>1 DEF MsgAt, Nets
  <2> QED BY <1>1, <2>1, <2>2
<1> QED BY <1>0, <1>2, <1>3, SentMsgAt

(* A receive keeps AfterRelease, unless it takes the RLS_LOCK. *)
LEMMA TakenAfter ==
  ASSUME NEW n \in Nets, NEW a \in Host, NEW b \in Host, NEW k, k = Taken(n, a, b), n[a][b] # << >>,
         NEW h \in Host, NEW l \in Lock, AfterRelease(n, h, l),
         ~(a = h /\ b = Manager(l) /\ Matches(Head(n[a][b]), "RLS_LOCK", l))
  PROVE AfterRelease(k, h, l)
<1> SUFFICES ASSUME NEW i \in Nat, MsgAt(k, h, Manager(l), "ACQ_LOCK", l, i)
             PROVE \E j \in Nat : j < i /\ MsgAt(k, h, Manager(l), "RLS_LOCK", l, j)
  BY DEF AfterRelease
<1>0. Manager(l) \in Host /\ n[a][b] \in Seq(Message) /\ Head(n[a][b]) = n[a][b][1] /\ 1 \in 1 .. Len(n[a][b])
  BY ManagerIsHost, HeadAt DEF Nets
<1>1. PICK p \in Nat : p = Before(h, Manager(l), a, b, i)
  BY DEF Before
<1>2. MsgAt(n, h, Manager(l), "ACQ_LOCK", l, p)
  BY <1>0, <1>1, TakenMsgAt
<1>3. PICK q \in Nat : q < p /\ MsgAt(n, h, Manager(l), "RLS_LOCK", l, q)
  BY <1>2 DEF AfterRelease
<1>4. q > 0
  BY <1>3 DEF MsgAt
<1>5. CASE h = a /\ Manager(l) = b
  <2>1. q # 1
    BY <1>0, <1>3, <1>5 DEF MsgAt, Matches
  <2>2. q - 1 \in Nat /\ q - 1 > 0 /\ q - 1 < i /\ Before(h, Manager(l), a, b, q - 1) = q
    BY <1>1, <1>3, <1>4, <1>5, <2>1 DEF Before
  <2>3. MsgAt(k, h, Manager(l), "RLS_LOCK", l, q - 1)
    BY <1>0, <1>3, <2>2, TakenMsgAt
  <2> QED BY <2>2, <2>3
<1>6. CASE ~(h = a /\ Manager(l) = b)
  <2>1. q < i /\ Before(h, Manager(l), a, b, q) = q
    BY <1>1, <1>3, <1>6 DEF Before
  <2>2. MsgAt(k, h, Manager(l), "RLS_LOCK", l, q)
    BY <1>0, <1>3, <1>4, <2>1, TakenMsgAt
  <2> QED BY <2>1, <2>2
<1> QED BY <1>5, <1>6

(* Routes. *)
LEMMA SentRoute ==
  ASSUME NEW n \in Nets, NEW a \in Host, NEW b \in Host, NEW m \in Message, NEW k, k = Sent(n, a, b, m),
         RouteInv(n), Routed(a, b, m)
  PROVE RouteInv(k)
<1> SUFFICES ASSUME NEW f \in Host, NEW t \in Host, NEW i \in 1 .. Len(k[f][t])
             PROVE Routed(f, t, k[f][t][i])
  BY DEF RouteInv
<1>1. i \in Nat
  OBVIOUS
<1>2. \/ i \in 1 .. Len(n[f][t]) /\ k[f][t][i] = n[f][t][i]
      \/ f = a /\ t = b /\ i = Len(n[a][b]) + 1 /\ k[f][t][i] = m
  BY <1>1, SentAt
<1> QED BY <1>2 DEF RouteInv

LEMMA TakenRoute ==
  ASSUME NEW n \in Nets, NEW a \in Host, NEW b \in Host, NEW k, k = Taken(n, a, b), n[a][b] # << >>,
         RouteInv(n)
  PROVE RouteInv(k) /\ Routed(a, b, Head(n[a][b]))
<1>1. ASSUME NEW f \in Host, NEW t \in Host, NEW i \in 1 .. Len(k[f][t])
      PROVE Routed(f, t, k[f][t][i])
  <2>1. i \in Nat
    OBVIOUS
  <2>2. \/ f = a /\ t = b /\ i + 1 \in 1 .. Len(n[f][t]) /\ k[f][t][i] = n[f][t][i + 1]
        \/ ~(f = a /\ t = b) /\ i \in 1 .. Len(n[f][t]) /\ k[f][t][i] = n[f][t][i]
    BY <2>1, TakenAt
  <2> QED BY <2>2 DEF RouteInv
<1>2. n[a][b] \in Seq(Message)
  BY DEF Nets
<1>3. Routed(a, b, Head(n[a][b]))
  BY <1>2, HeadAt DEF RouteInv
<1> QED BY <1>1, <1>3 DEF RouteInv

(* The right to l stays in the channels. *)
LEMMA SentBears ==
  ASSUME NEW n \in Nets, NEW a \in Host, NEW b \in Host, NEW m \in Message, NEW k, k = Sent(n, a, b, m),
         NEW l
  PROVE /\ \A h \in Host : Bears(n, h, l) => Bears(k, h, l)
        /\ Token(m, l) => Bears(k, Bearer(a, b, m), l)
<1>0. n[a][b] \in Seq(Message)
  BY DEF Nets
<1>1. ASSUME NEW f \in Host, NEW t \in Host, NEW i \in Nat, Carries(n, f, t, i, l)
      PROVE Carries(k, f, t, i, l) /\ k[f][t][i] = n[f][t][i]
  <2>1. i \in 1 .. Len(n[f][t]) /\ Token(n[f][t][i], l)
    BY <1>1 DEF Carries
  <2>2. CASE f = a /\ t = b
    <3>1. k[f][t] = Append(n[a][b], m)
      BY <2>2 DEF Sent, Nets
    <3>2. i \in 1 .. Len(k[f][t]) /\ k[f][t][i] = n[f][t][i]
      BY <1>0, <2>1, <2>2, <3>1
    <3> QED BY <2>1, <3>2 DEF Carries
  <2>3. CASE ~(f = a /\ t = b)
    <3>1. k[f][t] = n[f][t]
      BY <2>3 DEF Sent, Nets
    <3> QED BY <1>1, <3>1 DEF Carries
  <2> QED BY <2>2, <2>3
<1>2. \A h \in Host : Bears(n, h, l) => Bears(k, h, l)
  BY <1>1 DEF Bears
<1>3. ASSUME Token(m, l) PROVE Bears(k, Bearer(a, b, m), l)
  <2>1. k[a][b] = Append(n[a][b], m)
    BY DEF Sent, Nets
  <2>2. PICK i \in Nat : i = Len(n[a][b]) + 1
    BY <1>0
  <2>3. i \in 1 .. Len(k[a][b]) /\ k[a][b][i] = m
    BY <1>0, <2>1, <2>2
  <2> QED BY <1>3, <2>3 DEF Bears, Carries
<1> QED BY <1>2, <1>3

LEMMA TakenBears ==
  ASSUME NEW n \in Nets, NEW a \in Host, NEW b \in Host, NEW k, k = Taken(n, a, b), n[a][b] # << >>,
         NEW l, ~Token(Head(n[a][b]), l)
  PROVE \A h \in Host : Bears(n, h, l) => Bears(k, h, l)
<1>0. n[a][b] \in Seq(Message) /\ Head(n[a][b]) = n[a][b][1]
  BY HeadAt DEF Nets
<1> SUFFICES ASSUME NEW f \in Host, NEW t \in Host, NEW i \in Nat, Carries(n, f, t, i, l)
             PROVE \E j \in Nat : Carries(k, f, t, j, l) /\ k[f][t][j] = n[f][t][i]
  BY DEF Bears
<1>1. i \in 1 .. Len(n[f][t]) /\ Token(n[f][t][i], l)
  BY DEF Carries
<1>2. CASE f = a /\ t = b
  <2>1. k[f][t] = Tail(n[a][b])
    BY <1>2 DEF Taken, Nets
  <2>2. i # 1
    BY <1>0, <1>1, <1>2
  <2>3. i - 1 \in Nat /\ i - 1 \in 1 .. Len(k[f][t]) /\ k[f][t][i - 1] = n[f][t][i]
    BY <1>0, <1>1, <1>2, <2>1, <2>2
  <2> QED BY <1>1, <2>3 DEF Carries
<1>3. CASE ~(f = a /\ t = b)
  <2>1. k[f][t] = n[f][t]
    BY <1>3 DEF Taken, Nets
  <2> QED BY <2>1 DEF Carries
<1> QED BY <1>2, <1>3

(* What grantLock does to the channels. *)
LEMMA GrantNet ==
  ASSUME NEW n \in Nets, NEW lk \in MiLockRecord, NEW c \in Lock, NEW w, NEW k, k = grantLock(n, lk, c, w),
         NEW h \in Host, NEW l \in Lock
  PROVE /\ Granted(k, h, l) <=> Granted(n, h, l) \/ (l = c /\ h = w /\ h # Manager(c))
        /\ Asked(k, h, l) <=> Asked(n, h, l)
        /\ HasOnce(n, h, Manager(l), "ACQ_LOCK", l) => HasOnce(k, h, Manager(l), "ACQ_LOCK", l)
        /\ AfterRelease(n, h, l) => AfterRelease(k, h, l)
        /\ RouteInv(n) => RouteInv(k)
        /\ Bears(n, h, l) => Bears(k, h, l)
        /\ l = c /\ h = w /\ h # Manager(c) => Bears(k, h, l)
<1>1. CASE w \notin Host \ {Manager(c)}
  BY <1>1 DEF grantLock
<1>2. CASE w \in Host \ {Manager(c)}
  <2>1. PICK m : m = Msg("GRANT_LOCK", c, lk.lasthostid)
    OBVIOUS
  <2>2. m \in Message /\ m.lockno = c /\ m.command = "GRANT_LOCK"
    <3>1. lk.lasthostid \in HostOrNone
      BY DEF MiLockRecord
    <3> QED BY <2>1, <3>1, MsgType DEF Msg
  <2>3. k = Sent(n, Manager(c), w, m) /\ Manager(c) \in Host /\ Manager(l) \in Host
    BY <1>2, <2>1, ManagerIsHost DEF grantLock
  <2>4. Bearer(Manager(c), w, m) = w /\ (l = c => Token(m, l)) /\ Routed(Manager(c), w, m)
    BY <1>2, <2>2 DEF Bearer, Token, Routed
  <2>5. ~Matches(m, "ACQ_LOCK", l) /\ (Matches(m, "GRANT_LOCK", l) <=> l = c)
    BY <2>2 DEF Matches
  <2>6. Granted(k, h, l) <=> Granted(n, h, l) \/ (l = c /\ h = w /\ h # Manager(c))
    BY <1>2, <2>2, <2>3, <2>5, SentHas DEF Granted
  <2>7. /\ Asked(k, h, l) <=> Asked(n, h, l)
        /\ HasOnce(n, h, Manager(l), "ACQ_LOCK", l) => HasOnce(k, h, Manager(l), "ACQ_LOCK", l)
    BY <1>2, <2>2, <2>3, <2>5, SentHas DEF Asked
  <2>8. AfterRelease(n, h, l) => AfterRelease(k, h, l)
    BY <1>2, <2>2, <2>3, <2>5, SentAfter
  <2>9. RouteInv(n) => RouteInv(k)
    BY <1>2, <2>2, <2>3, <2>4, SentRoute
  <2>10. /\ Bears(n, h, l) => Bears(k, h, l)
         /\ l = c /\ h = w => Bears(k, h, l)
    BY <1>2, <2>2, <2>3, <2>4, SentBears
  <2> QED BY <2>6, <2>7, <2>8, <2>9, <2>10
<1> QED BY <1>1, <1>2

-----------------------------------------------------------------------------
(* The waitingList *)

(* What each part of graspLock and freeLock does to the fields of a lock. *)
LEMMA GraspFields ==
  ASSUME NEW lk \in MiLockRecord, NEW h \in Host
  PROVE /\ TakeLock(lk, h).waitingList = lk.waitingList
        /\ TakeLock(lk, h).waitingListCount = lk.waitingListCount
        /\ TakeLock(lk, h).lasthostid = lk.lasthostid
        /\ PutWaiter(lk, h).waitingList = [lk.waitingList EXCEPT ![lk.waitingListCount] = h]
        /\ PutWaiter(lk, h).waitingListCount = lk.waitingListCount
        /\ PutWaiter(lk, h).lasthostid = lk.lasthostid
        /\ PutWaiter(lk, h).state = lk.state /\ PutWaiter(lk, h).owner = lk.owner
<1>1. /\ TakeLock(lk, h).waitingList = lk.waitingList
      /\ TakeLock(lk, h).waitingListCount = lk.waitingListCount
      /\ TakeLock(lk, h).lasthostid = lk.lasthostid
  BY DEF TakeLock, MiLockRecord
<1>2. ASSUME NEW wl PROVE LET r == [lk EXCEPT !.waitingList = wl]
                          IN /\ r.waitingList = wl /\ r.waitingListCount = lk.waitingListCount
                             /\ r.lasthostid = lk.lasthostid /\ r.state = lk.state /\ r.owner = lk.owner
  BY DEF MiLockRecord
<1> QED BY <1>1, <1>2 DEF PutWaiter

LEMMA CountFields ==
  ASSUME NEW lk \in MiLockRecord
  PROVE /\ CountWaiter(lk).waitingList = lk.waitingList
        /\ CountWaiter(lk).waitingListCount = lk.waitingListCount + 1
        /\ CountWaiter(lk).lasthostid = lk.lasthostid
        /\ CountWaiter(lk).state = lk.state /\ CountWaiter(lk).owner = lk.owner
BY DEF CountWaiter, MiLockRecord

LEMMA SetFreeFields ==
  ASSUME NEW lk \in MiLockRecord, NEW h \in Host
  PROVE /\ SetFree(lk, h).waitingList = lk.waitingList
        /\ SetFree(lk, h).waitingListCount = lk.waitingListCount
        /\ SetFree(lk, h).lasthostid = h
        /\ SetFree(lk, h).state = "FREE" /\ SetFree(lk, h).owner = NoHost
BY DEF SetFree, MiLockRecord

LEMMA ShiftFields ==
  ASSUME NEW lk \in MiLockRecord
  PROVE /\ ShiftWaiters(lk).waitingList =
             [i \in Slot |-> IF i < lk.waitingListCount - 1 /\ i + 1 \in Slot
                             THEN lk.waitingList[i + 1] ELSE lk.waitingList[i]]
        /\ ShiftWaiters(lk).waitingListCount = lk.waitingListCount
        /\ ShiftWaiters(lk).lasthostid = lk.lasthostid
        /\ ShiftWaiters(lk).state = lk.state /\ ShiftWaiters(lk).owner = lk.owner
<1>1. ASSUME NEW wl PROVE LET r == [lk EXCEPT !.waitingList = wl]
                          IN /\ r.waitingList = wl /\ r.waitingListCount = lk.waitingListCount
                             /\ r.lasthostid = lk.lasthostid /\ r.state = lk.state /\ r.owner = lk.owner
  BY DEF MiLockRecord
<1> QED BY <1>1 DEF ShiftWaiters

LEMMA DropFields ==
  ASSUME NEW lk \in MiLockRecord, NEW w \in Host, NEW h \in Host
  PROVE /\ DropWaiter(lk, w, h).waitingList = [lk.waitingList EXCEPT ![lk.waitingListCount - 1] = NoHost]
        /\ DropWaiter(lk, w, h).waitingListCount = lk.waitingListCount - 1
        /\ DropWaiter(lk, w, h).lasthostid = h
        /\ DropWaiter(lk, w, h).state = lk.state /\ DropWaiter(lk, w, h).owner = w
<1>1. ASSUME NEW wl, NEW c
      PROVE LET r == [lk EXCEPT !.waitingList = wl, !.waitingListCount = c, !.owner = w, !.lasthostid = h]
            IN /\ r.waitingList = wl /\ r.waitingListCount = c /\ r.lasthostid = h
               /\ r.state = lk.state /\ r.owner = w
  BY DEF MiLockRecord
<1> QED BY <1>1 DEF DropWaiter

(* The list of a lock has room for one host more: its places hold different *)
(* hosts, and neither the owner nor the newcomer is one of them.            *)
LEMMA Room ==
  ASSUME NEW lk \in MiLockRecord, ListInv(lk), lk.state = "LOCKED",
         Different(lk, lk.waitingListCount), NEW h \in Host, h # lk.owner,
         ~Listed(lk, lk.waitingListCount, h)
  PROVE lk.waitingListCount + 1 \in Slot
<1> DEFINE S == 0 .. lk.waitingListCount
           T == Host \ {lk.owner}
           f == [i \in S |-> IF i < lk.waitingListCount THEN lk.waitingList[i] ELSE h]
<1>1. lk.waitingListCount \in Nat /\ \A i \in S : i \in Slot /\ i \in Int
  BY MaxHostAssumption DEF ListInv, Slot
<1>2. f \in [S -> T]
  BY <1>1 DEF ListInv
<1>3. IsFiniteSet(S) /\ Cardinality(S) = lk.waitingListCount + 1
  BY <1>1, FS_Interval
<1>4. IsFiniteSet(Host) /\ Cardinality(Host) = hostnum
  <2>1. 0 \in Int /\ hostnum - 1 \in Int /\ ~(0 > hostnum - 1)
    BY HostNumAssumption
  <2>2. IsFiniteSet(0 .. (hostnum - 1)) /\ Cardinality(0 .. (hostnum - 1)) = hostnum - 1 - 0 + 1
    BY <2>1, FS_Interval
  <2> QED BY <2>2, HostNumAssumption DEF Host
<1>5. IsFiniteSet(T) /\ Cardinality(T) = hostnum - 1
  BY <1>4, FS_RemoveElement DEF ListInv
<1>6. ~ \E x, y \in S : x # y /\ f[x] = f[y]
  <2>1. ASSUME NEW x \in S, NEW y \in S, x < y PROVE f[x] # f[y]
    <3>1. x < lk.waitingListCount /\ f[x] = lk.waitingList[x]
      BY <1>1, <2>1
    <3>2. CASE y < lk.waitingListCount
      BY <1>1, <2>1, <3>1, <3>2 DEF Different
    <3>3. CASE y = lk.waitingListCount
      BY <1>1, <2>1, <3>1, <3>3 DEF Listed
    <3> QED BY <1>1, <3>2, <3>3
  <2>2. \A x, y \in S : x # y => x < y \/ y < x
    BY <1>1
  <2> HIDE DEF S, f
  <2> QED BY <2>1, <2>2
<1> HIDE DEF S, T, f
<1>7. ~(Cardinality(T) < Cardinality(S))
  BY <1>2, <1>3, <1>5, <1>6, FS_PigeonHole
<1> QED BY <1>1, <1>3, <1>5, <1>7, HostNumAssumption, MaxHostAssumption DEF Slot

(* graspLock writes the newcomer behind the list... *)
LEMMA PutEffect ==
  ASSUME NEW lk \in MiLockRecord, ListInv(lk), lk.state = "LOCKED", NEW h \in Host,
         Different(lk, lk.waitingListCount), ClearFrom(lk, lk.waitingListCount)
  PROVE /\ ListInv(PutWaiter(lk, h)) /\ Different(PutWaiter(lk, h), lk.waitingListCount)
        /\ ClearFrom(PutWaiter(lk, h), lk.waitingListCount + 1)
        /\ PutWaiter(lk, h).waitingListCount = lk.waitingListCount
        /\ PutWaiter(lk, h).waitingList[lk.waitingListCount] = h
        /\ \A g : Listed(PutWaiter(lk, h), lk.waitingListCount, g) <=> Listed(lk, lk.waitingListCount, g)
<1> PICK e : e = lk.waitingListCount
  OBVIOUS
<1> PICK k : k = PutWaiter(lk, h)
  OBVIOUS
<1>0. lk.waitingList \in [Slot -> HostOrNone] /\ e \in Slot /\ Slot \subseteq Int
  BY MaxHostAssumption DEF MiLockRecord, ListInv, Slot
<1>1. /\ k.waitingList = [lk.waitingList EXCEPT ![e] = h] /\ k.waitingListCount = e
      /\ k.state = lk.state /\ k.owner = lk.owner
  BY GraspFields
<1>2. \A i \in Slot : i # e => k.waitingList[i] = lk.waitingList[i]
  BY <1>0, <1>1
<1>3. k.waitingList[e] = h
  BY <1>0, <1>1
<1>4. ListInv(k)
  BY <1>0, <1>1, <1>2 DEF ListInv
<1>5. Different(k, e)
  BY <1>0, <1>2 DEF Different
<1>6. ClearFrom(k, e + 1)
  BY <1>0, <1>2 DEF ClearFrom
<1>7. \A g : Listed(k, e, g) <=> Listed(lk, e, g)
  BY <1>0, <1>2 DEF Listed
<1> QED BY <1>1, <1>3, <1>4, <1>5, <1>6, <1>7

(* ... and counts it. *)
LEMMA CountEffect ==
  ASSUME NEW lk \in MiLockRecord, ListInv(lk), lk.state = "LOCKED",
         Different(lk, lk.waitingListCount), ClearFrom(lk, lk.waitingListCount + 1),
         NEW h \in Host, lk.waitingList[lk.waitingListCount] = h, h # lk.owner,
         ~Listed(lk, lk.waitingListCount, h)
  PROVE /\ ListInv(CountWaiter(lk)) /\ Different(CountWaiter(lk), lk.waitingListCount + 1)
        /\ ClearFrom(CountWaiter(lk), lk.waitingListCount + 1)
        /\ CountWaiter(lk).waitingListCount = lk.waitingListCount + 1
        /\ \A g : Listed(CountWaiter(lk), lk.waitingListCount + 1, g) <=>
                    Listed(lk, lk.waitingListCount, g) \/ g = h
<1> PICK e : e = lk.waitingListCount
  OBVIOUS
<1> PICK k : k = CountWaiter(lk)
  OBVIOUS
<1>0. e \in Slot /\ Slot \subseteq Int
  BY MaxHostAssumption DEF ListInv, Slot
<1>1. e + 1 \in Slot
  BY Room
<1>2. /\ k.waitingList = lk.waitingList /\ k.waitingListCount = e + 1
      /\ k.state = lk.state /\ k.owner = lk.owner
  BY CountFields
<1>3. ListInv(k)
  <2>1. \A i \in Slot : i < e + 1 => k.waitingList[i] \in Host \ {k.owner}
    BY <1>0, <1>2 DEF ListInv
  <2> QED BY <1>1, <1>2, <2>1 DEF ListInv
<1>4. Different(k, e + 1)
  <2> SUFFICES ASSUME NEW i \in Slot, NEW j \in Slot, i < j, j < e + 1
               PROVE lk.waitingList[i] # lk.waitingList[j]
    BY <1>2 DEF Different
  <2>1. CASE j < e
    BY <2>1 DEF Different
  <2>2. CASE j = e
    BY <2>2 DEF Listed
  <2> QED BY <1>0, <2>1, <2>2
<1>5. ClearFrom(k, e + 1)
  BY <1>2 DEF ClearFrom
<1>6. \A g : Listed(k, e + 1, g) <=> Listed(lk, e, g) \/ g = h
  <2> TAKE g
  <2>1. Listed(k, e + 1, g) <=> \E i \in Slot : (i < e \/ i = e) /\ lk.waitingList[i] = g
    BY <1>0, <1>2 DEF Listed
  <2> QED BY <1>0, <2>1 DEF Listed
<1> QED BY <1>2, <1>3, <1>4, <1>5, <1>6

(* freeLock shifts the first waiter out of the list... *)
LEMMA ShiftEffect ==
  ASSUME NEW lk \in MiLockRecord, ListInv(lk), lk.waitingListCount > 0,
         Different(lk, lk.waitingListCount), ClearFrom(lk, lk.waitingListCount)
  PROVE /\ ListInv(ShiftWaiters(lk)) /\ Different(ShiftWaiters(lk), lk.waitingListCount - 1)
        /\ ClearFrom(ShiftWaiters(lk), lk.waitingListCount)
        /\ ShiftWaiters(lk).waitingListCount = lk.waitingListCount
        /\ \A g : Listed(ShiftWaiters(lk), lk.waitingListCount - 1, g) <=>
                    Listed(lk, lk.waitingListCount, g) /\ g # lk.waitingList[0]
<1> PICK e : e = lk.waitingListCount
  OBVIOUS
<1> PICK k : k = ShiftWaiters(lk)
  OBVIOUS
<1>0. e \in Slot /\ Slot \subseteq Int /\ 0 \in Slot /\ \A i \in Slot : i < e => i + 1 \in Slot
  BY Zeros, MaxHostAssumption DEF ListInv, Slot
<1>1. /\ k.waitingList = [i \in Slot |-> IF i < e - 1 /\ i + 1 \in Slot
                                         THEN lk.waitingList[i + 1] ELSE lk.waitingList[i]]
      /\ k.waitingListCount = e /\ k.state = lk.state /\ k.owner = lk.owner
  BY ShiftFields
<1>2. \A i \in Slot : k.waitingList[i] = IF i < e - 1 THEN lk.waitingList[i + 1] ELSE lk.waitingList[i]
  <2> TAKE i \in Slot
  <2>1. i < e - 1 => i + 1 \in Slot
    BY <1>0
  <2>2. k.waitingList[i] = IF i < e - 1 /\ i + 1 \in Slot THEN lk.waitingList[i + 1] ELSE lk.waitingList[i]
    BY <1>1
  <2> QED BY <2>1, <2>2
<1>3. ListInv(k)
  <2>1. ASSUME NEW i \in Slot, i < e PROVE k.waitingList[i] \in Host \ {k.owner}
    <3>1. CASE i < e - 1
      <4>1. i + 1 \in Slot /\ i + 1 < e
        BY <1>0, <3>1
      <4> QED BY <1>1, <1>2, <3>1, <4>1 DEF ListInv
    <3>2. CASE ~(i < e - 1)
      BY <1>1, <1>2, <2>1, <3>2 DEF ListInv
    <3> QED BY <3>1, <3>2
  <2> QED BY <1>1, <2>1 DEF ListInv
<1>4. Different(k, e - 1)
  <2> SUFFICES ASSUME NEW i \in Slot, NEW j \in Slot, i < j, j < e - 1
               PROVE k.waitingList[i] # k.waitingList[j]
    BY DEF Different
  <2>1. i + 1 \in Slot /\ j + 1 \in Slot /\ i + 1 < j + 1 /\ j + 1 < e /\ i < e - 1
    BY <1>0
  <2>2. lk.waitingList[i + 1] # lk.waitingList[j + 1]
    BY <2>1 DEF Different
  <2> QED BY <1>2, <2>1, <2>2
<1>5. ClearFrom(k, e)
  <2> SUFFICES ASSUME NEW i \in Slot, i >= e PROVE k.waitingList[i] = NoHost
    BY DEF ClearFrom
  <2>1. ~(i < e - 1)
    BY <1>0
  <2> QED BY <1>2, <2>1 DEF ClearFrom
<1>6. ASSUME NEW g PROVE Listed(k, e - 1, g) <=> Listed(lk, e, g) /\ g # lk.waitingList[0]
  <2>1. ASSUME Listed(k, e - 1, g) PROVE Listed(lk, e, g) /\ g # lk.waitingList[0]
    <3>1. PICK i \in Slot : i < e - 1 /\ k.waitingList[i] = g
      BY <2>1 DEF Listed
    <3>2. i + 1 \in Slot /\ i + 1 < e /\ 0 < i + 1 /\ lk.waitingList[i + 1] = g
      BY <1>0, <1>2, <3>1 DEF Slot
    <3> QED BY <1>0, <3>2 DEF Listed, Different
  <2>2. ASSUME Listed(lk, e, g), g # lk.waitingList[0] PROVE Listed(k, e - 1, g)
    <3>1. PICK i \in Slot : i < e /\ lk.waitingList[i] = g
      BY <2>2 DEF Listed
    <3>2. i - 1 \in Slot /\ i - 1 < e - 1 /\ (i - 1) + 1 = i
      <4>1. i # 0
        BY <2>2, <3>1
      <4> QED BY <1>0, <3>1, <4>1, MaxHostAssumption DEF Slot
    <3>3. k.waitingList[i - 1] = g
      BY <1>2, <3>1, <3>2
    <3> QED BY <3>2, <3>3 DEF Listed
  <2> QED BY <2>1, <2>2
<1> QED BY <1>1, <1>3, <1>4, <1>5, <1>6

(* ... and drops the place left over, for the new owner w. *)
LEMMA DropEffect ==
  ASSUME NEW lk \in MiLockRecord, ListInv(lk), lk.state = "LOCKED", lk.waitingListCount > 0,
         Different(lk, lk.waitingListCount - 1), ClearFrom(lk, lk.waitingListCount),
         NEW w \in Host, ~Listed(lk, lk.waitingListCount - 1, w), NEW h \in Host
  PROVE /\ ListInv(DropWaiter(lk, w, h)) /\ Different(DropWaiter(lk, w, h), lk.waitingListCount - 1)
        /\ ClearFrom(DropWaiter(lk, w, h), lk.waitingListCount - 1)
        /\ DropWaiter(lk, w, h).waitingListCount = lk.waitingListCount - 1
        /\ \A g : Listed(DropWaiter(lk, w, h), lk.waitingListCount - 1, g) <=>
                    Listed(lk, lk.waitingListCount - 1, g)
<1> PICK e : e = lk.waitingListCount
  OBVIOUS
<1> PICK k : k = DropWaiter(lk, w, h)
  OBVIOUS
<1>0. e \in Slot /\ e - 1 \in Slot /\ Slot \subseteq Int /\ lk.waitingList \in [Slot -> HostOrNone]
  BY MaxHostAssumption DEF ListInv, Slot, MiLockRecord
<1>1. /\ k.waitingList = [lk.waitingList EXCEPT ![e - 1] = NoHost] /\ k.waitingListCount = e - 1
      /\ k.state = "LOCKED" /\ k.owner = w
  BY DropFields
<1>2. \A i \in Slot : k.waitingList[i] = IF i = e - 1 THEN NoHost ELSE lk.waitingList[i]
  BY <1>0, <1>1
<1>3. ListInv(k)
  <2>1. ASSUME NEW i \in Slot, i < e - 1 PROVE k.waitingList[i] \in Host \ {w}
    <3>1. i # e - 1 /\ i < e
      BY <1>0, <2>1
    <3> QED BY <1>2, <2>1, <3>1 DEF ListInv, Listed
  <2> QED BY <1>0, <1>1, <2>1 DEF ListInv
<1>4. Different(k, e - 1)
  <2> SUFFICES ASSUME NEW i \in Slot, NEW j \in Slot, i < j, j < e - 1
               PROVE k.waitingList[i] # k.waitingList[j]
    BY DEF Different
  <2>1. i # e - 1 /\ j # e - 1
    BY <1>0
  <2> QED BY <1>2, <2>1 DEF Different
<1>5. ClearFrom(k, e - 1)
  <2> SUFFICES ASSUME NEW i \in Slot, i >= e - 1 PROVE k.waitingList[i] = NoHost
    BY DEF ClearFrom
  <2>1. i = e - 1 \/ i >= e
    BY <1>0
  <2> QED BY <1>2, <2>1 DEF ClearFrom
<1>6. ASSUME NEW g PROVE Listed(k, e - 1, g) <=> Listed(lk, e - 1, g)
  <2>1. \A i \in Slot : i < e - 1 => k.waitingList[i] = lk.waitingList[i]
    BY <1>0, <1>2
  <2> QED BY <2>1 DEF Listed
<1> QED BY <1>1, <1>3, <1>4, <1>5, <1>6

-----------------------------------------------------------------------------
(* What a step leaves as it was *)

(* A request that stays where it is. *)
LEMMA RequestFrame ==
  ASSUME NEW h \in Host, NEW l \in Lock, RequestInv(h, l),
         Asks(h, l)' <=> Asks(h, l), Picked(h, l)' <=> Picked(h, l),
         Asked(net', h, l) <=> Asked(net, h, l), Granted(net', h, l) <=> Granted(net, h, l),
         Listed(locks'[l], Length(l)', h) <=> Listed(locks[l], Length(l), h),
         HasOnce(net', h, Manager(l), "ACQ_LOCK", l),
         Own(h, l)' => AfterRelease(net', h, l)
  PROVE RequestInv(h, l)'
BY DEF RequestInv, Exclusive

(* The manager's thread does not touch the list of l. *)
LEMMA ListFrame ==
  ASSUME NEW l \in Lock, locks'[l] = locks[l], Shifted(l)' <=> Shifted(l), QueueInv(l),
         ~(pc'[Manager(l)] = "graspCount" /\ cur'[Manager(l)] = l) =>
           ~(pc[Manager(l)] = "graspCount" /\ cur[Manager(l)] = l)
  PROVE Length(l)' = Length(l) /\ QueueInv(l)'
<1>1. Length(l)' = Length(l)
  BY DEF Length
<1> QED BY <1>1 DEF QueueInv

(* A step of h's thread leaves the other threads of managers alone. *)
LEMMA OtherManager ==
  ASSUME NEW h \in Host, OnlyAt(h), NEW l \in Lock, Manager(l) # h
  PROVE /\ Shifted(l)' <=> Shifted(l)
        /\ \A g : Picked(g, l)' <=> Picked(g, l)
        /\ (pc'[Manager(l)] = "graspCount" /\ cur'[Manager(l)] = l) <=>
             (pc[Manager(l)] = "graspCount" /\ cur[Manager(l)] = l)
<1>1. Manager(l) \in Host \ {h}
  BY ManagerIsHost
<1>2. pc'[Manager(l)] = pc[Manager(l)] /\ cur'[Manager(l)] = cur[Manager(l)]
      /\ result'[Manager(l)] = result[Manager(l)]
  BY <1>1 DEF OnlyAt
<1> QED BY <1>2 DEF Shifted, Picked, Popped

(* A step of h's thread outside of the lists and the channels. *)
LEMMA QuietRequests ==
  ASSUME WaitInv, NEW h \in Host, OnlyAt(h), UNCHANGED <<locks, net>>,
         pc[h] \notin {"freeClear", "grant", "graspCount"},
         pc'[h] \notin {"freeClear", "grant"},
         \A g \in Host, l \in Lock : Asks(g, l)' <=> Asks(g, l)
  PROVE /\ \A g \in Host, l \in Lock : RequestInv(g, l)'
        /\ \A l \in Lock : QueueInv(l)' /\ GrantsKnow(net', l, locks'[l].lasthostid)
        /\ RouteInv(net')
<1>1. ASSUME NEW l \in Lock PROVE /\ QueueInv(l)' /\ Length(l)' = Length(l)
                                  /\ \A g : Picked(g, l)' <=> Picked(g, l)
  <2>1. /\ Shifted(l)' <=> Shifted(l)
        /\ \A g : Picked(g, l)' <=> Picked(g, l)
        /\ ~(pc'[Manager(l)] = "graspCount" /\ cur'[Manager(l)] = l) =>
             ~(pc[Manager(l)] = "graspCount" /\ cur[Manager(l)] = l)
    <3>1. CASE Manager(l) = h
      BY <3>1 DEF Shifted, Picked, Popped
    <3>2. CASE Manager(l) # h
      BY <3>2, OtherManager
    <3> QED BY <3>1, <3>2
  <2>2. QueueInv(l)
    BY DEF WaitInv
  <2> QED BY <2>1, <2>2, ListFrame
<1>2. ASSUME NEW g \in Host, NEW l \in Lock PROVE RequestInv(g, l)'
  <2>1. RequestInv(g, l)
    BY DEF WaitInv
  <2>2. HasOnce(net', g, Manager(l), "ACQ_LOCK", l) /\ (Own(g, l)' => AfterRelease(net', g, l))
    BY <2>1 DEF RequestInv, Own
  <2> QED BY <1>1, <2>1, <2>2, RequestFrame
<1> QED BY <1>1, <1>2 DEF WaitInv

(* The right to l stays where it is... *)
LEMMA RightFrame ==
  ASSUME NEW l \in Lock, RightInv(l), \A g \in Host : Own(g, l)' => Own(g, l),
         \A g \in Host : Bears(net, g, l) => Bears(net', g, l),
         \A g \in Host : myLocks[g][l] = 1 => myLocks'[g][l] = 1,
         \A g \in Host : Busy(g, l) => Busy(g, l)' /\ BusyFor(g)' = BusyFor(g)
  PROVE RightInv(l)'
BY DEF RightInv

(* ... or goes to where its owner has it. *)
LEMMA RightHere ==
  ASSUME NEW l \in Lock, NEW o \in Host, Own(o, l)',
         \/ myLocks'[o][l] = 1
         \/ Bears(net', o, l)
         \/ \E g \in Host : Busy(g, l)' /\ BusyFor(g)' = o
  PROVE RightInv(l)'
<1> SUFFICES ASSUME NEW h \in Host, Own(h, l)' PROVE h = o
  BY DEF RightInv
<1> QED BY DEF Own

(* The threads that h's step does not move: what they have read of a lock   *)
(* is theirs to change.                                                     *)
LEMMA OtherThreads ==
  ASSUME WaitInv, ThreadsPlaced, NEW h \in Host, OnlyAt(h),
         \A l \in Lock : Manager(l) # h => locks'[l] = locks[l],
         cur \in [Host -> Lock],
         \A g \in Host \ {h} : /\ waitFlag'[g] = waitFlag[g] /\ myLocks'[g] = myLocks[g]
                               /\ lasthostid'[g] = lasthostid[g],
         \A g \in Host \ {h} :
           pc[g] \in {"fetchGrasp", "fetchWake"} \/ (pc[g] = "lockWait" /\ waitFlag[g] = 0) =>
             locks'[cur[g]].lasthostid = locks[cur[g]].lasthostid
  PROVE \A g \in Host \ {h} : ThreadInv(g)'
<1> SUFFICES ASSUME NEW g \in Host \ {h} PROVE ThreadInv(g)'
  OBVIOUS
<1>1. /\ pc'[g] = pc[g] /\ cur'[g] = cur[g] /\ result'[g] = result[g]
      /\ waitFlag'[g] = waitFlag[g] /\ myLocks'[g] = myLocks[g] /\ lasthostid'[g] = lasthostid[g]
      /\ cur[g] \in Lock
  BY DEF OnlyAt
<1>2. ThreadInv(g)
  BY DEF WaitInv
<1>3. ReadInv(g, pc[g], result[g], locks'[cur[g]])
  <2>1. pc[g] \in AtManager => Manager(cur[g]) # h
    BY DEF ThreadsPlaced, HostPlaced
  <2>2. pc[g] \in AtManager => locks'[cur[g]] = locks[cur[g]]
    BY <1>1, <2>1
  <2>3. ReadInv(g, pc[g], result[g], locks[cur[g]])
    BY <1>2 DEF ThreadInv
  <2>4. CASE pc[g] \in AtManager
    BY <2>2, <2>3, <2>4
  <2>5. CASE pc[g] \notin AtManager
    BY <2>5 DEF ReadInv, AtManager
  <2> QED BY <2>4, <2>5
<1>4. WokenKnows(g, pc[g], cur[g], result[g], waitFlag[g], lasthostid[g], locks'[cur[g]].lasthostid)
  <2>1. WokenKnows(g, pc[g], cur[g], result[g], waitFlag[g], lasthostid[g], locks[cur[g]].lasthostid)
    BY <1>2 DEF ThreadInv
  <2> QED BY <2>1 DEF WokenKnows
<1>5. LoopInv(pc[g], waitFlag[g], myLocks[g][cur[g]])
  BY <1>2 DEF ThreadInv
<1> QED BY <1>1, <1>3, <1>4, <1>5 DEF ThreadInv

(* Where SIGIO is open, the manager's thread is not at a race point. *)
LEMMA NotRacing ==
  ASSUME RaceFree, TypeInv, ThreadsPlaced, NEW h \in Host, Interruptible(h)
  PROVE pc[h] \notin RacePoints
<1>1. ASSUME pc[h] \in RacePoints PROVE FALSE
  <2>1. Manager(cur[h]) = h /\ h \in Users[cur[h]] /\ cur[h] \in Lock
    BY <1>1 DEF RacePoints, Stores, AtManager, ThreadsPlaced, HostPlaced, TypeInv, TypeOK
  <2>2. SigioPoints # {}
    BY <1>1 DEF Interruptible
  <2> QED BY <2>1, <2>2 DEF RaceFree
<1> QED BY <1>1

(* While the right to l is with nobody who holds l or takes it, no thread    *)
(* has been told who released it last.                                      *)
LEMMA NobodyTold ==
  ASSUME WaitInv, TypeInv, NEW l \in Lock, NoneHeld(l), NEW g \in Host, cur[g] = l
  PROVE pc[g] # "fetchWake" /\ ~(pc[g] = "lockWait" /\ waitFlag[g] = 0)
<1>1. LoopInv(pc[g], waitFlag[g], myLocks[g][cur[g]])
  BY DEF WaitInv, ThreadInv
<1>2. myLocks[g][cur[g]] # 1 /\ myLocks[g][cur[g]] \in {0, 1} /\ waitFlag[g] \in {0, 1}
  BY DEF NoneHeld, TypeInv, TypeOK
<1> QED BY <1>1, <1>2 DEF LoopInv

-----------------------------------------------------------------------------
(* The steps inside mi_lock and mi_unlock that move no request *)

(* A new thread state for h, from the three parts. *)
LEMMA Assemble ==
  ASSUME NEW h \in Host, \A g \in Host \ {h} : ThreadInv(g)', ThreadInv(h)',
         \A g \in Host, l \in Lock : RequestInv(g, l)',
         \A l \in Lock : QueueInv(l)' /\ GrantsKnow(net', l, locks'[l].lasthostid),
         \A l \in Lock : RightInv(l)', RouteInv(net')
  PROVE WaitInv'
BY DEF WaitInv

LEMMA WaitLockLocal ==
  ASSUME LockInv, WaitInv, NEW h \in Host, NEW l \in Lock, LockLocal(h, l)
  PROVE WaitInv'
<1> USE DEF LockInv, PlaceInv
<1>t. /\ locks \in [Lock -> MiLockRecord] /\ pc \in [Host -> Points] /\ cur \in [Host -> Lock]
      /\ myLocks \in [Host -> [Lock -> {0, 1}]] /\ waitFlag \in [Host -> {0, 1}]
  BY DEF TypeInv, TypeOK
<1>1. PICK r : r = GraspResult(locks[l], h)
  OBVIOUS
<1>2. /\ pc[h] = "app" /\ Manager(l) = h
      /\ cur' = [cur EXCEPT ![h] = l]
      /\ pc' = [pc EXCEPT ![h] = IF r >= -1 THEN "graspSet" ELSE IF r = -3 THEN "graspPut" ELSE "app"]
      /\ UNCHANGED <<locks, myLocks, waitFlag, lasthostid, result, net>>
  BY <1>1 DEF LockLocal, MayAsk
<1>3. myLocks[h][l] = 0
  <2>1. myLocks[h][l] = 1 => l < l
    BY DEF LockLocal, MayAsk
  <2>2. ~(l < l)
    BY DEF Lock
  <2> QED BY <1>t, <2>1, <2>2
<1>4. OnlyAt(h) /\ pc'[h] \in {"graspSet", "graspPut", "app"} /\ cur'[h] = l
  BY <1>t, <1>2 DEF OnlyAt
<1>5. \A g \in Host, k \in Lock : Asks(g, k)' <=> Asks(g, k)
  BY <1>2, <1>4 DEF Asks, OnlyAt
<1>6. /\ \A g \in Host, k \in Lock : RequestInv(g, k)'
      /\ \A k \in Lock : QueueInv(k)' /\ GrantsKnow(net', k, locks'[k].lasthostid)
      /\ RouteInv(net')
  BY <1>2, <1>4, <1>5, QuietRequests
<1>7. ASSUME NEW k \in Lock PROVE RightInv(k)'
  <2>1. \A g \in Host : Busy(g, k) => Busy(g, k)' /\ BusyFor(g)' = BusyFor(g)
    BY <1>2, <1>4 DEF Busy, BusyFor, OnlyAt
  <2>2. RightInv(k)
    BY DEF WaitInv
  <2> QED BY <1>2, <2>1, <2>2, RightFrame DEF Own
<1>8. \A g \in Host \ {h} : ThreadInv(g)'
  BY <1>t, <1>2, <1>4, OtherThreads
<1>9. ThreadInv(h)'
  <2>1. waitFlag[h] # 1
    BY <1>2 DEF WaitInv, ThreadInv, LoopInv
  <2>2. pc'[h] = "graspPut" => locks[l].state = "LOCKED" /\ locks[l].owner # h
    <3>1. pc'[h] = "graspPut" => r = -3
      BY <1>t, <1>2
    <3>2. locks[l].lasthostid >= -1 /\ locks[l].lasthostid \in Int /\ locks[l].state \in {"FREE", "LOCKED"}
      BY <1>t, Zeros DEF MiLockRecord, HostOrNone, Host, NoHost
    <3>3. locks[l].lasthostid # -3
      BY <3>2
    <3> QED BY <1>1, <3>1, <3>2, <3>3 DEF GraspResult
  <2>3. ReadInv(h, pc'[h], result'[h], locks'[cur'[h]])
    BY <1>2, <1>4, <2>2 DEF ReadInv
  <2>4. LoopInv(pc'[h], waitFlag'[h], myLocks'[h][cur'[h]])
    BY <1>2, <1>3, <1>4, <2>1 DEF LoopInv
  <2>5. WokenKnows(h, pc'[h], cur'[h], result'[h], waitFlag'[h], lasthostid'[h], locks'[cur'[h]].lasthostid)
    BY <1>4 DEF WokenKnows
  <2> QED BY <2>3, <2>4, <2>5 DEF ThreadInv
<1> QED BY <1>6, <1>7, <1>8, <1>9, Assemble

(* waitFlag is raised, or the loop on it ends. *)
LEMMA WaitSpin ==
  ASSUME LockInv, WaitInv, NEW h \in Host, SetWait(h) \/ Wake(h)
  PROVE WaitInv'
<1> USE DEF LockInv, PlaceInv
<1>t. /\ locks \in [Lock -> MiLockRecord] /\ pc \in [Host -> Points] /\ cur \in [Host -> Lock]
      /\ myLocks \in [Host -> [Lock -> {0, 1}]] /\ waitFlag \in [Host -> {0, 1}]
  BY DEF TypeInv, TypeOK
<1>2. /\ UNCHANGED <<locks, myLocks, lasthostid, cur, result, net>>
      /\ OnlyAt(h)
      /\ \A g \in Host \ {h} : waitFlag'[g] = waitFlag[g]
      /\ \/ pc[h] = "setWait" /\ pc'[h] = "lockWait" /\ waitFlag'[h] = 1
         \/ pc[h] = "lockWait" /\ waitFlag[h] = 0 /\ pc'[h] = "fetchWake" /\ waitFlag'[h] = 0
  BY <1>t DEF SetWait, Wake, OnlyAt
<1>3. LoopInv(pc[h], waitFlag[h], myLocks[h][cur[h]]) /\ cur[h] \in Lock
  BY <1>t DEF WaitInv, ThreadInv
<1>4. pc[h] = "setWait" => myLocks[h][cur[h]] = 0
  BY <1>3 DEF LoopInv
<1>5. pc[h] = "lockWait" /\ waitFlag[h] = 0 => myLocks[h][cur[h]] = 1
  BY <1>3, <1>t DEF LoopInv
<1>6. \A g \in Host, k \in Lock : Asks(g, k)' <=> Asks(g, k)
  <2> TAKE g \in Host, k \in Lock
  <2>1. CASE g = h
    BY <1>2, <1>5, <2>1 DEF Asks
  <2>2. CASE g # h
    BY <1>2, <2>2 DEF Asks, OnlyAt
  <2> QED BY <2>1, <2>2
<1>7. /\ \A g \in Host, k \in Lock : RequestInv(g, k)'
      /\ \A k \in Lock : QueueInv(k)' /\ GrantsKnow(net', k, locks'[k].lasthostid)
      /\ RouteInv(net')
  BY <1>2, <1>6, QuietRequests
<1>8. ASSUME NEW k \in Lock PROVE RightInv(k)'
  <2>1. \A g \in Host : Busy(g, k) => Busy(g, k)' /\ BusyFor(g)' = BusyFor(g)
    BY <1>2 DEF Busy, BusyFor, OnlyAt
  <2>2. RightInv(k)
    BY DEF WaitInv
  <2> QED BY <1>2, <2>1, <2>2, RightFrame DEF Own
<1>9. \A g \in Host \ {h} : ThreadInv(g)'
  BY <1>t, <1>2, OtherThreads
<1>10. ThreadInv(h)'
  <2>1. ReadInv(h, pc'[h], result'[h], locks'[cur'[h]])
    BY <1>2 DEF ReadInv
  <2>2. LoopInv(pc'[h], waitFlag'[h], myLocks'[h][cur'[h]])
    BY <1>2, <1>4, <1>5 DEF LoopInv
  <2>3. WokenKnows(h, pc[h], cur[h], result[h], waitFlag[h], lasthostid[h], locks[cur[h]].lasthostid)
    BY DEF WaitInv, ThreadInv
  <2>4. WokenKnows(h, pc'[h], cur'[h], result'[h], waitFlag'[h], lasthostid'[h], locks'[cur'[h]].lasthostid)
    BY <1>2, <2>3 DEF WokenKnows
  <2> QED BY <2>1, <2>2, <2>4 DEF ThreadInv
<1> QED BY <1>7, <1>8, <1>9, <1>10, Assemble

(* mi_lock returns. *)
LEMMA WaitAcquired ==
  ASSUME LockInv, WaitInv, NEW h \in Host, AcquiredAfterWait(h) \/ AcquiredAtOnce(h)
  PROVE WaitInv'
<1> USE DEF LockInv, PlaceInv
<1>t. /\ locks \in [Lock -> MiLockRecord] /\ pc \in [Host -> Points] /\ cur \in [Host -> Lock]
      /\ myLocks \in [Host -> [Lock -> {0, 1}]] /\ waitFlag \in [Host -> {0, 1}]
      /\ lasthostid \in [Host -> HostOrNone]
      /\ result \in [Host -> HostOrNone \cup {-5, -4, -3, 0}]
  BY DEF TypeInv, TypeOK
<1>2. /\ UNCHANGED <<locks, waitFlag, net>> /\ OnlyAt(h) /\ pc'[h] = "app"
      /\ \A g \in Host \ {h} : lasthostid'[g] = lasthostid[g]
      /\ \A g \in Host \ {h} : myLocks'[g] = myLocks[g]
      /\ pc[h] \in {"fetchWake", "fetchGrasp"}
  BY <1>t DEF AcquiredAfterWait, AcquiredAtOnce, Idle, OnlyAt
<1>3. \A g \in Host, k \in Lock : myLocks[g][k] = 1 => myLocks'[g][k] = 1
  BY <1>t DEF AcquiredAfterWait, AcquiredAtOnce
<1>4. pc[h] = "fetchGrasp" => myLocks'[h][cur[h]] = 1
  BY <1>t DEF AcquiredAfterWait, AcquiredAtOnce
<1>5. \A g \in Host, k \in Lock : Asks(g, k)' <=> Asks(g, k)
  <2> TAKE g \in Host, k \in Lock
  <2>1. CASE g = h
    BY <1>2, <2>1 DEF Asks
  <2>2. CASE g # h
    BY <1>2, <2>2 DEF Asks, OnlyAt
  <2> QED BY <2>1, <2>2
<1>6. /\ \A g \in Host, k \in Lock : RequestInv(g, k)'
      /\ \A k \in Lock : QueueInv(k)' /\ GrantsKnow(net', k, locks'[k].lasthostid)
      /\ RouteInv(net')
  BY <1>2, <1>5, QuietRequests
<1>7. ASSUME NEW k \in Lock PROVE RightInv(k)'
  <2>1. CASE Busy(h, k)
    <3>1. pc[h] = "fetchGrasp" /\ cur[h] = k
      BY <1>2, <2>1 DEF Busy
    <3>2. Own(h, k)
      BY <2>1, <3>1 DEF OwnerInv, BusyFor
    <3> QED BY <1>2, <1>4, <3>1, <3>2, RightHere DEF Own
  <2>2. CASE ~Busy(h, k)
    <3>1. \A g \in Host : Busy(g, k) => Busy(g, k)' /\ BusyFor(g)' = BusyFor(g)
      BY <1>2, <2>2 DEF Busy, BusyFor, OnlyAt
    <3>2. RightInv(k)
      BY DEF WaitInv
    <3> QED BY <1>2, <1>3, <3>1, <3>2, RightFrame DEF Own
  <2> QED BY <2>1, <2>2
<1>8. \A g \in Host \ {h} : ThreadInv(g)'
  BY <1>t, <1>2, OtherThreads
<1>9. ThreadInv(h)'
  <2>1. waitFlag[h] # 1
    BY <1>2 DEF WaitInv, ThreadInv, LoopInv
  <2>2. ReadInv(h, pc'[h], result'[h], locks'[cur'[h]])
    BY <1>2 DEF ReadInv
  <2>3. LoopInv(pc'[h], waitFlag'[h], myLocks'[h][cur'[h]])
    BY <1>2, <2>1 DEF LoopInv
  <2>4. WokenKnows(h, pc'[h], cur'[h], result'[h], waitFlag'[h], lasthostid'[h], locks'[cur'[h]].lasthostid)
    BY <1>2 DEF WokenKnows
  <2> QED BY <2>2, <2>3, <2>4 DEF ThreadInv
<1> QED BY <1>6, <1>7, <1>8, <1>9, Assemble

(* What freeLock finds when the host that has l releases it. *)
LEMMA FreeTested ==
  ASSUME LockInv, WaitInv, NEW h \in Host, NEW l \in Lock, myLocks[h][l] = 1,
         NEW r, r = FreeResult(locks[l], h)
  PROVE /\ Own(h, l) /\ r \notin {-3, -4} /\ (r \in Host => r # -5)
        /\ \/ r = -5 /\ locks[l].waitingListCount = 0
           \/ r = locks[l].waitingList[0] /\ r \in Host \ {h} /\ locks[l].waitingListCount > 0
<1>1. Own(h, l)
  BY DEF LockInv, OwnerInv
<1>2. ListInv(locks[l])
  BY DEF WaitInv, QueueInv
<1>3. locks[l].waitingListCount \in Nat /\ 0 \in Slot
  BY <1>2, Zeros DEF ListInv, Slot
<1>4. locks[l].waitingListCount # 0 =>
        locks[l].waitingList[0] \in Host \ {h} /\ locks[l].waitingListCount > 0
  BY <1>1, <1>2, <1>3 DEF ListInv, Own
<1>5. \/ r = -5 /\ locks[l].waitingListCount = 0
      \/ r = locks[l].waitingList[0] /\ r \in Host \ {h} /\ locks[l].waitingListCount > 0
  BY <1>1, <1>4 DEF FreeResult, Own
<1> QED BY <1>1, <1>5 DEF Host

(* mi_unlock at the manager: freeLock reads the first waiter. *)
LEMMA WaitUnlockLocal ==
  ASSUME LockInv, WaitInv, NEW h \in Host, NEW l \in Lock, UnlockLocal(h, l)
  PROVE WaitInv'
<1> USE DEF LockInv, PlaceInv
<1>t. /\ locks \in [Lock -> MiLockRecord] /\ pc \in [Host -> Points] /\ cur \in [Host -> Lock]
      /\ myLocks \in [Host -> [Lock -> {0, 1}]] /\ waitFlag \in [Host -> {0, 1}]
      /\ result \in [Host -> HostOrNone \cup {-5, -4, -3, 0}]
  BY DEF TypeInv, TypeOK
<1>1. PICK r : r = FreeResult(locks[l], h)
  OBVIOUS
<1>2. /\ pc[h] = "app" /\ Manager(l) = h /\ myLocks[h][l] = 1
      /\ cur' = [cur EXCEPT ![h] = l] /\ result' = [result EXCEPT ![h] = r]
      /\ myLocks' = [myLocks EXCEPT ![h][l] = 0]
      /\ pc' = [pc EXCEPT ![h] = IF r \in {-3, -4} THEN "grant"
                               ELSE IF r = -5 THEN "freeSet" ELSE "freeShift"]
      /\ UNCHANGED <<locks, waitFlag, lasthostid, net>>
  BY <1>1 DEF UnlockLocal
<1>3. /\ Own(h, l) /\ r \notin {-3, -4} /\ (r \in Host => r # -5)
      /\ \/ r = -5 /\ locks[l].waitingListCount = 0
         \/ r = locks[l].waitingList[0] /\ r \in Host \ {h} /\ locks[l].waitingListCount > 0
  BY <1>1, <1>2, FreeTested
<1>6. OnlyAt(h) /\ pc'[h] = (IF r = -5 THEN "freeSet" ELSE "freeShift") /\ cur'[h] = l /\ result'[h] = r
  BY <1>t, <1>2, <1>3 DEF OnlyAt
<1>7. \A g \in Host, k \in Lock : Asks(g, k)' <=> Asks(g, k)
  <2> TAKE g \in Host, k \in Lock
  <2>1. CASE g = h
    BY <1>2, <1>6, <2>1 DEF Asks
  <2>2. CASE g # h
    <3>1. myLocks'[g] = myLocks[g]
      BY <1>t, <1>2, <2>2
    <3> QED BY <1>6, <2>2, <3>1 DEF Asks, OnlyAt
  <2> QED BY <2>1, <2>2
<1>8. /\ \A g \in Host, k \in Lock : RequestInv(g, k)'
      /\ \A k \in Lock : QueueInv(k)' /\ GrantsKnow(net', k, locks'[k].lasthostid)
      /\ RouteInv(net')
  BY <1>2, <1>6, <1>7, QuietRequests
<1>9. ASSUME NEW k \in Lock PROVE RightInv(k)'
  <2>1. CASE k = l
    <3>1. Busy(h, k)' /\ BusyFor(h)' = h /\ Own(h, k)'
      BY <1>2, <1>3, <1>6, <2>1 DEF Busy, BusyFor, Own
    <3> QED BY <3>1, RightHere
  <2>2. CASE k # l
    <3>1. \A g \in Host : Busy(g, k) => Busy(g, k)' /\ BusyFor(g)' = BusyFor(g)
      BY <1>2, <1>6 DEF Busy, BusyFor, OnlyAt
    <3>2. \A g \in Host : myLocks'[g][k] = myLocks[g][k]
      BY <1>t, <1>2, <2>2
    <3>3. RightInv(k)
      BY DEF WaitInv
    <3> QED BY <1>2, <3>1, <3>2, <3>3, RightFrame DEF Own
  <2> QED BY <2>1, <2>2
<1>10. \A g \in Host \ {h} : ThreadInv(g)'
  <2>1. \A g \in Host \ {h} : myLocks'[g] = myLocks[g]
    BY <1>t, <1>2
  <2> QED BY <1>t, <1>2, <1>6, <2>1, OtherThreads
<1>11. ThreadInv(h)'
  <2>1. waitFlag[h] # 1
    BY <1>2 DEF WaitInv, ThreadInv, LoopInv
  <2>2. ReadInv(h, pc'[h], result'[h], locks'[cur'[h]])
    BY <1>2, <1>3, <1>6 DEF ReadInv
  <2>3. LoopInv(pc'[h], waitFlag'[h], myLocks'[h][cur'[h]])
    BY <1>t, <1>2, <1>6, <2>1 DEF LoopInv
  <2>4. WokenKnows(h, pc'[h], cur'[h], result'[h], waitFlag'[h], lasthostid'[h], locks'[cur'[h]].lasthostid)
    BY <1>6 DEF WokenKnows
  <2> QED BY <2>2, <2>3, <2>4 DEF ThreadInv
<1> QED BY <1>8, <1>9, <1>10, <1>11, Assemble

-----------------------------------------------------------------------------
(* The steps of graspLock and freeLock in the manager's thread *)

(* A step of h's thread that rewrites lock c, of which h is the manager:     *)
(* what is left to show of it.                                              *)
LEMMA ListStep ==
  ASSUME LockInv, WaitInv, NEW h \in Host, NEW c \in Lock, cur[h] = c, Manager(c) = h,
         NEW k, locks' = [locks EXCEPT ![c] = k], OnlyAt(h),
         UNCHANGED <<myLocks, waitFlag, lasthostid, cur, net>>,
         k.lasthostid = locks[c].lasthostid \/ (NoneHeld(c) /\ NoneBorne(net, c)),
         \A g \in Host : RequestInv(g, c)', QueueInv(c)', RightInv(c)', ThreadInv(h)'
  PROVE WaitInv'
<1> USE DEF LockInv, PlaceInv
<1>t. /\ locks \in [Lock -> MiLockRecord] /\ cur \in [Host -> Lock] /\ net \in Nets
  BY DEF TypeInv, TypeOK, Nets
<1>1. locks'[c] = k /\ \A l \in Lock : l # c => locks'[l] = locks[l]
  BY <1>t
<1>2. ASSUME NEW l \in Lock, l # c
      PROVE /\ QueueInv(l)' /\ RightInv(l)' /\ GrantsKnow(net', l, locks'[l].lasthostid)
            /\ \A g \in Host : RequestInv(g, l)'
  <2>1. /\ Shifted(l)' <=> Shifted(l)
        /\ \A g : Picked(g, l)' <=> Picked(g, l)
        /\ (pc'[Manager(l)] = "graspCount" /\ cur'[Manager(l)] = l) <=>
             (pc[Manager(l)] = "graspCount" /\ cur[Manager(l)] = l)
    <3>1. CASE Manager(l) = h
      BY <1>2, <3>1 DEF Shifted, Picked, Popped
    <3>2. CASE Manager(l) # h
      BY <3>2, OtherManager
    <3> QED BY <3>1, <3>2
  <2>2. locks'[l] = locks[l] /\ QueueInv(l) /\ RightInv(l)
    BY <1>1, <1>2 DEF WaitInv
  <2>3. Length(l)' = Length(l) /\ QueueInv(l)'
    BY <2>1, <2>2, ListFrame
  <2>4. \A g \in Host : Asks(g, l)' <=> Asks(g, l)
    BY <1>2 DEF Asks, OnlyAt
  <2>5. ASSUME NEW g \in Host PROVE RequestInv(g, l)'
    <3>1. RequestInv(g, l)
      BY DEF WaitInv
    <3>2. HasOnce(net', g, Manager(l), "ACQ_LOCK", l) /\ (Own(g, l)' => AfterRelease(net', g, l))
      BY <2>2, <3>1 DEF RequestInv, Own
    <3> QED BY <2>1, <2>2, <2>3, <2>4, <3>1, <3>2, RequestFrame
  <2>6. \A g \in Host : Busy(g, l) => Busy(g, l)' /\ BusyFor(g)' = BusyFor(g)
    BY <1>2 DEF Busy, BusyFor, OnlyAt
  <2>7. RightInv(l)'
    BY <2>2, <2>6, RightFrame DEF Own
  <2>8. GrantsKnow(net', l, locks'[l].lasthostid)
    BY <2>2 DEF WaitInv
  <2> QED BY <2>3, <2>5, <2>7, <2>8
<1>3. GrantsKnow(net', c, locks'[c].lasthostid)
  <2>1. CASE k.lasthostid = locks[c].lasthostid
    BY <1>1, <2>1 DEF WaitInv
  <2>2. CASE NoneBorne(net, c)
    <3> SUFFICES ASSUME NEW g \in Host, NEW i \in Nat, MsgAt(net, Manager(c), g, "GRANT_LOCK", c, i)
                 PROVE FALSE
      BY DEF GrantsKnow
    <3>1. Carries(net, Manager(c), g, i, c) /\ Bearer(Manager(c), g, net[Manager(c)][g][i]) = g
      BY DEF MsgAt, Carries, Token, Bearer
    <3>2. Bears(net, g, c)
      BY <3>1, ManagerIsHost DEF Bears
    <3> QED BY <2>2, <3>2 DEF NoneBorne
  <2> QED BY <2>1, <2>2
<1>4. \A g \in Host \ {h} : ThreadInv(g)'
  <2>1. ASSUME NEW g \in Host \ {h},
               pc[g] \in {"fetchGrasp", "fetchWake"} \/ (pc[g] = "lockWait" /\ waitFlag[g] = 0)
        PROVE locks'[cur[g]].lasthostid = locks[cur[g]].lasthostid
    <3>1. CASE cur[g] # c
      BY <1>t, <1>1, <3>1
    <3>2. CASE cur[g] = c /\ k.lasthostid = locks[c].lasthostid
      BY <1>1, <3>2
    <3>3. CASE cur[g] = c /\ NoneHeld(c)
      <4>1. pc[g] # "fetchWake" /\ ~(pc[g] = "lockWait" /\ waitFlag[g] = 0)
        BY <3>3, NobodyTold
      <4>2. pc[g] # "fetchGrasp"
        BY <3>3 DEF ThreadsPlaced, HostPlaced, AtManager
      <4> QED BY <2>1, <4>1, <4>2
    <3> QED BY <3>1, <3>2, <3>3
  <2>2. \A l \in Lock : Manager(l) # h => locks'[l] = locks[l]
    BY <1>1
  <2> QED BY <1>t, <2>1, <2>2, OtherThreads
<1>5. \A l \in Lock : /\ QueueInv(l)' /\ RightInv(l)' /\ GrantsKnow(net', l, locks'[l].lasthostid)
                      /\ \A g \in Host : RequestInv(g, l)'
  BY <1>2, <1>3
<1>6. RouteInv(net')
  BY DEF WaitInv
<1> QED BY <1>4, <1>5, <1>6, Assemble

(* What holds of the lock that the manager's thread is busy with. *)
LEMMA AtOwnLock ==
  ASSUME LockInv, WaitInv, NEW h \in Host, pc[h] \in AtManager, NEW c, c = cur[h]
  PROVE /\ c \in Lock /\ Manager(c) = h /\ locks[c] \in MiLockRecord
        /\ ListInv(locks[c]) /\ Different(locks[c], Length(c))
        /\ pc[h] # "freeClear" => Length(c) = locks[c].waitingListCount
        /\ pc[h] = "freeClear" => Length(c) = locks[c].waitingListCount - 1
        /\ pc[h] # "graspCount" => ClearFrom(locks[c], locks[c].waitingListCount)
        /\ ReadInv(h, pc[h], result[h], locks[c])
        /\ LoopInv(pc[h], waitFlag[h], myLocks[h][c])
        /\ OwnerInv(c) /\ RightInv(c)
        /\ \A g \in Host : RequestInv(g, c)
<1> USE DEF LockInv, PlaceInv
<1>1. c \in Lock /\ Manager(c) = h /\ locks[c] \in MiLockRecord
  BY DEF ThreadsPlaced, HostPlaced, TypeInv, TypeOK
<1>2. QueueInv(c) /\ RightInv(c) /\ ThreadInv(h) /\ OwnerInv(c) /\ \A g \in Host : RequestInv(g, c)
  BY <1>1 DEF WaitInv
<1>3. /\ pc[h] # "freeClear" => Length(c) = locks[c].waitingListCount
      /\ pc[h] = "freeClear" => Length(c) = locks[c].waitingListCount - 1
  <2>1. locks[c].waitingListCount \in Int
    BY <1>1 DEF MiLockRecord
  <2> QED BY <1>1, <2>1 DEF Length, Shifted
<1> QED BY <1>1, <1>2, <1>3 DEF QueueInv, ThreadInv

(* graspLock takes the lock. *)
LEMMA WaitGraspSet ==
  ASSUME LockInv, WaitInv, NEW h \in Host, GraspSet(h)
  PROVE WaitInv'
<1>t. /\ locks \in [Lock -> MiLockRecord] /\ pc \in [Host -> Points] /\ cur \in [Host -> Lock]
      /\ result \in [Host -> HostOrNone \cup {-5, -4, -3, 0}]
  BY DEF LockInv, TypeInv, TypeOK
<1>1. PICK c : c = cur[h]
  OBVIOUS
<1>2. PICK k : k = TakeLock(locks[c], h)
  OBVIOUS
<1>3. pc[h] = "graspSet" /\ pc[h] \in AtManager /\ locks' = [locks EXCEPT ![c] = k]
      /\ result' = [result EXCEPT ![h] = locks[c].lasthostid] /\ pc' = [pc EXCEPT ![h] = "fetchGrasp"]
      /\ UNCHANGED <<myLocks, waitFlag, lasthostid, cur, net>>
  BY <1>1, <1>2 DEF GraspSet, AtManager
<1>4. /\ c \in Lock /\ Manager(c) = h /\ locks[c] \in MiLockRecord
      /\ ListInv(locks[c]) /\ Length(c) = locks[c].waitingListCount
      /\ ClearFrom(locks[c], locks[c].waitingListCount)
      /\ LoopInv(pc[h], waitFlag[h], myLocks[h][c])
      /\ OwnerInv(c) /\ \A g \in Host : RequestInv(g, c)
  BY <1>1, <1>3, AtOwnLock
<1>5. locks[c].state = "FREE" /\ locks[c].waitingListCount = 0
  BY <1>1, <1>3, <1>4 DEF OwnerInv, ListInv
<1>6. /\ k.waitingList = locks[c].waitingList /\ k.waitingListCount = 0
      /\ k.lasthostid = locks[c].lasthostid /\ k.state = "LOCKED" /\ k.owner = h
  <2>1. /\ k.waitingList = locks[c].waitingList /\ k.waitingListCount = 0
        /\ k.lasthostid = locks[c].lasthostid
    BY <1>2, <1>4, <1>5, GraspFields
  <2>2. k.state = "LOCKED" /\ k.owner = h
    BY <1>2, <1>4 DEF TakeLock, MiLockRecord
  <2> QED BY <2>1, <2>2
<1>7. locks'[c] = k /\ OnlyAt(h) /\ pc'[h] = "fetchGrasp" /\ result'[h] = k.lasthostid /\ cur'[h] = c
  BY <1>t, <1>1, <1>3, <1>4, <1>6 DEF OnlyAt
<1>8. Length(c)' = 0 /\ Length(c) = 0
  BY <1>4, <1>5, <1>6, <1>7 DEF Length, Shifted
<1>9. QueueInv(c)'
  <2>1. ListInv(k)
    BY <1>6, Zeros DEF ListInv, Slot
  <2>2. Different(k, 0) /\ ClearFrom(k, 0)
    BY <1>4, <1>5, <1>6 DEF Different, ClearFrom, Slot
  <2> QED BY <1>6, <1>7, <1>8, <2>1, <2>2 DEF QueueInv
<1>10. ASSUME NEW g \in Host PROVE RequestInv(g, c)'
  <2>1. RequestInv(g, c)
    BY <1>4
  <2>2. Asks(g, c)' <=> Asks(g, c)
    BY <1>3, <1>7 DEF Asks, OnlyAt
  <2>3. Picked(g, c)' <=> Picked(g, c)
    BY <1>3, <1>4, <1>7 DEF Picked, Popped, Shifted
  <2>4. Listed(locks'[c], Length(c)', g) <=> Listed(locks[c], Length(c), g)
    BY <1>6, <1>7, <1>8 DEF Listed
  <2>5. g = h => ~Asked(net, h, c)
    BY <1>3, <2>1 DEF RequestInv, Asks
  <2>6. Own(g, c)' => AfterRelease(net, g, c)
    BY <1>6, <1>7, <2>5 DEF Own, AfterRelease, Asked, Has
  <2> QED BY <1>3, <1>4, <2>1, <2>2, <2>3, <2>4, <2>6, RequestFrame DEF RequestInv
<1>11. RightInv(c)'
  <2>1. Own(h, c)' /\ Busy(h, c)' /\ BusyFor(h)' = h
    BY <1>6, <1>7 DEF Own, Busy, BusyFor
  <2> QED BY <1>4, <2>1, RightHere
<1>12. ThreadInv(h)'
  <2>1. waitFlag[h] # 1 /\ myLocks[h][c] = 0
    BY <1>3, <1>4 DEF LoopInv
  <2>2. ReadInv(h, pc'[h], result'[h], locks'[cur'[h]])
    BY <1>7 DEF ReadInv
  <2>3. LoopInv(pc'[h], waitFlag'[h], myLocks'[h][cur'[h]])
    BY <1>3, <1>7, <2>1 DEF LoopInv
  <2>4. WokenKnows(h, pc'[h], cur'[h], result'[h], waitFlag'[h], lasthostid'[h], locks'[cur'[h]].lasthostid)
    BY <1>7 DEF WokenKnows
  <2> QED BY <2>2, <2>3, <2>4 DEF ThreadInv
<1> QED BY <1>1, <1>3, <1>4, <1>6, <1>7, <1>9, <1>10, <1>11, <1>12, ListStep

(* graspLock writes the newcomer behind the list. *)
LEMMA WaitGraspPut ==
  ASSUME LockInv, WaitInv, NEW h \in Host, GraspPut(h)
  PROVE WaitInv'
<1>t. locks \in [Lock -> MiLockRecord] /\ pc \in [Host -> Points]
  BY DEF LockInv, TypeInv, TypeOK
<1>1. PICK c : c = cur[h]
  OBVIOUS
<1>2. PICK k : k = PutWaiter(locks[c], h)
  OBVIOUS
<1>3. pc[h] = "graspPut" /\ pc[h] \in AtManager /\ locks' = [locks EXCEPT ![c] = k]
      /\ pc' = [pc EXCEPT ![h] = "graspCount"]
      /\ UNCHANGED <<myLocks, waitFlag, lasthostid, cur, result, net>>
  BY <1>1, <1>2 DEF GraspPut, AtManager
<1>4. /\ c \in Lock /\ Manager(c) = h /\ locks[c] \in MiLockRecord
      /\ ListInv(locks[c]) /\ Different(locks[c], Length(c))
      /\ Length(c) = locks[c].waitingListCount
      /\ ClearFrom(locks[c], locks[c].waitingListCount)
      /\ ReadInv(h, pc[h], result[h], locks[c])
      /\ LoopInv(pc[h], waitFlag[h], myLocks[h][c])
      /\ RightInv(c) /\ \A g \in Host : RequestInv(g, c)
  BY <1>1, <1>3, AtOwnLock
<1>5. PICK e : e = locks[c].waitingListCount
  OBVIOUS
<1>6. locks[c].state = "LOCKED" /\ locks[c].owner # h
  BY <1>3, <1>4 DEF ReadInv
<1>7. /\ ListInv(k) /\ Different(k, e) /\ ClearFrom(k, e + 1)
      /\ k.waitingListCount = e /\ k.waitingList[e] = h
      /\ \A g : Listed(k, e, g) <=> Listed(locks[c], e, g)
  <2>1. Different(locks[c], e) /\ ClearFrom(locks[c], e) /\ ListInv(locks[c])
    BY <1>4, <1>5
  <2>2. locks[c] \in MiLockRecord /\ locks[c].state = "LOCKED"
    BY <1>4, <1>6
  <2> QED BY ONLY <1>2, <1>5, <2>1, <2>2, PutEffect, h \in Host
<1>8. k.state = locks[c].state /\ k.owner = locks[c].owner /\ k.lasthostid = locks[c].lasthostid
  BY <1>2, <1>4, GraspFields
<1>9. locks'[c] = k /\ OnlyAt(h) /\ pc'[h] = "graspCount" /\ cur'[h] = c
  BY <1>t, <1>1, <1>3, <1>4 DEF OnlyAt
<1>10. Length(c)' = e /\ Length(c) = e
  <2>1. e \in Int
    BY <1>4, <1>5 DEF MiLockRecord
  <2> QED BY <1>4, <1>5, <1>7, <1>9, <2>1 DEF Length, Shifted
<1>11. QueueInv(c)'
  BY <1>4, <1>7, <1>9, <1>10 DEF QueueInv
<1>12. ASSUME NEW g \in Host PROVE RequestInv(g, c)'
  <2>1. RequestInv(g, c)
    BY <1>4
  <2>2. Asks(g, c)' <=> Asks(g, c)
    BY <1>3, <1>9 DEF Asks, OnlyAt
  <2>3. Picked(g, c)' <=> Picked(g, c)
    BY <1>3, <1>4, <1>9 DEF Picked, Popped, Shifted
  <2>4. Listed(locks'[c], Length(c)', g) <=> Listed(locks[c], Length(c), g)
    BY <1>7, <1>9, <1>10
  <2>5. Own(g, c)' => AfterRelease(net, g, c)
    BY <1>8, <1>9, <2>1 DEF Own, RequestInv
  <2> QED BY <1>3, <1>4, <2>1, <2>2, <2>3, <2>4, <2>5, RequestFrame DEF RequestInv
<1>13. RightInv(c)'
  <2>1. \A g \in Host : Busy(g, c) => Busy(g, c)' /\ BusyFor(g)' = BusyFor(g)
    BY <1>3, <1>9 DEF Busy, BusyFor, OnlyAt
  <2> QED BY <1>3, <1>4, <1>8, <1>9, <2>1, RightFrame DEF Own
<1>14. ThreadInv(h)'
  <2>1. waitFlag[h] # 1 /\ myLocks[h][c] = 0
    BY <1>3, <1>4 DEF LoopInv
  <2>2. ReadInv(h, pc'[h], result'[h], locks'[cur'[h]])
    BY <1>6, <1>7, <1>8, <1>9 DEF ReadInv
  <2>3. LoopInv(pc'[h], waitFlag'[h], myLocks'[h][cur'[h]])
    BY <1>3, <1>9, <2>1 DEF LoopInv
  <2>4. WokenKnows(h, pc'[h], cur'[h], result'[h], waitFlag'[h], lasthostid'[h], locks'[cur'[h]].lasthostid)
    BY <1>9 DEF WokenKnows
  <2> QED BY <2>2, <2>3, <2>4 DEF ThreadInv
<1> QED BY <1>1, <1>3, <1>4, <1>8, <1>9, <1>11, <1>12, <1>13, <1>14, ListStep

(* graspLock counts the newcomer: now it waits. *)
LEMMA WaitGraspCount ==
  ASSUME LockInv, WaitInv, NEW h \in Host, GraspCount(h)
  PROVE WaitInv'
<1>t. locks \in [Lock -> MiLockRecord] /\ pc \in [Host -> Points]
  BY DEF LockInv, TypeInv, TypeOK
<1>1. PICK c : c = cur[h]
  OBVIOUS
<1>2. PICK k : k = CountWaiter(locks[c])
  OBVIOUS
<1>3. pc[h] = "graspCount" /\ pc[h] \in AtManager /\ locks' = [locks EXCEPT ![c] = k]
      /\ pc' = [pc EXCEPT ![h] = "setWait"]
      /\ UNCHANGED <<myLocks, waitFlag, lasthostid, cur, result, net>>
  BY <1>1, <1>2 DEF GraspCount, AtManager
<1>4. /\ c \in Lock /\ Manager(c) = h /\ locks[c] \in MiLockRecord
      /\ ListInv(locks[c]) /\ Different(locks[c], Length(c))
      /\ Length(c) = locks[c].waitingListCount
      /\ ReadInv(h, pc[h], result[h], locks[c])
      /\ LoopInv(pc[h], waitFlag[h], myLocks[h][c])
      /\ RightInv(c) /\ \A g \in Host : RequestInv(g, c)
  BY <1>1, <1>3, AtOwnLock
<1>5. PICK e : e = locks[c].waitingListCount
  OBVIOUS
<1>6. /\ locks[c].state = "LOCKED" /\ locks[c].owner # h
      /\ locks[c].waitingList[e] = h /\ ClearFrom(locks[c], e + 1)
  BY <1>3, <1>4, <1>5 DEF ReadInv
<1>7. ~Asks(h, c) /\ ~Asked(net, h, c) /\ ~Listed(locks[c], e, h) /\ ~Picked(h, c) /\ ~Granted(net, h, c)
  <2>1. ~Asks(h, c)
    BY <1>3 DEF Asks
  <2>2. RequestInv(h, c) /\ Length(c) = e
    BY <1>4, <1>5
  <2> QED BY <2>1, <2>2 DEF RequestInv
<1>8. /\ ListInv(k) /\ Different(k, e + 1) /\ ClearFrom(k, e + 1)
      /\ k.waitingListCount = e + 1
      /\ \A g : Listed(k, e + 1, g) <=> Listed(locks[c], e, g) \/ g = h
  BY <1>2, <1>4, <1>5, <1>6, <1>7, CountEffect
<1>9. k.state = locks[c].state /\ k.owner = locks[c].owner /\ k.lasthostid = locks[c].lasthostid
  BY <1>2, <1>4, CountFields
<1>10. locks'[c] = k /\ OnlyAt(h) /\ pc'[h] = "setWait" /\ cur'[h] = c
  BY <1>t, <1>1, <1>3, <1>4 DEF OnlyAt
<1>11. Length(c)' = e + 1 /\ Length(c) = e
  <2>1. e \in Int
    BY <1>4, <1>5 DEF MiLockRecord
  <2> QED BY <1>4, <1>5, <1>8, <1>10, <2>1 DEF Length, Shifted
<1>12. QueueInv(c)'
  BY <1>8, <1>10, <1>11 DEF QueueInv
<1>13. waitFlag[h] # 1 /\ myLocks[h][c] = 0
  BY <1>3, <1>4 DEF LoopInv
<1>14. ASSUME NEW g \in Host PROVE RequestInv(g, c)'
  <2>1. RequestInv(g, c)
    BY <1>4
  <2>2. Picked(g, c)' <=> Picked(g, c)
    BY <1>3, <1>4, <1>10 DEF Picked, Popped, Shifted
  <2>3. Own(g, c)' => AfterRelease(net, g, c)
    BY <1>9, <1>10, <2>1 DEF Own, RequestInv
  <2>4. CASE g = h
    <3>1. Asks(h, c)' /\ Listed(locks'[c], Length(c)', h)
      BY <1>3, <1>8, <1>10, <1>11, <1>13 DEF Asks
    <3>2. HasOnce(net, h, Manager(c), "ACQ_LOCK", c)
      BY <2>1, <2>4 DEF RequestInv
    <3> QED BY <1>3, <1>7, <2>2, <2>3, <2>4, <3>1, <3>2 DEF RequestInv, Exclusive
  <2>5. CASE g # h
    <3>1. Asks(g, c)' <=> Asks(g, c)
      BY <1>3, <1>10, <2>5 DEF Asks, OnlyAt
    <3>2. Listed(locks'[c], Length(c)', g) <=> Listed(locks[c], Length(c), g)
      BY <1>8, <1>10, <1>11, <2>5
    <3> QED BY <1>3, <1>4, <2>1, <2>2, <2>3, <3>1, <3>2, RequestFrame DEF RequestInv
  <2> QED BY <2>4, <2>5
<1>15. RightInv(c)'
  <2>1. \A g \in Host : Busy(g, c) => Busy(g, c)' /\ BusyFor(g)' = BusyFor(g)
    BY <1>3, <1>10 DEF Busy, BusyFor, OnlyAt
  <2> QED BY <1>3, <1>4, <1>9, <1>10, <2>1, RightFrame DEF Own
<1>16. ThreadInv(h)'
  <2>1. ReadInv(h, pc'[h], result'[h], locks'[cur'[h]])
    BY <1>10 DEF ReadInv
  <2>2. LoopInv(pc'[h], waitFlag'[h], myLocks'[h][cur'[h]])
    BY <1>3, <1>10, <1>13 DEF LoopInv
  <2>3. WokenKnows(h, pc'[h], cur'[h], result'[h], waitFlag'[h], lasthostid'[h], locks'[cur'[h]].lasthostid)
    BY <1>10 DEF WokenKnows
  <2> QED BY <2>1, <2>2, <2>3 DEF ThreadInv
<1> QED BY <1>1, <1>3, <1>4, <1>9, <1>10, <1>12, <1>14, <1>15, <1>16, ListStep

(* freeLock frees the lock. *)
LEMMA WaitFreeSet ==
  ASSUME LockInv, WaitInv, NEW h \in Host, FreeSet(h)
  PROVE WaitInv'
<1>t. locks \in [Lock -> MiLockRecord] /\ pc \in [Host -> Points]
  BY DEF LockInv, TypeInv, TypeOK
<1>1. PICK c : c = cur[h]
  OBVIOUS
<1>2. PICK k : k = SetFree(locks[c], h)
  OBVIOUS
<1>3. pc[h] = "freeSet" /\ pc[h] \in AtManager /\ locks' = [locks EXCEPT ![c] = k]
      /\ pc' = [pc EXCEPT ![h] = "grant"]
      /\ UNCHANGED <<myLocks, waitFlag, lasthostid, cur, result, net>>
  BY <1>1, <1>2 DEF FreeSet, AtManager
<1>4. /\ c \in Lock /\ Manager(c) = h /\ locks[c] \in MiLockRecord
      /\ ListInv(locks[c]) /\ Length(c) = locks[c].waitingListCount
      /\ ClearFrom(locks[c], locks[c].waitingListCount)
      /\ ReadInv(h, pc[h], result[h], locks[c])
      /\ LoopInv(pc[h], waitFlag[h], myLocks[h][c])
      /\ OwnerInv(c) /\ \A g \in Host : RequestInv(g, c)
  BY <1>1, <1>3, AtOwnLock
<1>5. locks[c].waitingListCount = 0 /\ result[h] = -5
  BY <1>3, <1>4 DEF ReadInv, LockInv, PlaceInv, ThreadsPlaced, HostPlaced
<1>6. /\ k.waitingList = locks[c].waitingList /\ k.waitingListCount = 0
      /\ k.lasthostid = h /\ k.state = "FREE" /\ k.owner = NoHost
  BY <1>2, <1>4, <1>5, SetFreeFields
<1>7. locks'[c] = k /\ OnlyAt(h) /\ pc'[h] = "grant" /\ cur'[h] = c
  BY <1>t, <1>1, <1>3, <1>4 DEF OnlyAt
<1>8. Length(c)' = 0 /\ Length(c) = 0
  BY <1>4, <1>5, <1>6, <1>7 DEF Length, Shifted
<1>9. QueueInv(c)'
  <2>1. ListInv(k)
    BY <1>6, Zeros DEF ListInv, Slot
  <2>2. Different(k, 0) /\ ClearFrom(k, 0)
    BY <1>4, <1>5, <1>6 DEF Different, ClearFrom, Slot
  <2> QED BY <1>6, <1>7, <1>8, <2>1, <2>2 DEF QueueInv
<1>10. \A g \in Host : result[h] # g
  BY <1>5 DEF Host
<1>11. ASSUME NEW g \in Host PROVE RequestInv(g, c)'
  <2>1. RequestInv(g, c)
    BY <1>4
  <2>2. Asks(g, c)' <=> Asks(g, c)
    BY <1>3, <1>7 DEF Asks, OnlyAt
  <2>3. Picked(g, c)' <=> Picked(g, c)
    BY <1>3, <1>4, <1>10 DEF Picked
  <2>4. Listed(locks'[c], Length(c)', g) <=> Listed(locks[c], Length(c), g)
    BY <1>6, <1>7, <1>8 DEF Listed
  <2>5. ~Own(g, c)'
    BY <1>6, <1>7 DEF Own
  <2> QED BY <1>3, <1>4, <2>1, <2>2, <2>3, <2>4, <2>5, RequestFrame DEF RequestInv
<1>12. RightInv(c)'
  BY <1>6, <1>7 DEF RightInv, Own
<1>13. ThreadInv(h)'
  <2>1. waitFlag[h] # 1 /\ myLocks[h][c] = 0
    BY <1>3, <1>4 DEF LoopInv
  <2>2. ReadInv(h, pc'[h], result'[h], locks'[cur'[h]])
    BY <1>3, <1>7, <1>10 DEF ReadInv
  <2>3. LoopInv(pc'[h], waitFlag'[h], myLocks'[h][cur'[h]])
    BY <1>1, <1>3, <1>7, <2>1 DEF LoopInv
  <2>4. WokenKnows(h, pc'[h], cur'[h], result'[h], waitFlag'[h], lasthostid'[h], locks'[cur'[h]].lasthostid)
    BY <1>7 DEF WokenKnows
  <2> QED BY <2>2, <2>3, <2>4 DEF ThreadInv
<1>14. NoneHeld(c) /\ NoneBorne(net, c)
  <2>1. Busy(h, c)
    BY <1>1, <1>3 DEF Busy
  <2> QED BY <1>4, <2>1, WhereRight
<1> QED BY <1>1, <1>3, <1>4, <1>7, <1>9, <1>11, <1>12, <1>13, <1>14, ListStep

(* freeLock shifts the list: its first waiter is picked. *)
LEMMA WaitFreeShift ==
  ASSUME LockInv, WaitInv, NEW h \in Host, FreeShift(h)
  PROVE WaitInv'
<1>t. locks \in [Lock -> MiLockRecord] /\ pc \in [Host -> Points]
  BY DEF LockInv, TypeInv, TypeOK
<1>1. PICK c : c = cur[h]
  OBVIOUS
<1>2. PICK k : k = ShiftWaiters(locks[c])
  OBVIOUS
<1>3. pc[h] = "freeShift" /\ pc[h] \in AtManager /\ locks' = [locks EXCEPT ![c] = k]
      /\ pc' = [pc EXCEPT ![h] = "freeClear"]
      /\ UNCHANGED <<myLocks, waitFlag, lasthostid, cur, result, net>>
  BY <1>1, <1>2 DEF FreeShift, AtManager
<1>4. /\ c \in Lock /\ Manager(c) = h /\ locks[c] \in MiLockRecord
      /\ ListInv(locks[c]) /\ Different(locks[c], Length(c))
      /\ Length(c) = locks[c].waitingListCount
      /\ ClearFrom(locks[c], locks[c].waitingListCount)
      /\ ReadInv(h, pc[h], result[h], locks[c])
      /\ LoopInv(pc[h], waitFlag[h], myLocks[h][c])
      /\ OwnerInv(c) /\ RightInv(c) /\ \A g \in Host : RequestInv(g, c)
  BY <1>1, <1>3, AtOwnLock
<1>5. PICK e : e = locks[c].waitingListCount
  OBVIOUS
<1>6. e > 0 /\ result[h] = locks[c].waitingList[0] /\ result[h] \in Host \ {h} /\ e \in Int
  BY <1>3, <1>4, <1>5 DEF ReadInv, MiLockRecord
<1>7. /\ ListInv(k) /\ Different(k, e - 1) /\ ClearFrom(k, e)
      /\ k.waitingListCount = e
      /\ \A g : Listed(k, e - 1, g) <=> Listed(locks[c], e, g) /\ g # locks[c].waitingList[0]
  <2>1. Different(locks[c], e) /\ ClearFrom(locks[c], e) /\ ListInv(locks[c]) /\ locks[c] \in MiLockRecord
    BY <1>4, <1>5
  <2> QED BY ONLY <1>2, <1>5, <1>6, <2>1, ShiftEffect
<1>8. k.state = locks[c].state /\ k.owner = locks[c].owner /\ k.lasthostid = locks[c].lasthostid
  BY <1>2, <1>4, ShiftFields
<1>9. locks'[c] = k /\ OnlyAt(h) /\ pc'[h] = "freeClear" /\ cur'[h] = c
  BY <1>t, <1>1, <1>3, <1>4 DEF OnlyAt
<1>10. Length(c)' = e - 1 /\ Length(c) = e
  BY <1>4, <1>5, <1>6, <1>7, <1>9 DEF Length, Shifted
<1>11. QueueInv(c)'
  BY <1>4, <1>7, <1>9, <1>10 DEF QueueInv
<1>12. ASSUME NEW g \in Host PROVE RequestInv(g, c)'
  <2>1. RequestInv(g, c)
    BY <1>4
  <2>2. Asks(g, c)' <=> Asks(g, c)
    BY <1>3, <1>9 DEF Asks, OnlyAt
  <2>3. ~Picked(g, c) /\ (Picked(g, c)' <=> g = result[h])
    BY <1>1, <1>3, <1>4, <1>9 DEF Picked, Popped, Shifted
  <2>4. Listed(locks'[c], Length(c)', g) <=> Listed(locks[c], Length(c), g) /\ g # result[h]
    BY <1>6, <1>7, <1>9, <1>10
  <2>5. Own(g, c)' => AfterRelease(net, g, c)
    BY <1>8, <1>9, <2>1 DEF Own, RequestInv
  <2>6. CASE g = result[h]
    <3>1. Listed(locks[c], Length(c), g)
      BY <1>6, <1>10, <2>6, Zeros DEF Listed
    <3> QED BY <1>3, <2>1, <2>2, <2>3, <2>4, <2>5, <2>6, <3>1 DEF RequestInv, Exclusive
  <2>7. CASE g # result[h]
    <3>1. Picked(g, c)' <=> Picked(g, c)
      BY <2>3, <2>7
    <3>2. Listed(locks'[c], Length(c)', g) <=> Listed(locks[c], Length(c), g)
      BY <2>4, <2>7
    <3> QED BY <1>3, <1>4, <2>1, <2>2, <2>5, <3>1, <3>2, RequestFrame DEF RequestInv
  <2> QED BY <2>6, <2>7
<1>13. RightInv(c)'
  <2>1. \A g \in Host : Busy(g, c) => Busy(g, c)' /\ BusyFor(g)' = BusyFor(g)
    BY <1>1, <1>3, <1>9 DEF Busy, BusyFor, OnlyAt
  <2> QED BY <1>3, <1>4, <1>8, <1>9, <2>1, RightFrame DEF Own
<1>14. ThreadInv(h)'
  <2>1. waitFlag[h] # 1 /\ myLocks[h][c] = 0
    BY <1>3, <1>4 DEF LoopInv
  <2>2. ReadInv(h, pc'[h], result'[h], locks'[cur'[h]])
    BY <1>3, <1>6, <1>7, <1>9 DEF ReadInv
  <2>3. LoopInv(pc'[h], waitFlag'[h], myLocks'[h][cur'[h]])
    BY <1>1, <1>3, <1>9, <2>1 DEF LoopInv
  <2>4. WokenKnows(h, pc'[h], cur'[h], result'[h], waitFlag'[h], lasthostid'[h], locks'[cur'[h]].lasthostid)
    BY <1>9 DEF WokenKnows
  <2> QED BY <2>2, <2>3, <2>4 DEF ThreadInv
<1> QED BY <1>1, <1>3, <1>4, <1>8, <1>9, <1>11, <1>12, <1>13, <1>14, ListStep

(* freeLock makes the waiter it has picked the owner. *)
LEMMA WaitFreeClear ==
  ASSUME LockInv, WaitInv, NEW h \in Host, FreeClear(h)
  PROVE WaitInv'
<1>t. locks \in [Lock -> MiLockRecord] /\ pc \in [Host -> Points]
  BY DEF LockInv, TypeInv, TypeOK
<1>1. PICK c : c = cur[h]
  OBVIOUS
<1>w. PICK w : w = result[h]
  OBVIOUS
<1>2. PICK k : k = DropWaiter(locks[c], w, h)
  OBVIOUS
<1>3. pc[h] = "freeClear" /\ pc[h] \in AtManager /\ locks' = [locks EXCEPT ![c] = k]
      /\ pc' = [pc EXCEPT ![h] = "grant"]
      /\ UNCHANGED <<myLocks, waitFlag, lasthostid, cur, result, net>>
  BY <1>1, <1>w, <1>2 DEF FreeClear, AtManager
<1>4. /\ c \in Lock /\ Manager(c) = h /\ locks[c] \in MiLockRecord
      /\ ListInv(locks[c]) /\ Different(locks[c], Length(c))
      /\ Length(c) = locks[c].waitingListCount - 1
      /\ ClearFrom(locks[c], locks[c].waitingListCount)
      /\ ReadInv(h, pc[h], result[h], locks[c])
      /\ LoopInv(pc[h], waitFlag[h], myLocks[h][c])
      /\ OwnerInv(c) /\ \A g \in Host : RequestInv(g, c)
  BY <1>1, <1>3, AtOwnLock
<1>5. PICK e : e = locks[c].waitingListCount
  OBVIOUS
<1>6. e > 0 /\ w \in Host \ {h} /\ e \in Int
  BY <1>w, <1>3, <1>4, <1>5 DEF ReadInv, MiLockRecord
<1>7. Own(h, c) /\ NoneHeld(c) /\ NoneBorne(net, c)
  <2>1. Busy(h, c) /\ BusyFor(h) = h
    BY <1>1, <1>3 DEF Busy, BusyFor
  <2> QED BY <1>4, <2>1, WhereRight
<1>8. Picked(w, c) /\ ~Listed(locks[c], e - 1, w) /\ ~Asked(net, w, c)
  <2>1. Picked(w, c)
    BY <1>1, <1>w, <1>3, <1>4 DEF Picked, Popped, Shifted
  <2>2. RequestInv(w, c) /\ Length(c) = e - 1
    BY <1>4, <1>5, <1>6
  <2> QED BY <2>1, <2>2 DEF RequestInv, Exclusive
<1>9. /\ ListInv(k) /\ Different(k, e - 1) /\ ClearFrom(k, e - 1)
      /\ k.waitingListCount = e - 1
      /\ \A g : Listed(k, e - 1, g) <=> Listed(locks[c], e - 1, g)
  <2>1. Different(locks[c], e - 1) /\ ClearFrom(locks[c], e) /\ ListInv(locks[c])
        /\ locks[c] \in MiLockRecord /\ locks[c].state = "LOCKED" /\ w \in Host
    BY <1>4, <1>5, <1>6, <1>7 DEF Own
  <2>2. e > 0 /\ ~Listed(locks[c], e - 1, w)
    BY <1>6, <1>8
  <2> QED BY ONLY <1>2, <1>5, <2>1, <2>2, DropEffect, h \in Host
<1>10. k.state = "LOCKED" /\ k.owner = w
  <2>1. locks[c] \in MiLockRecord /\ w \in HostOrNone
    BY <1>4, <1>6 DEF HostOrNone
  <2>2. DropWaiter(locks[c], w, h).state = locks[c].state /\ DropWaiter(locks[c], w, h).owner = w
    BY <2>1, LockOpsEffect
  <2> QED BY <1>2, <1>7, <2>2 DEF Own
<1>11. locks'[c] = k /\ OnlyAt(h) /\ pc'[h] = "grant" /\ cur'[h] = c
  BY <1>t, <1>1, <1>3, <1>4 DEF OnlyAt
<1>12. Length(c)' = e - 1 /\ Length(c) = e - 1
  BY <1>4, <1>5, <1>6, <1>9, <1>11 DEF Length, Shifted
<1>13. QueueInv(c)'
  BY <1>4, <1>9, <1>11, <1>12 DEF QueueInv
<1>14. ASSUME NEW g \in Host PROVE RequestInv(g, c)'
  <2>1. RequestInv(g, c)
    BY <1>4
  <2>2. Asks(g, c)' <=> Asks(g, c)
    BY <1>3, <1>11 DEF Asks, OnlyAt
  <2>3. Picked(g, c)' <=> Picked(g, c)
    BY <1>1, <1>3, <1>4, <1>11 DEF Picked, Popped, Shifted
  <2>4. Listed(locks'[c], Length(c)', g) <=> Listed(locks[c], Length(c), g)
    BY <1>9, <1>11, <1>12
  <2>5. Own(g, c)' => AfterRelease(net, g, c)
    BY <1>8, <1>10, <1>11 DEF Own, AfterRelease, Asked, Has
  <2> QED BY <1>3, <1>4, <2>1, <2>2, <2>3, <2>4, <2>5, RequestFrame DEF RequestInv
<1>15. RightInv(c)'
  <2>1. Busy(h, c)' /\ BusyFor(h)' = w /\ Own(w, c)' /\ w \in Host
    BY <1>w, <1>3, <1>6, <1>10, <1>11 DEF Busy, BusyFor, Own
  <2> QED BY <1>4, <2>1, RightHere
<1>16. ThreadInv(h)'
  <2>1. waitFlag[h] # 1 /\ myLocks[h][c] = 0
    BY <1>3, <1>4 DEF LoopInv
  <2>2. ReadInv(h, pc'[h], result'[h], locks'[cur'[h]])
    BY <1>w, <1>3, <1>6, <1>11 DEF ReadInv
  <2>3. LoopInv(pc'[h], waitFlag'[h], myLocks'[h][cur'[h]])
    BY <1>1, <1>3, <1>11, <2>1 DEF LoopInv
  <2>4. WokenKnows(h, pc'[h], cur'[h], result'[h], waitFlag'[h], lasthostid'[h], locks'[cur'[h]].lasthostid)
    BY <1>11 DEF WokenKnows
  <2> QED BY <2>2, <2>3, <2>4 DEF ThreadInv
<1> QED BY <1>1, <1>3, <1>4, <1>7, <1>11, <1>13, <1>14, <1>15, <1>16, ListStep

-----------------------------------------------------------------------------
(* The steps of the program's thread that send *)

(* A send keeps GrantsKnow, unless it grants l and names another host. *)
LEMMA SentGrants ==
  ASSUME NEW n \in Nets, NEW a \in Host, NEW b \in Host, NEW m \in Message, NEW k, k = Sent(n, a, b, m),
         NEW l \in Lock, NEW last, GrantsKnow(n, l, last),
         Matches(m, "GRANT_LOCK", l) => m.lasthostid = last
  PROVE GrantsKnow(k, l, last)
<1> SUFFICES ASSUME NEW h \in Host, NEW i \in Nat, MsgAt(k, Manager(l), h, "GRANT_LOCK", l, i)
             PROVE k[Manager(l)][h][i].lasthostid = last
  BY DEF GrantsKnow
<1>0. Manager(l) \in Host
  BY ManagerIsHost
<1>1. i \in 1 .. Len(k[Manager(l)][h]) /\ Matches(k[Manager(l)][h][i], "GRANT_LOCK", l)
  BY DEF MsgAt, Matches
<1>2. \/ i \in 1 .. Len(n[Manager(l)][h]) /\ k[Manager(l)][h][i] = n[Manager(l)][h][i]
      \/ k[Manager(l)][h][i] = m
  BY <1>0, <1>1, SentAt
<1>3. CASE i \in 1 .. Len(n[Manager(l)][h]) /\ k[Manager(l)][h][i] = n[Manager(l)][h][i]
  <2>1. MsgAt(n, Manager(l), h, "GRANT_LOCK", l, i)
    BY <1>1, <1>3 DEF MsgAt, Matches
  <2> QED BY <1>3, <2>1 DEF GrantsKnow
<1>4. CASE k[Manager(l)][h][i] = m
  BY <1>1, <1>4
<1> QED BY <1>2, <1>3, <1>4

(* A receive keeps GrantsKnow. *)
LEMMA TakenGrants ==
  ASSUME NEW n \in Nets, NEW a \in Host, NEW b \in Host, NEW k, k = Taken(n, a, b), n[a][b] # << >>,
         NEW l \in Lock, NEW last, GrantsKnow(n, l, last)
  PROVE GrantsKnow(k, l, last)
<1> SUFFICES ASSUME NEW h \in Host, NEW i \in Nat, MsgAt(k, Manager(l), h, "GRANT_LOCK", l, i)
             PROVE k[Manager(l)][h][i].lasthostid = last
  BY DEF GrantsKnow
<1>0. Manager(l) \in Host
  BY ManagerIsHost
<1>1. i \in 1 .. Len(k[Manager(l)][h]) /\ Matches(k[Manager(l)][h][i], "GRANT_LOCK", l)
  BY DEF MsgAt, Matches
<1>2. PICK j \in Nat : j \in 1 .. Len(n[Manager(l)][h]) /\ k[Manager(l)][h][i] = n[Manager(l)][h][j]
  <2>1. \/ i + 1 \in 1 .. Len(n[Manager(l)][h]) /\ k[Manager(l)][h][i] = n[Manager(l)][h][i + 1]
        \/ i \in 1 .. Len(n[Manager(l)][h]) /\ k[Manager(l)][h][i] = n[Manager(l)][h][i]
    BY <1>0, <1>1, TakenAt
  <2>2. i + 1 \in Nat
    OBVIOUS
  <2> QED BY <2>1, <2>2
<1>3. MsgAt(n, Manager(l), h, "GRANT_LOCK", l, j)
  BY <1>1, <1>2 DEF MsgAt, Matches
<1> QED BY <1>2, <1>3 DEF GrantsKnow

(* grantLock names the last releaser that the lock records. *)
LEMMA GrantGrants ==
  ASSUME NEW n \in Nets, NEW lk \in MiLockRecord, NEW c \in Lock, NEW w, NEW k, k = grantLock(n, lk, c, w),
         NEW l \in Lock, NEW last, GrantsKnow(n, l, last), l = c => lk.lasthostid = last
  PROVE GrantsKnow(k, l, last)
<1>1. CASE w \in Host \ {Manager(c)}
  <2>1. PICK m : m = Msg("GRANT_LOCK", c, lk.lasthostid)
    OBVIOUS
  <2>2. m \in Message
    BY <2>1, MsgType DEF MiLockRecord
  <2>3. Matches(m, "GRANT_LOCK", l) => m.lasthostid = last
    BY <2>1 DEF Matches, Msg
  <2>4. k = Sent(n, Manager(c), w, m)
    BY <1>1, <2>1 DEF grantLock
  <2> QED BY <1>1, <2>2, <2>3, <2>4, SentGrants, ManagerIsHost
<1>2. CASE w \notin Host \ {Manager(c)}
  BY <1>2 DEF grantLock
<1> QED BY <1>1, <1>2

(* A step of h's thread that sends m and leaves the locks alone: what is     *)
(* left to show of it.                                                      *)
LEMMA SendStep ==
  ASSUME LockInv, WaitInv, NEW h \in Host, OnlyAt(h), UNCHANGED locks,
         NEW l \in Lock, Manager(l) # h, NEW command \in {"ACQ_LOCK", "RLS_LOCK"},
         net' = Sent(net, h, Manager(l), Msg(command, l, NoHost)),
         pc[h] = "app", pc'[h] \in {"app", "lockWait"}
  PROVE /\ \A k \in Lock : /\ QueueInv(k)' /\ Length(k)' = Length(k)
                           /\ GrantsKnow(net', k, locks'[k].lasthostid)
                           /\ \A g \in Host : Bears(net, g, k) => Bears(net', g, k)
        /\ RouteInv(net')
        /\ command = "RLS_LOCK" => Bears(net', h, l)
        /\ \A g \in Host, k \in Lock :
             /\ Picked(g, k)' <=> Picked(g, k)
             /\ Granted(net', g, k) <=> Granted(net, g, k)
             /\ Asked(net', g, k) <=> Asked(net, g, k) \/ (g = h /\ k = l /\ command = "ACQ_LOCK")
             /\ HasOnce(net, g, Manager(k), "ACQ_LOCK", k) =>
                  \/ HasOnce(net', g, Manager(k), "ACQ_LOCK", k)
                  \/ Asked(net, g, k) /\ g = h /\ k = l
             /\ AfterRelease(net, g, k) =>
                  \/ AfterRelease(net', g, k)
                  \/ /\ g = h /\ k = l /\ command = "ACQ_LOCK"
                     /\ ~Has(net, h, Manager(l), "RLS_LOCK", l)
<1>t. net \in Nets
  BY DEF LockInv, TypeInv, TypeOK, Nets
<1>1. PICK n \in Nets : n = net
  BY <1>t
<1>2. PICK m : m = Msg(command, l, NoHost)
  OBVIOUS
<1>3. m \in Message /\ m.command = command /\ m.lockno = l /\ Manager(l) \in Host
  BY <1>2, MsgType, Zeros, ManagerIsHost DEF Msg
<1>4. PICK n2 : n2 = net' /\ n2 = Sent(n, h, Manager(l), m)
  BY <1>1, <1>2
<1>5. ASSUME NEW k \in Lock PROVE QueueInv(k)' /\ Length(k)' = Length(k) /\ \A g : Picked(g, k)' <=> Picked(g, k)
  <2>1. /\ Shifted(k)' <=> Shifted(k)
        /\ \A g : Picked(g, k)' <=> Picked(g, k)
        /\ ~(pc'[Manager(k)] = "graspCount" /\ cur'[Manager(k)] = k) =>
             ~(pc[Manager(k)] = "graspCount" /\ cur[Manager(k)] = k)
    <3>1. CASE Manager(k) = h
      BY <3>1 DEF Shifted, Picked, Popped
    <3>2. CASE Manager(k) # h
      BY <3>2, OtherManager
    <3> QED BY <3>1, <3>2
  <2>2. QueueInv(k)
    BY DEF WaitInv
  <2> QED BY <2>1, <2>2, ListFrame
<1>6. ASSUME NEW k \in Lock
      PROVE /\ GrantsKnow(net', k, locks'[k].lasthostid)
            /\ \A g \in Host : Bears(net, g, k) => Bears(net', g, k)
  <2>1. GrantsKnow(n, k, locks[k].lasthostid)
    BY <1>1 DEF WaitInv
  <2>2. GrantsKnow(n2, k, locks[k].lasthostid)
    BY <1>3, <1>4, <2>1, SentGrants DEF Matches
  <2>3. \A g \in Host : Bears(n, g, k) => Bears(n2, g, k)
    BY <1>3, <1>4, SentBears
  <2> QED BY <1>1, <1>4, <2>2, <2>3
<1>7. RouteInv(net')
  <2>1. RouteInv(n) /\ Routed(h, Manager(l), m)
    BY <1>1, <1>3 DEF WaitInv, Routed
  <2> QED BY <1>3, <1>4, <2>1, SentRoute
<1>8. command = "RLS_LOCK" => Bears(net', h, l)
  <2>1. command = "RLS_LOCK" => Token(m, l) /\ Bearer(h, Manager(l), m) = h
    BY <1>3 DEF Token, Bearer
  <2> QED BY <1>3, <1>4, <2>1, SentBears
<1>9. ASSUME NEW g \in Host, NEW k \in Lock
      PROVE /\ Granted(net', g, k) <=> Granted(net, g, k)
            /\ Asked(net', g, k) <=> Asked(net, g, k) \/ (g = h /\ k = l /\ command = "ACQ_LOCK")
            /\ HasOnce(net, g, Manager(k), "ACQ_LOCK", k) =>
                 \/ HasOnce(net', g, Manager(k), "ACQ_LOCK", k)
                 \/ Asked(net, g, k) /\ g = h /\ k = l
            /\ AfterRelease(net, g, k) =>
                 \/ AfterRelease(net', g, k)
                 \/ /\ g = h /\ k = l /\ command = "ACQ_LOCK"
                    /\ ~Has(net, h, Manager(l), "RLS_LOCK", l)
  <2>0. Manager(k) \in Host
    BY ManagerIsHost
  <2>1. Granted(n2, g, k) <=> Granted(n, g, k)
    BY <1>3, <1>4, <2>0, SentHas DEF Granted, Matches
  <2>2. Matches(m, "ACQ_LOCK", k) <=> k = l /\ command = "ACQ_LOCK"
    BY <1>3 DEF Matches
  <2>3. /\ Has(n2, g, Manager(k), "ACQ_LOCK", k) <=>
             Has(n, g, Manager(k), "ACQ_LOCK", k) \/ (g = h /\ Manager(k) = Manager(l) /\ Matches(m, "ACQ_LOCK", k))
        /\ HasOnce(n, g, Manager(k), "ACQ_LOCK", k) /\ ~Has(n, g, Manager(k), "ACQ_LOCK", k) =>
             HasOnce(n2, g, Manager(k), "ACQ_LOCK", k)
        /\ HasOnce(n, g, Manager(k), "ACQ_LOCK", k)
             /\ ~(g = h /\ Manager(k) = Manager(l) /\ Matches(m, "ACQ_LOCK", k)) =>
             HasOnce(n2, g, Manager(k), "ACQ_LOCK", k)
    BY <1>3, <1>4, <2>0, SentHas
  <2>4. AfterRelease(n, g, k) =>
          \/ AfterRelease(n2, g, k)
          \/ /\ g = h /\ k = l /\ command = "ACQ_LOCK"
             /\ ~Has(n, h, Manager(l), "RLS_LOCK", l)
    BY <1>3, <1>4, <2>2, SentAfter
  <2> QED BY <1>1, <1>4, <2>1, <2>2, <2>3, <2>4 DEF Asked
<1> QED BY <1>5, <1>6, <1>7, <1>8, <1>9

(* mi_lock sends ACQ_LOCK. *)
LEMMA WaitLockRemote ==
  ASSUME LockInv, WaitInv, NEW h \in Host, NEW l \in Lock, LockRemote(h, l)
  PROVE WaitInv'
<1>t. /\ locks \in [Lock -> MiLockRecord] /\ pc \in [Host -> Points] /\ cur \in [Host -> Lock]
      /\ myLocks \in [Host -> [Lock -> {0, 1}]] /\ waitFlag \in [Host -> {0, 1}] /\ net \in Nets
  BY DEF LockInv, TypeInv, TypeOK, Nets
<1>1. /\ pc[h] = "app" /\ Manager(l) # h
      /\ waitFlag' = [waitFlag EXCEPT ![h] = 1] /\ cur' = [cur EXCEPT ![h] = l]
      /\ pc' = [pc EXCEPT ![h] = "lockWait"]
      /\ net' = Sent(net, h, Manager(l), Msg("ACQ_LOCK", l, NoHost))
      /\ UNCHANGED <<locks, myLocks, lasthostid, result>>
  BY DEF LockRemote, MayAsk
<1>2. myLocks[h][l] = 0
  <2>1. myLocks[h][l] = 1 => l < l
    BY DEF LockRemote, MayAsk
  <2>2. ~(l < l)
    BY DEF Lock
  <2> QED BY <1>t, <2>1, <2>2
<1>3. OnlyAt(h) /\ pc'[h] = "lockWait" /\ cur'[h] = l /\ waitFlag'[h] = 1
      /\ \A g \in Host \ {h} : waitFlag'[g] = waitFlag[g]
  BY <1>t, <1>1 DEF OnlyAt
<1>4. /\ \A k \in Lock : /\ QueueInv(k)' /\ Length(k)' = Length(k)
                         /\ GrantsKnow(net', k, locks'[k].lasthostid)
                         /\ \A g \in Host : Bears(net, g, k) => Bears(net', g, k)
      /\ RouteInv(net')
      /\ \A g \in Host, k \in Lock :
           /\ Picked(g, k)' <=> Picked(g, k)
           /\ Granted(net', g, k) <=> Granted(net, g, k)
           /\ Asked(net', g, k) <=> Asked(net, g, k) \/ (g = h /\ k = l)
           /\ HasOnce(net, g, Manager(k), "ACQ_LOCK", k) =>
                \/ HasOnce(net', g, Manager(k), "ACQ_LOCK", k)
                \/ Asked(net, g, k) /\ g = h /\ k = l
           /\ AfterRelease(net, g, k) =>
                \/ AfterRelease(net', g, k)
                \/ g = h /\ k = l /\ ~Has(net, h, Manager(l), "RLS_LOCK", l)
  BY <1>1, <1>3, SendStep
<1>5. ~Asks(h, l) /\ ~Asked(net, h, l) /\ ~Listed(locks[l], Length(l), h) /\ ~Picked(h, l) /\ ~Granted(net, h, l)
  <2>1. ~Asks(h, l)
    BY <1>1 DEF Asks
  <2>2. RequestInv(h, l)
    BY DEF WaitInv
  <2> QED BY <2>1, <2>2 DEF RequestInv
<1>6. ASSUME Own(h, l) PROVE Has(net, h, Manager(l), "RLS_LOCK", l)
  <2>1. RightInv(l)
    BY DEF WaitInv
  <2>2. ASSUME NEW g \in Host, Busy(g, l), BusyFor(g) = h PROVE FALSE
    <3>1. g = Manager(l)
      <4>1. cur[g] = l /\ Busy(g, cur[g])
        BY <2>2 DEF Busy
      <4> QED BY <4>1, BusyAtManager DEF LockInv, PlaceInv
    <3>2. pc[g] = "grant" /\ result[g] = h /\ cur[g] = l
      BY <1>1, <2>2, <3>1 DEF BusyFor, Busy
    <3> QED BY <1>5, <3>1, <3>2 DEF Picked, Popped
  <2>3. Bears(net, h, l)
    BY <1>2, <1>6, <2>1, <2>2 DEF RightInv
  <2>4. PICK f \in Host, t \in Host, i \in Nat : Carries(net, f, t, i, l) /\ Bearer(f, t, net[f][t][i]) = h
    BY <2>3 DEF Bears
  <2>5. PICK m : m = net[f][t][i]
    OBVIOUS
  <2>6. i \in 1 .. Len(net[f][t]) /\ m.command \in {"GRANT_LOCK", "RLS_LOCK"} /\ m.lockno = l
    BY <2>4, <2>5 DEF Carries, Token
  <2>7. MsgPlaced(f, t, m) /\ Routed(f, t, m)
    BY <2>5, <2>6 DEF LockInv, PlaceInv, NetPlaced, WaitInv, RouteInv
  <2>8. CASE m.command = "GRANT_LOCK"
    <3>1. f = Manager(l) /\ t = h
      BY <2>4, <2>5, <2>6, <2>7, <2>8 DEF Routed, Bearer
    <3>2. Granted(net, h, l)
      BY <2>5, <2>6, <2>8, <3>1 DEF Granted, Has, MsgAt
    <3> QED BY <1>5, <3>2
  <2>9. CASE m.command = "RLS_LOCK"
    <3>1. f = h /\ t = Manager(l)
      BY <2>4, <2>5, <2>6, <2>7, <2>9 DEF MsgPlaced, Bearer
    <3> QED BY <2>5, <2>6, <2>9, <3>1 DEF Has, MsgAt
  <2> QED BY <2>6, <2>8, <2>9
<1>7. ASSUME NEW g \in Host, NEW k \in Lock PROVE RequestInv(g, k)'
  <2>1. RequestInv(g, k)
    BY DEF WaitInv
  <2>2. Listed(locks'[k], Length(k)', g) <=> Listed(locks[k], Length(k), g)
    BY <1>1, <1>4
  <2>3. CASE g = h /\ k = l
    <3>1. Asks(h, l)'
      BY <1>1, <1>2, <1>3 DEF Asks
    <3>2. HasOnce(net', h, Manager(l), "ACQ_LOCK", l)
      BY <1>4, <1>5, <2>1, <2>3 DEF RequestInv
    <3>3. AfterRelease(net, h, l)
      BY <1>5 DEF AfterRelease, Asked, Has
    <3>4. Own(h, l)' => AfterRelease(net', h, l)
      BY <1>1, <1>4, <1>6, <3>3 DEF Own
    <3> QED BY <1>4, <1>5, <2>2, <2>3, <3>1, <3>2, <3>4 DEF RequestInv, Exclusive
  <2>4. CASE ~(g = h /\ k = l)
    <3>1. Asks(g, k)' <=> Asks(g, k)
      <4>1. CASE g = h
        BY <1>1, <1>3, <2>4, <4>1 DEF Asks
      <4>2. CASE g # h
        BY <1>1, <1>3, <4>2 DEF Asks, OnlyAt
      <4> QED BY <4>1, <4>2
    <3>2. HasOnce(net', g, Manager(k), "ACQ_LOCK", k) /\ (Own(g, k)' => AfterRelease(net', g, k))
      BY <1>1, <1>4, <2>1, <2>4 DEF RequestInv, Own
    <3>3. Asked(net', g, k) <=> Asked(net, g, k)
      BY <1>4, <2>4
    <3> QED BY <1>4, <2>1, <2>2, <3>1, <3>2, <3>3, RequestFrame
  <2> QED BY <2>3, <2>4
<1>8. ASSUME NEW k \in Lock PROVE RightInv(k)'
  <2>1. \A g \in Host : Busy(g, k) => Busy(g, k)' /\ BusyFor(g)' = BusyFor(g)
    BY <1>1, <1>3 DEF Busy, BusyFor, OnlyAt
  <2>2. RightInv(k)
    BY DEF WaitInv
  <2> QED BY <1>1, <1>4, <2>1, <2>2, RightFrame DEF Own
<1>9. \A g \in Host \ {h} : ThreadInv(g)'
  BY <1>t, <1>1, <1>3, OtherThreads DEF LockInv, PlaceInv
<1>10. ThreadInv(h)'
  BY <1>1, <1>2, <1>3 DEF ThreadInv, ReadInv, LoopInv, WokenKnows
<1> QED BY <1>4, <1>7, <1>8, <1>9, <1>10, Assemble

(* mi_unlock sends RLS_LOCK: the right to the lock is in the message. *)
LEMMA WaitUnlockRemote ==
  ASSUME LockInv, WaitInv, NEW h \in Host, NEW l \in Lock, UnlockRemote(h, l)
  PROVE WaitInv'
<1>t. /\ locks \in [Lock -> MiLockRecord] /\ cur \in [Host -> Lock]
      /\ myLocks \in [Host -> [Lock -> {0, 1}]] /\ net \in Nets
  BY DEF LockInv, TypeInv, TypeOK, Nets
<1>1. /\ pc[h] = "app" /\ Manager(l) # h /\ myLocks[h][l] = 1
      /\ myLocks' = [myLocks EXCEPT ![h][l] = 0]
      /\ net' = Sent(net, h, Manager(l), Msg("RLS_LOCK", l, NoHost))
      /\ UNCHANGED <<locks, waitFlag, lasthostid, pc, cur, result>>
  BY DEF UnlockRemote
<1>2. OnlyAt(h) /\ \A g \in Host \ {h} : myLocks'[g] = myLocks[g]
  BY <1>t, <1>1 DEF OnlyAt
<1>3. /\ \A k \in Lock : /\ QueueInv(k)' /\ Length(k)' = Length(k)
                         /\ GrantsKnow(net', k, locks'[k].lasthostid)
                         /\ \A g \in Host : Bears(net, g, k) => Bears(net', g, k)
      /\ RouteInv(net') /\ Bears(net', h, l)
      /\ \A g \in Host, k \in Lock :
           /\ Picked(g, k)' <=> Picked(g, k)
           /\ Granted(net', g, k) <=> Granted(net, g, k)
           /\ Asked(net', g, k) <=> Asked(net, g, k)
           /\ HasOnce(net, g, Manager(k), "ACQ_LOCK", k) =>
                \/ HasOnce(net', g, Manager(k), "ACQ_LOCK", k)
                \/ Asked(net, g, k) /\ g = h /\ k = l
           /\ AfterRelease(net, g, k) => AfterRelease(net', g, k)
  BY <1>1, <1>2, SendStep
<1>4. ASSUME NEW g \in Host, NEW k \in Lock PROVE RequestInv(g, k)'
  <2>1. RequestInv(g, k)
    BY DEF WaitInv
  <2>2. Listed(locks'[k], Length(k)', g) <=> Listed(locks[k], Length(k), g)
    BY <1>1, <1>3
  <2>3. Asks(g, k)' <=> Asks(g, k)
    <3>1. CASE g = h
      BY <1>1, <3>1 DEF Asks
    <3>2. CASE g # h
      BY <1>1, <1>2, <3>2 DEF Asks
    <3> QED BY <3>1, <3>2
  <2>4. HasOnce(net', g, Manager(k), "ACQ_LOCK", k)
    <3>1. g = h => ~Asked(net, g, k)
      BY <1>1, <2>1 DEF RequestInv, Asks
    <3> QED BY <1>3, <2>1, <3>1 DEF RequestInv
  <2>5. Own(g, k)' => AfterRelease(net', g, k)
    BY <1>1, <1>3, <2>1 DEF RequestInv, Own
  <2> QED BY <1>3, <2>1, <2>2, <2>3, <2>4, <2>5, RequestFrame
<1>5. ASSUME NEW k \in Lock PROVE RightInv(k)'
  <2>1. CASE k = l
    <3>1. Own(h, l)'
      BY <1>1 DEF LockInv, OwnerInv, Own
    <3> QED BY <1>3, <2>1, <3>1, RightHere
  <2>2. CASE k # l
    <3>1. \A g \in Host : Busy(g, k) => Busy(g, k)' /\ BusyFor(g)' = BusyFor(g)
      BY <1>1 DEF Busy, BusyFor
    <3>2. \A g \in Host : myLocks'[g][k] = myLocks[g][k]
      BY <1>t, <1>1, <2>2
    <3>3. RightInv(k)
      BY DEF WaitInv
    <3> QED BY <1>1, <1>3, <3>1, <3>2, <3>3, RightFrame DEF Own
  <2> QED BY <2>1, <2>2
<1>6. \A g \in Host \ {h} : ThreadInv(g)'
  BY <1>t, <1>1, <1>2, OtherThreads DEF LockInv, PlaceInv
<1>7. ThreadInv(h)'
  <2>1. waitFlag[h] # 1
    BY <1>1 DEF WaitInv, ThreadInv, LoopInv
  <2> QED BY <1>1, <2>1 DEF ThreadInv, ReadInv, LoopInv, WokenKnows
<1> QED BY <1>3, <1>4, <1>5, <1>6, <1>7, Assemble

(* freeLock returned: the waiter picked is sent its GRANT_LOCK. *)
LEMMA WaitGrant ==
  ASSUME LockInv, WaitInv, NEW h \in Host, Grant(h)
  PROVE WaitInv'
<1>t. /\ locks \in [Lock -> MiLockRecord] /\ pc \in [Host -> Points] /\ cur \in [Host -> Lock] /\ net \in Nets
  BY DEF LockInv, TypeInv, TypeOK, Nets
<1>1. PICK c : c = cur[h]
  OBVIOUS
<1>2. PICK n \in Nets : n = net
  BY <1>t
<1>3. PICK n2 : n2 = net'
  OBVIOUS
<1>4. PICK r : r = result[h]
  OBVIOUS
<1>5. pc[h] = "grant" /\ pc[h] \in AtManager /\ n2 = grantLock(n, locks[c], c, r)
      /\ OnlyAt(h) /\ pc'[h] = "app"
      /\ UNCHANGED <<locks, myLocks, waitFlag, lasthostid>>
  BY <1>t, <1>1, <1>2, <1>3, <1>4 DEF Grant, Idle, OnlyAt, AtManager
<1>6. /\ c \in Lock /\ Manager(c) = h /\ locks[c] \in MiLockRecord
      /\ ReadInv(h, pc[h], result[h], locks[c])
      /\ LoopInv(pc[h], waitFlag[h], myLocks[h][c])
      /\ OwnerInv(c)
  BY <1>1, <1>5, AtOwnLock
<1>7. r # h
  BY <1>4, <1>5, <1>6 DEF ReadInv
<1>8. ASSUME NEW g \in Host, NEW k \in Lock
      PROVE /\ Granted(n2, g, k) <=> Granted(n, g, k) \/ (k = c /\ g = r)
            /\ Asked(n2, g, k) <=> Asked(n, g, k)
            /\ HasOnce(n, g, Manager(k), "ACQ_LOCK", k) => HasOnce(n2, g, Manager(k), "ACQ_LOCK", k)
            /\ AfterRelease(n, g, k) => AfterRelease(n2, g, k)
            /\ RouteInv(n) => RouteInv(n2)
            /\ Bears(n, g, k) => Bears(n2, g, k)
            /\ k = c /\ g = r => Bears(n2, g, k)
  BY <1>5, <1>6, <1>7, GrantNet
<1>9. ASSUME NEW k \in Lock PROVE GrantsKnow(net', k, locks'[k].lasthostid)
  <2>1. GrantsKnow(n, k, locks[k].lasthostid)
    BY <1>2 DEF WaitInv
  <2>2. GrantsKnow(n2, k, locks[k].lasthostid)
    BY <1>5, <1>6, <2>1, GrantGrants
  <2> QED BY <1>3, <1>5, <2>2
<1>10. ASSUME NEW k \in Lock
       PROVE /\ QueueInv(k)' /\ Length(k)' = Length(k)
             /\ \A g : Picked(g, k)' <=> Picked(g, k) /\ k # c
             /\ \A g : Picked(g, c) <=> g = r
  <2>1. /\ Shifted(k)' <=> Shifted(k)
        /\ \A g : Picked(g, k)' <=> Picked(g, k) /\ k # c
        /\ ~(pc'[Manager(k)] = "graspCount" /\ cur'[Manager(k)] = k) =>
             ~(pc[Manager(k)] = "graspCount" /\ cur[Manager(k)] = k)
    <3>1. CASE Manager(k) = h
      BY <1>1, <1>5, <3>1 DEF Shifted, Picked, Popped
    <3>2. CASE Manager(k) # h
      BY <1>5, <1>6, <3>2, OtherManager
    <3> QED BY <3>1, <3>2
  <2>2. QueueInv(k)
    BY DEF WaitInv
  <2>3. \A g : Picked(g, c) <=> g = r
    BY <1>1, <1>4, <1>5, <1>6 DEF Picked, Popped
  <2> QED BY <1>5, <2>1, <2>2, <2>3, ListFrame
<1>11. ASSUME NEW g \in Host, NEW k \in Lock PROVE RequestInv(g, k)'
  <2>1. RequestInv(g, k)
    BY DEF WaitInv
  <2>2. Listed(locks'[k], Length(k)', g) <=> Listed(locks[k], Length(k), g)
    BY <1>5, <1>10
  <2>3. Asks(g, k)' <=> Asks(g, k)
    BY <1>5 DEF Asks, OnlyAt
  <2>4. /\ Asked(net', g, k) <=> Asked(net, g, k)
        /\ Granted(net', g, k) <=> Granted(net, g, k) \/ (k = c /\ g = r)
        /\ HasOnce(net', g, Manager(k), "ACQ_LOCK", k)
        /\ Own(g, k)' => AfterRelease(net', g, k)
    BY <1>2, <1>3, <1>5, <1>8, <2>1 DEF RequestInv, Own
  <2>5. Picked(g, k)' <=> Picked(g, k) /\ k # c
    BY <1>10
  <2>6. CASE k = c /\ g = r
    <3>1. Picked(g, k) /\ ~Picked(g, k)' /\ Granted(net', g, k)
      BY <1>10, <2>4, <2>5, <2>6
    <3> QED BY <2>1, <2>2, <2>3, <2>4, <3>1 DEF RequestInv, Exclusive
  <2>7. CASE ~(k = c /\ g = r)
    <3>1. Picked(g, k)' <=> Picked(g, k)
      BY <1>10, <2>5, <2>7
    <3> QED BY <2>1, <2>2, <2>3, <2>4, <2>7, <3>1, RequestFrame
  <2> QED BY <2>6, <2>7
<1>12. ASSUME NEW k \in Lock PROVE RightInv(k)'
  <2>1. CASE Busy(h, k)
    <3>1. k = c /\ r \in Host /\ BusyFor(h) = r
      BY <1>1, <1>4, <1>5, <2>1 DEF Busy, BusyFor
    <3>2. Own(r, c)' /\ Bears(net', r, c)
      BY <1>3, <1>5, <1>6, <1>8, <2>1, <3>1 DEF OwnerInv, Own
    <3> QED BY <3>1, <3>2, RightHere
  <2>2. CASE ~Busy(h, k)
    <3>1. \A g \in Host : Busy(g, k) => Busy(g, k)' /\ BusyFor(g)' = BusyFor(g)
      BY <1>5, <2>2 DEF Busy, BusyFor, OnlyAt
    <3>2. RightInv(k) /\ \A g \in Host : Bears(net, g, k) => Bears(net', g, k)
      BY <1>2, <1>3, <1>8 DEF WaitInv
    <3> QED BY <1>5, <3>1, <3>2, RightFrame DEF Own
  <2> QED BY <2>1, <2>2
<1>13. \A g \in Host \ {h} : ThreadInv(g)'
  BY <1>t, <1>5, OtherThreads DEF LockInv, PlaceInv
<1>14. ThreadInv(h)'
  <2>1. waitFlag[h] # 1
    BY <1>5, <1>6 DEF LoopInv
  <2> QED BY <1>5, <2>1 DEF ThreadInv, ReadInv, LoopInv, WokenKnows
<1>15. RouteInv(net')
  <2>1. RouteInv(n)
    BY <1>2 DEF WaitInv
  <2> QED BY <1>3, <1>6, <1>8, <2>1
<1> QED BY <1>9, <1>10, <1>11, <1>12, <1>13, <1>14, <1>15, Assemble

-----------------------------------------------------------------------------
(* The SIGIO handler *)

(* What the receive in a handler does to the channels: f's message to h is   *)
(* of this kind and about c.                                                *)
LEMMA HandledNet ==
  ASSUME LockInv, WaitInv, NEW f \in Host, NEW h \in Host, NEW command, Arrived(f, h, command),
         command \in {"ACQ_LOCK", "RLS_LOCK", "GRANT_LOCK"},
         NEW c, c = Head(net[f][h]).lockno, NEW n, n = Taken(net, f, h)
  PROVE /\ n \in Nets /\ c \in Lock /\ f # h /\ RouteInv(n)
        /\ IF command = "GRANT_LOCK" THEN f = Manager(c) ELSE h = Manager(c)
        /\ MsgAt(net, f, h, command, c, 1) /\ 1 \in Nat
        /\ \A g \in Host, k \in Lock :
             /\ ~(command = "GRANT_LOCK" /\ g = h /\ k = c) => (Granted(n, g, k) <=> Granted(net, g, k))
             /\ ~(command = "ACQ_LOCK" /\ g = f /\ k = c) => (Asked(n, g, k) <=> Asked(net, g, k))
             /\ command = "ACQ_LOCK" => Asked(net, f, c) /\ ~Asked(n, f, c)
             /\ HasOnce(n, g, Manager(k), "ACQ_LOCK", k)
             /\ ~(command = "RLS_LOCK" /\ g = f /\ k = c) /\ AfterRelease(net, g, k) => AfterRelease(n, g, k)
             /\ k # c \/ command = "ACQ_LOCK" => (Bears(net, g, k) => Bears(n, g, k))
        /\ command # "ACQ_LOCK" =>
             /\ Bears(net, IF command = "GRANT_LOCK" THEN h ELSE f, c)
             /\ NoneBorne(n, c)
        /\ \A k \in Lock : GrantsKnow(n, k, locks[k].lasthostid)
<1>t. net \in Nets
  BY DEF LockInv, TypeInv, TypeOK, Nets
<1>1. PICK o \in Nets : o = net
  BY <1>t
<1>2. PICK m : m = Head(o[f][h])
  OBVIOUS
<1>3. o[f][h] # << >> /\ m.command = command /\ c = m.lockno /\ n = Taken(o, f, h)
  BY <1>1, <1>2 DEF Arrived
<1>4. m \in Message /\ n \in Nets
  <2>1. o \in [Host -> [Host -> Seq(Message)]] /\ o[f][h] # << >>
    BY <1>3 DEF Nets
  <2>2. Taken(o, f, h) \in [Host -> [Host -> Seq(Message)]] /\ Head(o[f][h]) \in Message
    BY <2>1, NetType
  <2> QED BY <1>2, <1>3, <2>2 DEF Nets
<1>5. c \in Lock
  BY <1>3, <1>4 DEF Message
<1>6. RouteInv(n) /\ Routed(f, h, m)
  <2>1. RouteInv(o)
    BY <1>1 DEF WaitInv
  <2> QED BY <1>2, <1>3, <2>1, TakenRoute
<1>7. MsgPlaced(f, h, m)
  <2>1. NetPlaced(o)
    BY <1>1 DEF LockInv, PlaceInv
  <2> QED BY <1>2, <1>3, <2>1, TakenPlaced
<1>8. f # h /\ IF command = "GRANT_LOCK" THEN f = Manager(c) ELSE h = Manager(c)
  BY <1>3, <1>6, <1>7 DEF Routed, MsgPlaced
<1>9. MsgAt(o, f, h, command, c, 1) /\ 1 \in Nat
  <2>1. o[f][h] \in Seq(Message)
    BY DEF Nets
  <2> QED BY <1>2, <1>3, <2>1, HeadAt DEF MsgAt
<1>10. ASSUME NEW g \in Host, NEW k \in Lock
       PROVE /\ ~(command = "GRANT_LOCK" /\ g = h /\ k = c) => (Granted(n, g, k) <=> Granted(o, g, k))
             /\ ~(command = "ACQ_LOCK" /\ g = f /\ k = c) => (Asked(n, g, k) <=> Asked(o, g, k))
             /\ HasOnce(o, g, Manager(k), "ACQ_LOCK", k) => HasOnce(n, g, Manager(k), "ACQ_LOCK", k)
             /\ ~(command = "RLS_LOCK" /\ g = f /\ k = c) /\ AfterRelease(o, g, k) => AfterRelease(n, g, k)
             /\ k # c \/ command = "ACQ_LOCK" => (Bears(o, g, k) => Bears(n, g, k))
  <2>0. Manager(k) \in Host
    BY ManagerIsHost
  <2>1. \A x : Matches(m, x, k) <=> x = command /\ k = c
    BY <1>3 DEF Matches
  <2>2. ~(command = "GRANT_LOCK" /\ g = h /\ k = c) => (Granted(n, g, k) <=> Granted(o, g, k))
    BY <1>2, <1>3, <2>0, <2>1, TakenHas DEF Granted
  <2>3. ~(command = "ACQ_LOCK" /\ g = f /\ k = c) => (Asked(n, g, k) <=> Asked(o, g, k))
    BY <1>2, <1>3, <2>0, <2>1, TakenHas DEF Asked
  <2>4. HasOnce(o, g, Manager(k), "ACQ_LOCK", k) => HasOnce(n, g, Manager(k), "ACQ_LOCK", k)
    BY <1>3, <2>0, TakenHas
  <2>5. ~(command = "RLS_LOCK" /\ g = f /\ k = c) /\ AfterRelease(o, g, k) => AfterRelease(n, g, k)
    BY <1>2, <1>3, <2>1, TakenAfter
  <2>6. k # c \/ command = "ACQ_LOCK" => (Bears(o, g, k) => Bears(n, g, k))
    <3>1. k # c \/ command = "ACQ_LOCK" => ~Token(Head(o[f][h]), k)
      BY <1>2, <1>3 DEF Token
    <3> QED BY <1>3, <3>1, TakenBears
  <2> QED BY <2>2, <2>3, <2>4, <2>5, <2>6
<1>11. \A g \in Host, k \in Lock : HasOnce(o, g, Manager(k), "ACQ_LOCK", k)
  BY <1>1 DEF WaitInv, RequestInv
<1>12. command = "ACQ_LOCK" => Asked(o, f, c) /\ ~Asked(n, f, c)
  <2>1. command = "ACQ_LOCK" => Matches(Head(o[f][h]), "ACQ_LOCK", c) /\ h = Manager(c)
    BY <1>2, <1>3, <1>8 DEF Matches
  <2>2. command = "ACQ_LOCK" => ~Has(n, f, h, "ACQ_LOCK", c)
    BY <1>3, <1>5, <1>8, <1>11, <2>1, TakenHas
  <2>3. command = "ACQ_LOCK" => Has(o, f, h, "ACQ_LOCK", c)
    BY <1>9 DEF Has
  <2> QED BY <2>1, <2>2, <2>3 DEF Asked
<1>13. command # "ACQ_LOCK" => /\ Bears(o, IF command = "GRANT_LOCK" THEN h ELSE f, c)
                               /\ NoneBorne(n, c)
  <2>1. AtMostOne(o, c)
    BY <1>1, <1>5 DEF LockInv, OwnerInv
  <2>2. command # "ACQ_LOCK" => Token(Head(o[f][h]), c)
    BY <1>2, <1>3 DEF Token
  <2>3. command # "ACQ_LOCK" => Bears(o, Bearer(f, h, Head(o[f][h])), c) /\ NoneBorne(n, c)
    BY <1>3, <2>1, <2>2, TakenTokens DEF NoneBorne
  <2> QED BY <1>2, <1>3, <2>3 DEF Bearer
<1>14. \A k \in Lock : GrantsKnow(n, k, locks[k].lasthostid)
  <2>1. \A k \in Lock : GrantsKnow(o, k, locks[k].lasthostid)
    BY <1>1 DEF WaitInv
  <2> QED BY <1>3, <2>1, TakenGrants
<1> HIDE <1>t
<1> QED BY <1>1, <1>4, <1>5, <1>6, <1>8, <1>9, <1>10, <1>11, <1>12, <1>13, <1>14

(* A handler at h for a message about lock c: what is left to show of it. *)
LEMMA HandlerStep ==
  ASSUME LockInv, WaitInv, NEW h \in Host, NEW c \in Lock, UNCHANGED <<pc, cur, result>>,
         \A l \in Lock : l # c \/ Manager(l) # h => locks'[l] = locks[l],
         \A g \in Host \ {h} : /\ waitFlag'[g] = waitFlag[g] /\ myLocks'[g] = myLocks[g]
                               /\ lasthostid'[g] = lasthostid[g],
         \A l \in Lock : l # c => myLocks'[h][l] = myLocks[h][l],
         \A g \in Host, k \in Lock : k # c =>
           /\ Granted(net', g, k) <=> Granted(net, g, k)
           /\ Asked(net', g, k) <=> Asked(net, g, k)
           /\ HasOnce(net', g, Manager(k), "ACQ_LOCK", k)
           /\ AfterRelease(net, g, k) => AfterRelease(net', g, k)
           /\ Bears(net, g, k) => Bears(net', g, k)
           /\ GrantsKnow(net', k, locks[k].lasthostid),
         RouteInv(net'), GrantsKnow(net', c, locks'[c].lasthostid),
         \A g \in Host : RequestInv(g, c)', QueueInv(c)', RightInv(c)', ThreadInv(h)',
         \A g \in Host \ {h} :
           pc[g] \in {"fetchGrasp", "fetchWake"} \/ (pc[g] = "lockWait" /\ waitFlag[g] = 0) =>
             locks'[cur[g]].lasthostid = locks[cur[g]].lasthostid
  PROVE WaitInv'
<1>1. ASSUME NEW l \in Lock, l # c
      PROVE /\ QueueInv(l)' /\ RightInv(l)' /\ GrantsKnow(net', l, locks'[l].lasthostid)
            /\ \A g \in Host : RequestInv(g, l)'
  <2>1. locks'[l] = locks[l] /\ QueueInv(l) /\ RightInv(l)
    BY <1>1 DEF WaitInv
  <2>2. Shifted(l)' <=> Shifted(l)
    BY DEF Shifted
  <2>3. Length(l)' = Length(l) /\ QueueInv(l)'
    BY <2>1, <2>2, ListFrame
  <2>4. ASSUME NEW g \in Host PROVE RequestInv(g, l)'
    <3>1. RequestInv(g, l)
      BY DEF WaitInv
    <3>2. myLocks'[g][l] = myLocks[g][l]
      BY <1>1
    <3>3. Asks(g, l)' <=> Asks(g, l)
      BY <3>2 DEF Asks
    <3>4. Picked(g, l)' <=> Picked(g, l)
      BY DEF Picked, Popped, Shifted
    <3>5. Own(g, l)' => AfterRelease(net', g, l)
      BY <1>1, <2>1, <3>1 DEF Own, RequestInv
    <3>6. Listed(locks'[l], Length(l)', g) <=> Listed(locks[l], Length(l), g)
      BY <2>1, <2>3
    <3> QED BY <1>1, <3>1, <3>3, <3>4, <3>5, <3>6, RequestFrame
  <2>5. RightInv(l)'
    <3>1. \A g \in Host : Busy(g, l) => Busy(g, l)' /\ BusyFor(g)' = BusyFor(g)
      BY DEF Busy, BusyFor
    <3>2. \A g \in Host : myLocks[g][l] = 1 => myLocks'[g][l] = 1
      BY <1>1
    <3> QED BY <1>1, <2>1, <3>1, <3>2, RightFrame DEF Own
  <2>6. GrantsKnow(net', l, locks'[l].lasthostid)
    BY <1>1, <2>1, Zeros
  <2> QED BY <2>3, <2>4, <2>5, <2>6
<1>2. \A g \in Host \ {h} : ThreadInv(g)'
  <2>1. OnlyAt(h) /\ ThreadsPlaced /\ cur \in [Host -> Lock]
    BY DEF OnlyAt, LockInv, PlaceInv, TypeInv, TypeOK
  <2> QED BY <2>1, OtherThreads
<1>3. /\ \A g \in Host, l \in Lock : RequestInv(g, l)'
      /\ \A l \in Lock : QueueInv(l)' /\ GrantsKnow(net', l, locks'[l].lasthostid)
      /\ \A l \in Lock : RightInv(l)'
  BY <1>1
<1> QED BY <1>2, <1>3, Assemble

(* What holds of a lock whose list no thread is at. *)
LEMMA AtQuietLock ==
  ASSUME LockInv, WaitInv, NEW c \in Lock, pc[Manager(c)] \notin RacePoints
  PROVE /\ locks[c] \in MiLockRecord /\ ListInv(locks[c]) /\ Length(c) = locks[c].waitingListCount
        /\ Different(locks[c], locks[c].waitingListCount)
        /\ ClearFrom(locks[c], locks[c].waitingListCount)
        /\ OwnerInv(c) /\ RightInv(c) /\ \A g \in Host : RequestInv(g, c)
        /\ ~Shifted(c) /\ ~(pc[Manager(c)] = "graspCount" /\ cur[Manager(c)] = c)
<1>1. QueueInv(c) /\ locks[c] \in MiLockRecord
  BY DEF WaitInv, LockInv, TypeInv, TypeOK
<1>2. ~Shifted(c) /\ pc[Manager(c)] # "graspCount"
  BY DEF Shifted, RacePoints
<1>3. Length(c) = locks[c].waitingListCount
  <2>1. locks[c].waitingListCount \in Int
    BY <1>1 DEF MiLockRecord
  <2> QED BY <1>2, <2>1 DEF Length
<1>4. OwnerInv(c) /\ RightInv(c) /\ \A g \in Host : RequestInv(g, c)
  BY DEF LockInv, WaitInv
<1> QED BY <1>1, <1>2, <1>3, <1>4 DEF QueueInv

(* The manager's thread, when what its handler changes does not concern it. *)
LEMMA SameThread ==
  ASSUME WaitInv, NEW h \in Host, pc[h] \notin RacePoints, UNCHANGED <<pc, cur, result>>,
         waitFlag'[h] = waitFlag[h], myLocks'[h][cur[h]] = myLocks[h][cur[h]], lasthostid'[h] = lasthostid[h],
         pc[h] \in {"fetchGrasp", "fetchWake"} \/ (pc[h] = "lockWait" /\ waitFlag[h] = 0) =>
           locks'[cur[h]].lasthostid = locks[cur[h]].lasthostid
  PROVE ThreadInv(h)'
<1>1. ThreadInv(h)
  BY DEF WaitInv
<1>2. ReadInv(h, pc[h], result[h], locks'[cur[h]])
  BY <1>1 DEF ThreadInv, ReadInv, RacePoints
<1>3. LoopInv(pc[h], waitFlag[h], myLocks[h][cur[h]])
  BY <1>1 DEF ThreadInv
<1>4. WokenKnows(h, pc[h], cur[h], result[h], waitFlag[h], lasthostid[h], locks'[cur[h]].lasthostid)
  <2>1. WokenKnows(h, pc[h], cur[h], result[h], waitFlag[h], lasthostid[h], locks[cur[h]].lasthostid)
    BY <1>1 DEF ThreadInv
  <2> QED BY <2>1 DEF WokenKnows
<1> QED BY <1>2, <1>3, <1>4 DEF ThreadInv

(* graspLock as a whole, for a host that has to wait: it is the last one of  *)
(* the list.                                                                *)
LEMMA GraspWaits ==
  ASSUME NEW lk \in MiLockRecord, ListInv(lk), lk.state = "LOCKED", NEW e, e = lk.waitingListCount,
         Different(lk, e), ClearFrom(lk, e), NEW f \in Host, lk.owner # f, ~Listed(lk, e, f),
         NEW k, k = graspLock(lk, f)
  PROVE /\ ListInv(k) /\ Different(k, e + 1) /\ ClearFrom(k, e + 1) /\ k.waitingListCount = e + 1
        /\ \A g : Listed(k, e + 1, g) <=> Listed(lk, e, g) \/ g = f
        /\ k.state = lk.state /\ k.owner = lk.owner /\ k.lasthostid = lk.lasthostid
<1>1. PICK p : p = PutWaiter(lk, f)
  OBVIOUS
<1>2. k = CountWaiter(p)
  BY <1>1 DEF graspLock
<1>3. /\ ListInv(p) /\ Different(p, e) /\ ClearFrom(p, e + 1)
      /\ p.waitingListCount = e /\ p.waitingList[e] = f
      /\ \A g : Listed(p, e, g) <=> Listed(lk, e, g)
  BY <1>1, PutEffect
<1>4. /\ p \in MiLockRecord
      /\ p.state = lk.state /\ p.owner = lk.owner /\ p.lasthostid = lk.lasthostid
  BY <1>1, GraspFields, LockOpsType, Zeros
<1>5. /\ ListInv(k) /\ Different(k, e + 1) /\ ClearFrom(k, e + 1)
      /\ k.waitingListCount = e + 1
      /\ \A g : Listed(k, e + 1, g) <=> Listed(p, e, g) \/ g = f
  BY <1>2, <1>3, <1>4, CountEffect
<1>6. k.state = lk.state /\ k.owner = lk.owner /\ k.lasthostid = lk.lasthostid
  BY <1>2, <1>4, CountFields
<1> QED BY <1>3, <1>5, <1>6

(* handleAcquireMsg: the request goes to the list, or is granted. *)
LEMMA WaitHandleAcquire ==
  ASSUME RaceFree, LockInv, WaitInv, NEW f \in Host, NEW h \in Host, HandleAcquire(f, h)
  PROVE WaitInv'
<1>t. /\ locks \in [Lock -> MiLockRecord] /\ cur \in [Host -> Lock] /\ net \in Nets
  BY DEF LockInv, TypeInv, TypeOK, Nets
<1>1. Arrived(f, h, "ACQ_LOCK")
  BY DEF HandleAcquire
<1>2. PICK c : c = Head(net[f][h]).lockno
  OBVIOUS
<1>3. PICK n : n = Taken(net, f, h)
  OBVIOUS
<1>4. /\ n \in Nets /\ c \in Lock /\ f # h /\ RouteInv(n)
      /\ h = Manager(c) /\ MsgAt(net, f, h, "ACQ_LOCK", c, 1)
      /\ \A g \in Host, k \in Lock :
           /\ Granted(n, g, k) <=> Granted(net, g, k)
           /\ ~(g = f /\ k = c) => (Asked(n, g, k) <=> Asked(net, g, k))
           /\ HasOnce(n, g, Manager(k), "ACQ_LOCK", k)
           /\ AfterRelease(net, g, k) => AfterRelease(n, g, k)
           /\ Bears(net, g, k) => Bears(n, g, k)
      /\ Asked(net, f, c) /\ ~Asked(n, f, c)
      /\ \A k \in Lock : GrantsKnow(n, k, locks[k].lasthostid)
  BY <1>1, <1>2, <1>3, HandledNet
<1>5. pc[h] \notin RacePoints
  BY <1>1, NotRacing DEF Arrived, LockInv, PlaceInv
<1>6. /\ locks[c] \in MiLockRecord /\ ListInv(locks[c]) /\ Length(c) = locks[c].waitingListCount
      /\ Different(locks[c], locks[c].waitingListCount)
      /\ ClearFrom(locks[c], locks[c].waitingListCount)
      /\ RightInv(c) /\ \A g \in Host : RequestInv(g, c)
      /\ ~Shifted(c) /\ ~(pc[Manager(c)] = "graspCount" /\ cur[Manager(c)] = c)
  BY <1>4, <1>5, AtQuietLock
<1>7. PICK lk : lk = graspLock(locks[c], f)
  OBVIOUS
<1>8. /\ locks' = [locks EXCEPT ![c] = lk]
      /\ net' = IF GraspResult(locks[c], f) >= -1 THEN grantLock(n, lk, c, f) ELSE n
      /\ UNCHANGED <<myLocks, waitFlag, lasthostid, pc, cur, result>>
  BY <1>2, <1>3, <1>7 DEF HandleAcquire
<1>9. /\ Asks(f, c) /\ ~Listed(locks[c], Length(c), f) /\ ~Picked(f, c) /\ ~Granted(net, f, c)
      /\ ~Own(f, c)
  <2>1. RequestInv(f, c)
    BY <1>6
  <2>2. ASSUME Own(f, c) PROVE FALSE
    <3>1. PICK j \in Nat : j < 1 /\ MsgAt(net, f, h, "RLS_LOCK", c, j)
      BY <1>4, <2>1, <2>2 DEF RequestInv, AfterRelease
    <3> QED BY <3>1 DEF MsgAt
  <2> QED BY <1>4, <2>1, <2>2 DEF RequestInv, Exclusive
<1>10. locks'[c] = lk /\ \A l \in Lock : l # c => locks'[l] = locks[l]
  BY <1>t, <1>4, <1>8
<1>11. PICK e : e = locks[c].waitingListCount
  OBVIOUS
<1>12. e \in Int /\ Length(c) = e
  BY <1>6, <1>11 DEF MiLockRecord
<1>13. /\ \A g \in Host : Asks(g, c)' <=> Asks(g, c)
       /\ \A g \in Host : Picked(g, c)' <=> Picked(g, c)
       /\ ~Shifted(c)' /\ ~(pc'[Manager(c)] = "graspCount" /\ cur'[Manager(c)] = c)
  BY <1>6, <1>8 DEF Asks, Picked, Popped, Shifted
<1>14. CASE locks[c].state = "FREE"
  <2>1. lk = TakeLock(locks[c], f) /\ e = 0
    BY <1>6, <1>7, <1>11, <1>14 DEF graspLock, ListInv
  <2>2. lk.waitingList = locks[c].waitingList /\ lk.waitingListCount = 0 /\ lk.lasthostid = locks[c].lasthostid
    BY <1>6, <1>11, <2>1, GraspFields
  <2>3. lk.state = "LOCKED" /\ lk.owner = f /\ lk \in MiLockRecord
    BY <1>6, <2>1 DEF TakeLock, MiLockRecord, HostOrNone
  <2>4. net' = grantLock(n, lk, c, f)
    <3>1. locks[c].lasthostid >= -1
      BY <1>6 DEF MiLockRecord, HostOrNone, Host, NoHost
    <3> QED BY <1>8, <1>14, <3>1 DEF GraspResult
  <2>5. PICK n2 : n2 = net'
    OBVIOUS
  <2>6. ASSUME NEW g \in Host, NEW k \in Lock
        PROVE /\ Granted(n2, g, k) <=> Granted(n, g, k) \/ (k = c /\ g = f)
              /\ Asked(n2, g, k) <=> Asked(n, g, k)
              /\ HasOnce(n, g, Manager(k), "ACQ_LOCK", k) => HasOnce(n2, g, Manager(k), "ACQ_LOCK", k)
              /\ AfterRelease(n, g, k) => AfterRelease(n2, g, k)
              /\ RouteInv(n) => RouteInv(n2)
              /\ Bears(n, g, k) => Bears(n2, g, k)
              /\ k = c /\ g = f => Bears(n2, g, k)
    BY <1>4, <2>3, <2>4, <2>5, GrantNet
  <2>7. ASSUME NEW k \in Lock PROVE GrantsKnow(n2, k, locks[k].lasthostid)
    BY <1>4, <2>2, <2>3, <2>4, <2>5, GrantGrants
  <2>8. Length(c)' = 0
    <3>1. locks'[c].waitingListCount = e
      BY <1>10, <2>1, <2>2
    <3>2. Length(c)' = e
      BY <1>12, <1>13, <3>1 DEF Length
    <3> QED BY <2>1, <3>2
  <2>9. QueueInv(c)'
    <3>1. ListInv(lk)
      BY <2>2, <2>3, Zeros DEF ListInv, Slot
    <3>2. Different(lk, 0) /\ ClearFrom(lk, 0)
      BY <1>6, <1>11, <2>1, <2>2 DEF Different, ClearFrom, Slot
    <3> QED BY <1>10, <2>2, <2>8, <3>1, <3>2 DEF QueueInv
  <2>10. ASSUME NEW g \in Host PROVE RequestInv(g, c)'
    <3>1. RequestInv(g, c)
      BY <1>6
    <3>2. ~Listed(locks'[c], Length(c)', g) /\ ~Listed(locks[c], Length(c), g)
      BY <1>10, <1>12, <2>1, <2>2, <2>8 DEF Listed, Slot
    <3>3. HasOnce(net', g, Manager(c), "ACQ_LOCK", c)
      BY <1>4, <2>5, <2>6
    <3>4. ~Asked(net', f, c) /\ Granted(net', f, c)
      BY <1>4, <2>5, <2>6
    <3>5. Own(g, c)' => g = f
      BY <1>10, <2>3 DEF Own
    <3>6. Own(g, c)' => AfterRelease(net', g, c)
      BY <3>4, <3>5 DEF AfterRelease, Asked, Has
    <3>7. CASE g = f
      BY <1>9, <1>13, <3>2, <3>3, <3>4, <3>6, <3>7 DEF RequestInv, Exclusive
    <3>8. CASE g # f
      <4>1. /\ Asked(net', g, c) <=> Asked(net, g, c)
            /\ Granted(net', g, c) <=> Granted(net, g, c)
        BY <1>4, <2>5, <2>6, <3>8
      <4> QED BY <1>4, <1>13, <3>1, <3>2, <3>3, <3>6, <4>1, RequestFrame
    <3> QED BY <3>7, <3>8
  <2>11. RightInv(c)'
    <3>1. Own(f, c)' /\ Bears(net', f, c)
      BY <1>4, <1>10, <2>3, <2>5, <2>6 DEF Own
    <3> QED BY <1>4, <3>1, RightHere
  <2>12. \A g \in Host : locks'[cur[g]].lasthostid = locks[cur[g]].lasthostid
    <3> TAKE g \in Host
    <3>1. CASE cur[g] = c
      BY <1>10, <2>2, <3>1
    <3>2. CASE cur[g] # c
      BY <1>t, <1>10, <3>2
    <3> QED BY <3>1, <3>2
  <2>13. ThreadInv(h)'
    BY <1>5, <1>8, <2>12, SameThread
  <2>14. \A g \in Host, k \in Lock : k # c =>
           /\ Granted(net', g, k) <=> Granted(net, g, k)
           /\ Asked(net', g, k) <=> Asked(net, g, k)
           /\ HasOnce(net', g, Manager(k), "ACQ_LOCK", k)
           /\ AfterRelease(net, g, k) => AfterRelease(net', g, k)
           /\ Bears(net, g, k) => Bears(net', g, k)
           /\ GrantsKnow(net', k, locks[k].lasthostid)
    BY <1>4, <2>5, <2>6, <2>7
  <2>15. RouteInv(net') /\ GrantsKnow(net', c, locks'[c].lasthostid)
    BY <1>4, <1>10, <2>2, <2>5, <2>6, <2>7
  <2> QED BY <1>4, <1>8, <1>10, <2>9, <2>10, <2>11, <2>12, <2>13, <2>14, <2>15, HandlerStep
<1>15. CASE locks[c].state # "FREE"
  <2>1. locks[c].state = "LOCKED" /\ locks[c].owner # f
    BY <1>6, <1>9, <1>15 DEF MiLockRecord, Own
  <2>2. net' = n
    BY <1>8, <1>15 DEF GraspResult
  <2>3. /\ ListInv(lk) /\ Different(lk, e + 1) /\ ClearFrom(lk, e + 1) /\ lk.waitingListCount = e + 1
        /\ \A g : Listed(lk, e + 1, g) <=> Listed(locks[c], e, g) \/ g = f
        /\ lk.state = locks[c].state /\ lk.owner = locks[c].owner /\ lk.lasthostid = locks[c].lasthostid
    <3>1. ~Listed(locks[c], locks[c].waitingListCount, f)
      BY <1>9, <1>11, <1>12
    <3>2. PICK o \in MiLockRecord : o = locks[c]
      BY <1>6
    <3>3. /\ o.state = "LOCKED" /\ o.owner # f /\ e = o.waitingListCount /\ ListInv(o) /\ Different(o, e)
          /\ ClearFrom(o, e) /\ ~Listed(o, e, f)
      BY <1>6, <1>11, <2>1, <3>1, <3>2
    <3> QED BY <1>7, <3>2, <3>3, GraspWaits
  <2>9. Length(c)' = e + 1
    BY <1>10, <1>12, <1>13, <2>3 DEF Length
  <2>10. QueueInv(c)'
    BY <1>10, <2>3, <2>9 DEF QueueInv
  <2>11. ASSUME NEW g \in Host PROVE RequestInv(g, c)'
    <3>1. RequestInv(g, c)
      BY <1>6
    <3>2. HasOnce(net', g, Manager(c), "ACQ_LOCK", c) /\ (Granted(net', g, c) <=> Granted(net, g, c))
      BY <1>4, <2>2
    <3>3. Own(g, c)' => AfterRelease(net', g, c)
      BY <1>4, <1>10, <2>2, <2>3, <3>1 DEF Own, RequestInv
    <3>4. Listed(locks'[c], Length(c)', g) <=> Listed(locks[c], Length(c), g) \/ g = f
      BY <1>10, <1>12, <2>3, <2>9
    <3>5. CASE g = f
      BY <1>4, <1>9, <1>13, <2>2, <3>2, <3>3, <3>4, <3>5 DEF RequestInv, Exclusive
    <3>6. CASE g # f
      <4>1. Asked(net', g, c) <=> Asked(net, g, c)
        BY <1>4, <2>2, <3>6
      <4> QED BY <1>4, <1>13, <3>1, <3>2, <3>3, <3>4, <3>6, <4>1, RequestFrame
    <3> QED BY <3>5, <3>6
  <2>12. RightInv(c)'
    <3>1. \A g \in Host : Busy(g, c) => Busy(g, c)' /\ BusyFor(g)' = BusyFor(g)
      BY <1>8 DEF Busy, BusyFor
    <3>2. \A g \in Host : Own(g, c)' => Own(g, c)
      BY <1>10, <2>3 DEF Own
    <3> QED BY <1>4, <1>6, <1>8, <2>2, <3>1, <3>2, RightFrame
  <2>13. \A g \in Host : locks'[cur[g]].lasthostid = locks[cur[g]].lasthostid
    <3> TAKE g \in Host
    <3>1. CASE cur[g] = c
      BY <1>10, <2>3, <3>1
    <3>2. CASE cur[g] # c
      BY <1>t, <1>10, <3>2
    <3> QED BY <3>1, <3>2
  <2>14. ThreadInv(h)'
    BY <1>5, <1>8, <2>13, SameThread
  <2>15. \A g \in Host, k \in Lock : k # c =>
           /\ Granted(net', g, k) <=> Granted(net, g, k)
           /\ Asked(net', g, k) <=> Asked(net, g, k)
           /\ HasOnce(net', g, Manager(k), "ACQ_LOCK", k)
           /\ AfterRelease(net, g, k) => AfterRelease(net', g, k)
           /\ Bears(net, g, k) => Bears(net', g, k)
           /\ GrantsKnow(net', k, locks[k].lasthostid)
    BY <1>4, <2>2
  <2>16. RouteInv(net') /\ GrantsKnow(net', c, locks'[c].lasthostid)
    BY <1>4, <1>10, <2>2, <2>3
  <2> QED BY <1>4, <1>8, <1>10, <2>10, <2>11, <2>12, <2>13, <2>14, <2>15, <2>16, HandlerStep
<1> QED BY <1>14, <1>15

(* freeLock as a whole, when a host waits: the first of the list is the owner. *)
LEMMA FreeHands ==
  ASSUME NEW lk \in MiLockRecord, ListInv(lk), lk.state = "LOCKED", NEW e, e = lk.waitingListCount, e > 0,
         Different(lk, e), ClearFrom(lk, e), NEW f \in Host, lk.owner = f, NEW w, w = lk.waitingList[0],
         NEW k, k = freeLock(lk, f)
  PROVE /\ ListInv(k) /\ Different(k, e - 1) /\ ClearFrom(k, e - 1) /\ k.waitingListCount = e - 1
        /\ \A g : Listed(k, e - 1, g) <=> Listed(lk, e, g) /\ g # w
        /\ k \in MiLockRecord /\ k.state = "LOCKED" /\ k.owner = w /\ k.lasthostid = f
        /\ w \in Host \ {f} /\ Listed(lk, e, w)
<1>1. PICK p : p = ShiftWaiters(lk)
  OBVIOUS
<1>2. e # 0 /\ k = DropWaiter(p, w, f)
  BY <1>1 DEF freeLock
<1>3. w \in Host \ {f} /\ Listed(lk, e, w)
  BY Zeros DEF ListInv, Listed
<1>4. /\ ListInv(p) /\ Different(p, e - 1) /\ ClearFrom(p, e)
      /\ p.waitingListCount = e
      /\ \A g : Listed(p, e - 1, g) <=> Listed(lk, e, g) /\ g # w
  BY <1>1, ShiftEffect
<1>5. /\ p \in MiLockRecord /\ p.state = "LOCKED"
  BY <1>1, ShiftFields, LockOpsType, Zeros
<1>6. /\ ListInv(k) /\ Different(k, e - 1) /\ ClearFrom(k, e - 1) /\ k.waitingListCount = e - 1
      /\ \A g : Listed(k, e - 1, g) <=> Listed(p, e - 1, g)
  <2>1. /\ p.waitingListCount > 0 /\ ~Listed(p, p.waitingListCount - 1, w)
        /\ Different(p, p.waitingListCount - 1) /\ ClearFrom(p, p.waitingListCount)
    BY <1>4
  <2>2. p \in MiLockRecord /\ p.state = "LOCKED" /\ ListInv(p) /\ w \in Host
    BY <1>3, <1>4, <1>5
  <2>3. /\ ListInv(k) /\ Different(k, p.waitingListCount - 1) /\ ClearFrom(k, p.waitingListCount - 1)
        /\ k.waitingListCount = p.waitingListCount - 1
        /\ \A g : Listed(k, p.waitingListCount - 1, g) <=> Listed(p, p.waitingListCount - 1, g)
    BY <1>2, <2>1, <2>2, DropEffect
  <2> QED BY <1>4, <2>3
<1>7. k \in MiLockRecord /\ k.state = "LOCKED" /\ k.owner = w /\ k.lasthostid = f
  <2>1. w \in HostOrNone
    BY <1>3, Zeros
  <2>2. DropWaiter(p, w, f) \in MiLockRecord /\ DropWaiter(p, w, f).state = p.state /\ DropWaiter(p, w, f).owner = w
    BY <1>5, <2>1, LockOpsType, LockOpsEffect
  <2>3. DropWaiter(p, w, f).lasthostid = f
    BY <1>5 DEF DropWaiter, MiLockRecord
  <2> QED BY <1>2, <1>5, <2>2, <2>3
<1> QED BY <1>3, <1>4, <1>6, <1>7

(* While the right to l is on its way, the threads told who released l last  *)
(* are told of other locks.                                                 *)
LEMMA ToldElsewhere ==
  ASSUME WaitInv, TypeInv, NEW l \in Lock, NoneHeld(l), NoneBusy(l), NEW g \in Host,
         pc[g] \in {"fetchGrasp", "fetchWake"} \/ (pc[g] = "lockWait" /\ waitFlag[g] = 0)
  PROVE cur[g] # l
<1>1. ASSUME cur[g] = l PROVE FALSE
  <2>1. pc[g] = "fetchGrasp"
    BY <1>1, NobodyTold
  <2>2. Busy(g, l)
    BY <1>1, <2>1 DEF Busy
  <2> QED BY <2>2 DEF NoneBusy
<1> QED BY <1>1

(* handleReleaseMsg: the lock is freed, or goes to the first waiter. *)
LEMMA WaitHandleRelease ==
  ASSUME RaceFree, LockInv, WaitInv, NEW f \in Host, NEW h \in Host, HandleRelease(f, h)
  PROVE WaitInv'
<1>t. /\ locks \in [Lock -> MiLockRecord] /\ cur \in [Host -> Lock] /\ net \in Nets
      /\ myLocks \in [Host -> [Lock -> {0, 1}]] /\ waitFlag \in [Host -> {0, 1}]
      /\ lasthostid \in [Host -> HostOrNone]
  BY DEF LockInv, TypeInv, TypeOK, Nets
<1>1. Arrived(f, h, "RLS_LOCK")
  BY DEF HandleRelease
<1>2. PICK c : c = Head(net[f][h]).lockno
  OBVIOUS
<1>3. PICK n : n = Taken(net, f, h)
  OBVIOUS
<1>4. /\ n \in Nets /\ c \in Lock /\ f # h /\ RouteInv(n) /\ h = Manager(c)
      /\ \A g \in Host, k \in Lock :
           /\ Granted(n, g, k) <=> Granted(net, g, k)
           /\ Asked(n, g, k) <=> Asked(net, g, k)
           /\ HasOnce(n, g, Manager(k), "ACQ_LOCK", k)
           /\ ~(g = f /\ k = c) /\ AfterRelease(net, g, k) => AfterRelease(n, g, k)
           /\ k # c => (Bears(net, g, k) => Bears(n, g, k))
      /\ Bears(net, f, c) /\ NoneBorne(n, c)
      /\ \A k \in Lock : GrantsKnow(n, k, locks[k].lasthostid)
  BY <1>1, <1>2, <1>3, HandledNet
<1>5. pc[h] \notin RacePoints
  BY <1>1, NotRacing DEF Arrived, LockInv, PlaceInv
<1>6. /\ locks[c] \in MiLockRecord /\ ListInv(locks[c]) /\ Length(c) = locks[c].waitingListCount
      /\ Different(locks[c], locks[c].waitingListCount)
      /\ ClearFrom(locks[c], locks[c].waitingListCount)
      /\ OwnerInv(c) /\ \A g \in Host : RequestInv(g, c)
      /\ ~Shifted(c) /\ ~(pc[Manager(c)] = "graspCount" /\ cur[Manager(c)] = c)
  BY <1>4, <1>5, AtQuietLock
<1>7. PICK lk : lk = freeLock(locks[c], f)
  OBVIOUS
<1>8. PICK w : w = FreeResult(locks[c], f)
  OBVIOUS
<1>9. /\ locks' = [locks EXCEPT ![c] = lk]
      /\ net' = grantLock(n, lk, c, w)
      /\ lasthostid' = [lasthostid EXCEPT ![h] = IF w = h THEN f ELSE @]
      /\ waitFlag' = [waitFlag EXCEPT ![h] = IF w = h THEN 0 ELSE @]
      /\ myLocks' = [myLocks EXCEPT ![h][c] = IF w = h THEN 1 ELSE @]
      /\ UNCHANGED <<pc, cur, result>>
  BY <1>2, <1>3, <1>7, <1>8 DEF HandleRelease
<1>10. Own(f, c) /\ NoneBusy(c) /\ NoneHeld(c)
  BY <1>4, <1>6, WhereRight
<1>11. locks'[c] = lk /\ \A l \in Lock : l # c => locks'[l] = locks[l]
  BY <1>t, <1>4, <1>9
<1>12. /\ \A g \in Host \ {h} : /\ waitFlag'[g] = waitFlag[g] /\ myLocks'[g] = myLocks[g]
                                /\ lasthostid'[g] = lasthostid[g]
       /\ \A l \in Lock : l # c => myLocks'[h][l] = myLocks[h][l]
       /\ w # h => /\ waitFlag'[h] = waitFlag[h] /\ lasthostid'[h] = lasthostid[h]
                   /\ myLocks'[h][c] = myLocks[h][c]
       /\ w = h => waitFlag'[h] = 0 /\ lasthostid'[h] = f /\ myLocks'[h][c] = 1
  BY <1>t, <1>4, <1>9
<1>13. PICK e : e = locks[c].waitingListCount
  OBVIOUS
<1>14. e \in Nat /\ Length(c) = e
  BY <1>6, <1>13 DEF ListInv, Slot
<1>15. /\ \A g \in Host : Picked(g, c)' <=> Picked(g, c)
       /\ ~Shifted(c)' /\ ~(pc'[Manager(c)] = "graspCount" /\ cur'[Manager(c)] = c)
  BY <1>6, <1>9 DEF Picked, Popped, Shifted
<1>16. /\ w \notin Host => lk.state = "FREE" /\ lk.owner = NoHost /\ e = 0
       /\ w \in Host => lk.state = "LOCKED" /\ lk.owner = w /\ w # f /\ Listed(locks[c], e, w)
       /\ lk \in MiLockRecord /\ lk.lasthostid = f /\ ListInv(lk)
       /\ lk.waitingListCount = (IF w \in Host THEN e - 1 ELSE e)
       /\ Different(lk, IF w \in Host THEN e - 1 ELSE e)
       /\ ClearFrom(lk, IF w \in Host THEN e - 1 ELSE e)
       /\ \A g : Listed(lk, IF w \in Host THEN e - 1 ELSE e, g) <=> Listed(locks[c], e, g) /\ g # w
  <2>0. PICK o \in MiLockRecord : o = locks[c]
    BY <1>6
  <2>1. /\ o.state = "LOCKED" /\ o.owner = f /\ e = o.waitingListCount /\ ListInv(o) /\ Different(o, e)
        /\ ClearFrom(o, e) /\ lk = freeLock(o, f) /\ w = FreeResult(o, f)
    BY <1>6, <1>7, <1>8, <1>10, <1>13, <2>0 DEF Own
  <2>2. CASE e = 0
    <3>1. lk = SetFree(o, f) /\ w = -5
      BY <2>1, <2>2 DEF freeLock, FreeResult
    <3>2. w \notin Host
      BY <3>1 DEF Host
    <3>3. /\ lk.waitingList = o.waitingList /\ lk.waitingListCount = 0
          /\ lk.lasthostid = f /\ lk.state = "FREE" /\ lk.owner = NoHost
      <4>1. o.waitingListCount = 0
        BY <2>1, <2>2
      <4> QED BY ONLY <2>0, <1>4, <3>1, <4>1, SetFreeFields
    <3>4. lk \in MiLockRecord
      BY <3>1, LockOpsType, Zeros
    <3>5. ListInv(lk)
      BY <3>3, Zeros DEF ListInv, Slot
    <3>6. Different(lk, 0) /\ ClearFrom(lk, 0) /\ \A g : Listed(lk, 0, g) <=> FALSE
      BY <2>1, <2>2, <3>3 DEF Different, ClearFrom, Listed, Slot
    <3>7. \A g : Listed(o, 0, g) <=> FALSE
      BY DEF Listed, Slot
    <3> QED BY <2>0, <2>2, <3>2, <3>3, <3>4, <3>5, <3>6, <3>7
  <2>3. CASE e # 0
    <3>1. e > 0 /\ w = o.waitingList[0]
      BY <1>14, <2>1, <2>3 DEF FreeResult
    <3>2. /\ ListInv(lk) /\ Different(lk, e - 1) /\ ClearFrom(lk, e - 1) /\ lk.waitingListCount = e - 1
          /\ \A g : Listed(lk, e - 1, g) <=> Listed(o, e, g) /\ g # w
          /\ lk \in MiLockRecord /\ lk.state = "LOCKED" /\ lk.owner = w /\ lk.lasthostid = f
          /\ w \in Host \ {f} /\ Listed(o, e, w)
      BY <2>1, <3>1, FreeHands
    <3> QED BY <2>0, <3>2
  <2> QED BY <2>2, <2>3
<1>17. PICK n2 : n2 = net'
  OBVIOUS
<1>18. ASSUME NEW g \in Host, NEW k \in Lock
       PROVE /\ Granted(n2, g, k) <=> Granted(n, g, k) \/ (k = c /\ g = w /\ g # h)
             /\ Asked(n2, g, k) <=> Asked(n, g, k)
             /\ HasOnce(n, g, Manager(k), "ACQ_LOCK", k) => HasOnce(n2, g, Manager(k), "ACQ_LOCK", k)
             /\ AfterRelease(n, g, k) => AfterRelease(n2, g, k)
             /\ RouteInv(n) => RouteInv(n2)
             /\ Bears(n, g, k) => Bears(n2, g, k)
             /\ k = c /\ g = w /\ g # h => Bears(n2, g, k)
  BY <1>4, <1>9, <1>16, <1>17, GrantNet
<1>19. ASSUME NEW k \in Lock, k # c PROVE GrantsKnow(n2, k, locks[k].lasthostid)
  BY <1>4, <1>9, <1>16, <1>17, <1>19, GrantGrants
<1>20. GrantsKnow(net', c, locks'[c].lasthostid)
  <2>1. GrantsKnow(n, c, f)
    <3> SUFFICES ASSUME NEW g \in Host, NEW i \in Nat, MsgAt(n, Manager(c), g, "GRANT_LOCK", c, i)
                 PROVE FALSE
      BY DEF GrantsKnow
    <3>1. Carries(n, Manager(c), g, i, c) /\ Bearer(Manager(c), g, n[Manager(c)][g][i]) = g
      BY DEF MsgAt, Carries, Token, Bearer
    <3>2. Bears(n, g, c)
      BY <1>4, <3>1, ManagerIsHost DEF Bears
    <3> QED BY <1>4, <3>2 DEF NoneBorne
  <2>2. GrantsKnow(n2, c, f)
    BY <1>4, <1>9, <1>16, <1>17, <2>1, GrantGrants
  <2> QED BY <1>11, <1>16, <1>17, <2>2
<1>21. Length(c)' = IF w \in Host THEN e - 1 ELSE e
  <2>1. PICK j : j = IF w \in Host THEN e - 1 ELSE e
    OBVIOUS
  <2>2. j \in Int /\ locks'[c].waitingListCount = j
    BY <1>11, <1>14, <1>16, <2>1
  <2>3. Length(c)' = j
    BY <1>15, <2>2 DEF Length
  <2> QED BY <2>1, <2>3
<1>22. QueueInv(c)'
  BY <1>11, <1>15, <1>16, <1>21 DEF QueueInv
<1>23. ASSUME NEW g \in Host PROVE RequestInv(g, c)'
  <2>1. RequestInv(g, c)
    BY <1>6
  <2>2. Listed(locks'[c], Length(c)', g) <=> Listed(locks[c], Length(c), g) /\ g # w
    BY <1>11, <1>14, <1>16, <1>21
  <2>3. HasOnce(net', g, Manager(c), "ACQ_LOCK", c) /\ (Asked(net', g, c) <=> Asked(net, g, c))
    BY <1>4, <1>17, <1>18
  <2>4. Granted(net', g, c) <=> Granted(net, g, c) \/ (g = w /\ g # h)
    BY <1>4, <1>17, <1>18
  <2>5. Own(g, c)' => g = w
    BY <1>11, <1>16 DEF Own
  <2>6. CASE g = w
    <3>1. Asks(g, c) /\ ~Asked(net, g, c) /\ ~Picked(g, c) /\ ~Granted(net, g, c)
      BY <1>14, <1>16, <2>1, <2>6 DEF RequestInv, Exclusive
    <3>2. AfterRelease(net', g, c)
      BY <2>3, <3>1 DEF AfterRelease, Asked, Has
    <3>3. Asks(g, c)' <=> g # h
      BY <1>9, <1>12, <2>6, <3>1 DEF Asks
    <3> QED BY <1>15, <2>2, <2>3, <2>4, <2>6, <3>1, <3>2, <3>3 DEF RequestInv, Exclusive
  <2>7. CASE g # w
    <3>1. Asks(g, c)' <=> Asks(g, c)
      <4>1. myLocks'[g][c] = myLocks[g][c]
        BY <1>12, <2>7
      <4> QED BY <1>9, <4>1 DEF Asks
    <3>2. Own(g, c)' => AfterRelease(net', g, c)
      BY <2>5, <2>7
    <3> QED BY <1>4, <1>15, <2>1, <2>2, <2>3, <2>4, <2>7, <3>1, <3>2, RequestFrame
  <2> QED BY <2>6, <2>7
<1>24. RightInv(c)'
  <2>1. CASE w \in Host
    <3>1. Own(w, c)'
      BY <1>11, <1>16, <2>1 DEF Own
    <3>2. myLocks'[w][c] = 1 \/ Bears(net', w, c)
      BY <1>4, <1>12, <1>17, <1>18, <2>1
    <3> QED BY <1>4, <2>1, <3>1, <3>2, RightHere
  <2>2. CASE w \notin Host
    BY <1>11, <1>16, <2>2 DEF RightInv, Own
  <2> QED BY <2>1, <2>2
<1>25. \A g \in Host : pc[g] \in {"fetchGrasp", "fetchWake"} \/ (pc[g] = "lockWait" /\ waitFlag[g] = 0) =>
         locks'[cur[g]].lasthostid = locks[cur[g]].lasthostid
  <2> SUFFICES ASSUME NEW g \in Host,
                      pc[g] \in {"fetchGrasp", "fetchWake"} \/ (pc[g] = "lockWait" /\ waitFlag[g] = 0)
               PROVE locks'[cur[g]] = locks[cur[g]]
    OBVIOUS
  <2>1. cur[g] # c
    BY <1>4, <1>10, ToldElsewhere DEF LockInv
  <2> QED BY <1>t, <1>11, <2>1
<1>26. ThreadInv(h)'
  <2>1. CASE w # h
    <3>1. myLocks'[h][cur[h]] = myLocks[h][cur[h]]
      BY <1>t, <1>12, <2>1
    <3> QED BY <1>5, <1>9, <1>12, <1>25, <2>1, <3>1, SameThread
  <2>2. CASE w = h
    <3>1. Asks(h, c)
      <4>1. RequestInv(h, c) /\ Listed(locks[c], Length(c), h)
        BY <1>6, <1>14, <1>16, <2>2
      <4> QED BY <4>1 DEF RequestInv
    <3>2. cur[h] = c /\ pc[h] = "lockWait"
      BY <1>5, <3>1 DEF Asks, RacePoints
    <3>3. ReadInv(h, pc'[h], result'[h], locks'[cur'[h]])
      BY <1>9, <3>2 DEF ReadInv
    <3>4. LoopInv(pc'[h], waitFlag'[h], myLocks'[h][cur'[h]])
      BY <1>9, <1>12, <2>2, <3>2 DEF LoopInv
    <3>5. WokenKnows(h, pc'[h], cur'[h], result'[h], waitFlag'[h], lasthostid'[h], locks'[cur'[h]].lasthostid)
      BY <1>4, <1>9, <1>11, <1>12, <1>16, <2>2, <3>2 DEF WokenKnows
    <3> QED BY <3>3, <3>4, <3>5 DEF ThreadInv
  <2> QED BY <2>1, <2>2
<1>27. \A g \in Host, k \in Lock : k # c =>
         /\ Granted(net', g, k) <=> Granted(net, g, k)
         /\ Asked(net', g, k) <=> Asked(net, g, k)
         /\ HasOnce(net', g, Manager(k), "ACQ_LOCK", k)
         /\ AfterRelease(net, g, k) => AfterRelease(net', g, k)
         /\ Bears(net, g, k) => Bears(net', g, k)
         /\ GrantsKnow(net', k, locks[k].lasthostid)
  BY <1>4, <1>17, <1>18, <1>19
<1>28. RouteInv(net')
  BY <1>4, <1>17, <1>18
<1> QED BY <1>4, <1>9, <1>11, <1>12, <1>20, <1>22, <1>23, <1>24, <1>25, <1>26, <1>27, <1>28, HandlerStep

(* handleGrantMsg: the wait is over. *)
LEMMA WaitHandleGrant ==
  ASSUME RaceFree, LockInv, WaitInv, NEW f \in Host, NEW h \in Host, HandleGrant(f, h)
  PROVE WaitInv'
<1>t. /\ locks \in [Lock -> MiLockRecord] /\ cur \in [Host -> Lock] /\ net \in Nets
      /\ myLocks \in [Host -> [Lock -> {0, 1}]] /\ waitFlag \in [Host -> {0, 1}]
      /\ lasthostid \in [Host -> HostOrNone]
  BY DEF LockInv, TypeInv, TypeOK, Nets
<1>1. Arrived(f, h, "GRANT_LOCK")
  BY DEF HandleGrant
<1>2. PICK c : c = Head(net[f][h]).lockno
  OBVIOUS
<1>3. PICK n : n = Taken(net, f, h)
  OBVIOUS
<1>4. /\ c \in Lock /\ f # h /\ f = Manager(c) /\ RouteInv(n)
      /\ MsgAt(net, f, h, "GRANT_LOCK", c, 1)
      /\ Bears(net, h, c) /\ NoneBorne(n, c)
      /\ \A k \in Lock : GrantsKnow(n, k, locks[k].lasthostid)
      /\ \A g \in Host, k \in Lock :
           /\ ~(g = h /\ k = c) => (Granted(n, g, k) <=> Granted(net, g, k))
           /\ Asked(n, g, k) <=> Asked(net, g, k)
           /\ HasOnce(n, g, Manager(k), "ACQ_LOCK", k)
           /\ AfterRelease(net, g, k) => AfterRelease(n, g, k)
           /\ k # c => (Bears(net, g, k) => Bears(n, g, k))
  BY <1>1, <1>2, <1>3, HandledNet
<1>5. PICK m : m = Head(net[f][h])
  OBVIOUS
<1>6. /\ net' = n
      /\ lasthostid' = [lasthostid EXCEPT ![h] = m.lasthostid]
      /\ waitFlag' = [waitFlag EXCEPT ![h] = 0]
      /\ myLocks' = [myLocks EXCEPT ![h][c] = 1]
      /\ UNCHANGED <<locks, pc, cur, result>>
  BY <1>2, <1>3, <1>5 DEF HandleGrant
<1>7. /\ \A g \in Host \ {h} : /\ waitFlag'[g] = waitFlag[g] /\ myLocks'[g] = myLocks[g]
                               /\ lasthostid'[g] = lasthostid[g]
      /\ \A l \in Lock : l # c => myLocks'[h][l] = myLocks[h][l]
      /\ waitFlag'[h] = 0 /\ lasthostid'[h] = m.lasthostid /\ myLocks'[h][c] = 1
  BY <1>t, <1>4, <1>6
<1>8. m.lasthostid = locks[c].lasthostid
  <2>1. GrantsKnow(net, c, locks[c].lasthostid) /\ net[f][h] \in Seq(Message) /\ net[f][h] # << >>
    BY <1>t, <1>1, <1>4 DEF WaitInv, Nets, Arrived
  <2>2. net[f][h][1].lasthostid = locks[c].lasthostid
    BY <1>4, <2>1 DEF GrantsKnow
  <2> QED BY <1>5, <2>1, <2>2, HeadAt
<1>9. RequestInv(h, c) /\ Granted(net, h, c)
  BY <1>4 DEF WaitInv, Granted, Has
<1>10. /\ cur[h] = c /\ pc[h] = "lockWait"
       /\ ~Asked(net, h, c) /\ ~Listed(locks[c], Length(c), h) /\ ~Picked(h, c)
  <2>1. Asks(h, c) /\ ~Asked(net, h, c) /\ ~Listed(locks[c], Length(c), h) /\ ~Picked(h, c)
    BY <1>9 DEF RequestInv, Exclusive
  <2>2. pc[h] # "setWait"
    <3>1. pc[h] \notin RacePoints
      BY <1>1, NotRacing DEF Arrived, LockInv, PlaceInv
    <3> QED BY <3>1 DEF RacePoints
  <2> QED BY <2>1, <2>2 DEF Asks
<1>11. ~Granted(net', h, c)
  <2> SUFFICES ASSUME NEW i \in Nat, MsgAt(n, Manager(c), h, "GRANT_LOCK", c, i)
               PROVE FALSE
    BY <1>6 DEF Granted, Has
  <2>1. Carries(n, Manager(c), h, i, c) /\ Bearer(Manager(c), h, n[Manager(c)][h][i]) = h
    BY DEF MsgAt, Carries, Token, Bearer
  <2>2. Bears(n, h, c)
    BY <1>4, <2>1, ManagerIsHost DEF Bears
  <2> QED BY <1>4, <2>2 DEF NoneBorne
<1>12. QueueInv(c)' /\ Length(c)' = Length(c)
  <2>1. QueueInv(c) /\ (Shifted(c)' <=> Shifted(c))
    BY <1>4, <1>6 DEF WaitInv, Shifted
  <2> QED BY <1>4, <1>6, <2>1, ListFrame
<1>13. ASSUME NEW g \in Host PROVE RequestInv(g, c)'
  <2>1. RequestInv(g, c)
    BY <1>4 DEF WaitInv
  <2>2. Picked(g, c)' <=> Picked(g, c)
    BY <1>6 DEF Picked, Popped, Shifted
  <2>3. Listed(locks'[c], Length(c)', g) <=> Listed(locks[c], Length(c), g)
    BY <1>6, <1>12
  <2>4. /\ Asked(net', g, c) <=> Asked(net, g, c)
        /\ HasOnce(net', g, Manager(c), "ACQ_LOCK", c)
        /\ Own(g, c)' => AfterRelease(net', g, c)
    BY <1>4, <1>6, <2>1 DEF RequestInv, Own
  <2>5. CASE g = h
    <3>1. ~Asks(g, c)'
      BY <1>7, <2>5 DEF Asks
    <3> QED BY <1>10, <1>11, <2>2, <2>3, <2>4, <2>5, <3>1 DEF RequestInv, Exclusive
  <2>6. CASE g # h
    <3>1. myLocks'[g] = myLocks[g]
      BY <1>7, <2>6
    <3>2. Asks(g, c)' <=> Asks(g, c)
      BY <1>6, <3>1 DEF Asks
    <3>3. Granted(net', g, c) <=> Granted(net, g, c)
      BY <1>4, <1>6, <2>6
    <3> QED BY <1>4, <2>1, <2>2, <2>3, <2>4, <3>2, <3>3, RequestFrame
  <2> QED BY <2>5, <2>6
<1>14. RightInv(c)'
  <2>1. Own(h, c)
    BY <1>4 DEF LockInv, OwnerInv
  <2>2. Own(h, c)' /\ myLocks'[h][c] = 1
    BY <1>6, <1>7, <2>1 DEF Own
  <2> QED BY <1>4, <2>2, RightHere
<1>15. ThreadInv(h)'
  <2>1. ReadInv(h, pc'[h], result'[h], locks'[cur'[h]])
    BY <1>6, <1>10 DEF ReadInv
  <2>2. LoopInv(pc'[h], waitFlag'[h], myLocks'[h][cur'[h]])
    BY <1>6, <1>7, <1>10 DEF LoopInv
  <2>3. WokenKnows(h, pc'[h], cur'[h], result'[h], waitFlag'[h], lasthostid'[h], locks'[cur'[h]].lasthostid)
    BY <1>4, <1>6, <1>7, <1>8, <1>10 DEF WokenKnows
  <2> QED BY <2>1, <2>2, <2>3 DEF ThreadInv
<1>16. \A g \in Host, k \in Lock : k # c =>
         /\ Granted(net', g, k) <=> Granted(net, g, k)
         /\ Asked(net', g, k) <=> Asked(net, g, k)
         /\ HasOnce(net', g, Manager(k), "ACQ_LOCK", k)
         /\ AfterRelease(net, g, k) => AfterRelease(net', g, k)
         /\ Bears(net, g, k) => Bears(net', g, k)
         /\ GrantsKnow(net', k, locks[k].lasthostid)
  BY <1>4, <1>6
<1>17. RouteInv(net') /\ GrantsKnow(net', c, locks'[c].lasthostid)
  BY <1>4, <1>6
<1>18. /\ \A l \in Lock : l # c \/ Manager(l) # h => locks'[l] = locks[l]
       /\ \A g \in Host \ {h} :
            pc[g] \in {"fetchGrasp", "fetchWake"} \/ (pc[g] = "lockWait" /\ waitFlag[g] = 0) =>
              locks'[cur[g]].lasthostid = locks[cur[g]].lasthostid
  BY <1>6
<1> QED BY <1>4, <1>6, <1>7, <1>12, <1>13, <1>14, <1>15, <1>16, <1>17, <1>18, HandlerStep

-----------------------------------------------------------------------------
(* All steps *)

(* A barrier completes: only the last releasers recorded are reset. *)
LEMMA WaitReset ==
  ASSUME LockInv, WaitInv, BarrierReset
  PROVE WaitInv'
<1>t. locks \in [Lock -> MiLockRecord]
  BY DEF LockInv, TypeInv, TypeOK
<1>1. /\ \A h \in Host : pc[h] = "app"
      /\ \A f, t \in Host : net[f][t] = << >>
      /\ UNCHANGED <<myLocks, waitFlag, lasthostid, pc, cur, result, net>>
      /\ locks' = [l \in Lock |-> IF Manager(l) = 0
                                  THEN [locks[l] EXCEPT !.lasthostid = NoHost] ELSE locks[l]]
  BY DEF BarrierReset
<1>2. ASSUME NEW lk \in MiLockRecord
      PROVE LET r == [lk EXCEPT !.lasthostid = NoHost]
            IN /\ r.state = lk.state /\ r.owner = lk.owner /\ r.waitingList = lk.waitingList
               /\ r.waitingListCount = lk.waitingListCount
  BY DEF MiLockRecord
<1>3. ASSUME NEW l \in Lock
      PROVE /\ locks'[l].state = locks[l].state /\ locks'[l].owner = locks[l].owner
            /\ locks'[l].waitingList = locks[l].waitingList
            /\ locks'[l].waitingListCount = locks[l].waitingListCount
  <2>1. locks[l] \in MiLockRecord
    BY <1>t
  <2>2. CASE Manager(l) = 0
    <3>1. locks'[l] = [locks[l] EXCEPT !.lasthostid = NoHost]
      BY <1>1, <2>2
    <3> QED BY <1>2, <2>1, <3>1
  <2>3. CASE Manager(l) # 0
    <3>1. locks'[l] = locks[l]
      BY <1>1, <2>3
    <3> QED BY <3>1
  <2> QED BY <2>2, <2>3
<1>4. ASSUME NEW l \in Lock PROVE QueueInv(l)' /\ Length(l)' = Length(l)
  <2>1. Shifted(l)' <=> Shifted(l)
    BY <1>1 DEF Shifted
  <2>2. Length(l)' = Length(l)
    BY <1>3, <2>1 DEF Length
  <2>3. QueueInv(l)
    BY DEF WaitInv
  <2> QED BY <1>1, <1>3, <2>2, <2>3 DEF QueueInv, ListInv, Different, ClearFrom
<1>5. ASSUME NEW g \in Host, NEW l \in Lock PROVE RequestInv(g, l)'
  <2>1. RequestInv(g, l)
    BY DEF WaitInv
  <2>2. Listed(locks'[l], Length(l)', g) <=> Listed(locks[l], Length(l), g)
    BY <1>3, <1>4 DEF Listed
  <2>3. (Asks(g, l)' <=> Asks(g, l)) /\ (Picked(g, l)' <=> Picked(g, l))
    BY <1>1 DEF Asks, Picked, Popped, Shifted
  <2>4. /\ Asked(net', g, l) <=> Asked(net, g, l)
        /\ Granted(net', g, l) <=> Granted(net, g, l)
        /\ HasOnce(net', g, Manager(l), "ACQ_LOCK", l)
        /\ Own(g, l)' => AfterRelease(net', g, l)
    BY <1>1, <1>3, <2>1 DEF RequestInv, Own
  <2> QED BY <2>1, <2>2, <2>3, <2>4, RequestFrame
<1>6. ASSUME NEW l \in Lock PROVE RightInv(l)' /\ GrantsKnow(net', l, locks'[l].lasthostid)
  <2>1. \A g \in Host : Own(g, l)' => Own(g, l)
    BY <1>3 DEF Own
  <2>2. \A g \in Host : Busy(g, l) => Busy(g, l)' /\ BusyFor(g)' = BusyFor(g)
    BY <1>1 DEF Busy, BusyFor
  <2>3. RightInv(l)'
    <3>1. RightInv(l)
      BY DEF WaitInv
    <3> QED BY <1>1, <2>1, <2>2, <3>1, RightFrame
  <2>4. GrantsKnow(net', l, locks'[l].lasthostid)
    <3>1. \A h \in Host : net'[Manager(l)][h] = << >>
      BY <1>1, ManagerIsHost
    <3> QED BY <3>1 DEF GrantsKnow, MsgAt
  <2> QED BY <2>3, <2>4
<1>7. ASSUME NEW g \in Host PROVE ThreadInv(g)'
  <2>1. waitFlag[g] # 1
    BY <1>1 DEF WaitInv, ThreadInv, LoopInv
  <2> QED BY <1>1, <2>1 DEF ThreadInv, ReadInv, LoopInv, WokenKnows
<1>8. RouteInv(net')
  BY <1>1 DEF WaitInv
<1> QED BY <1>4, <1>5, <1>6, <1>7, <1>8 DEF WaitInv

(* At first nobody waits and no message is on its way. *)
LEMMA WaitInit == Init => WaitInv
<1> SUFFICES ASSUME Init PROVE WaitInv
  OBVIOUS
<1>1. /\ \A h \in Host : pc[h] = "app" /\ waitFlag[h] = 0
      /\ \A f, t \in Host : net[f][t] = << >>
      /\ \A l \in Lock : locks[l] = FreshLock
  BY DEF Init
<1>2. /\ FreshLock.state = "FREE" /\ FreshLock.owner = NoHost /\ FreshLock.waitingListCount = 0
      /\ \A i \in Slot : FreshLock.waitingList[i] = NoHost
  BY DEF FreshLock
<1>3. ASSUME NEW f \in Host, NEW t \in Host, NEW command, NEW l, NEW i \in Nat
      PROVE ~MsgAt(net, f, t, command, l, i)
  BY <1>1 DEF MsgAt
<1>4. ASSUME NEW l \in Lock
      PROVE /\ ~Shifted(l) /\ \A g : ~Picked(g, l)
            /\ Manager(l) \in Host /\ pc[Manager(l)] = "app"
  BY <1>1, ManagerIsHost DEF Shifted, Picked, Popped
<1>5. ASSUME NEW l \in Lock PROVE QueueInv(l) /\ \A g : ~Listed(locks[l], Length(l), g)
  <2>1. PICK e : e = 0
    OBVIOUS
  <2>2. Length(l) = e
    BY <1>1, <1>2, <1>4, <2>1 DEF Length
  <2>3. \A g : ~Listed(locks[l], e, g)
    BY <2>1 DEF Listed, Slot
  <2>4. ListInv(locks[l])
    BY <1>1, <1>2, Zeros DEF ListInv, Slot
  <2>5. Different(locks[l], e) /\ ClearFrom(locks[l], locks[l].waitingListCount)
    BY <1>1, <1>2, <2>1 DEF Different, ClearFrom, Slot
  <2> QED BY <2>2, <2>3, <2>4, <2>5 DEF QueueInv
<1>6. ASSUME NEW g \in Host, NEW l \in Lock PROVE RequestInv(g, l)
  <2>1. ~Asked(net, g, l) /\ ~Granted(net, g, l) /\ HasOnce(net, g, Manager(l), "ACQ_LOCK", l)
        /\ AfterRelease(net, g, l)
    BY <1>3, <1>4 DEF Asked, Granted, Has, HasOnce, AfterRelease
  <2>2. ~Asks(g, l)
    BY <1>1 DEF Asks
  <2> QED BY <1>4, <1>5, <2>1, <2>2 DEF RequestInv, Exclusive
<1>7. ASSUME NEW l \in Lock PROVE RightInv(l) /\ GrantsKnow(net, l, locks[l].lasthostid)
  BY <1>1, <1>2, <1>3, <1>4 DEF RightInv, Own, GrantsKnow
<1>8. ASSUME NEW h \in Host PROVE ThreadInv(h)
  BY <1>1 DEF ThreadInv, ReadInv, LoopInv, WokenKnows
<1>9. RouteInv(net)
  BY <1>1 DEF RouteInv
<1> QED BY <1>5, <1>6, <1>7, <1>8, <1>9 DEF WaitInv

LEMMA WaitStep == RaceFree /\ LockInv /\ WaitInv /\ [Next]_vars => WaitInv'
<1> SUFFICES ASSUME RaceFree, LockInv, WaitInv, [Next]_vars PROVE WaitInv'
  OBVIOUS
<1>1. CASE UNCHANGED vars
  BY <1>1 DEF vars, WaitInv, RequestInv, QueueInv, RightInv, ThreadInv, Asks, Picked, Popped, Shifted,
              Length, Own, Busy, BusyFor
<1>2. ASSUME NEW h \in Host, Call(h) PROVE WaitInv'
  BY <1>2, WaitLockRemote, WaitLockLocal DEF Call
<1>3. ASSUME NEW h \in Host, Unlock(h) PROVE WaitInv'
  BY <1>3, WaitUnlockRemote, WaitUnlockLocal DEF Unlock
<1>4. ASSUME NEW h \in Host, Main(h) PROVE WaitInv'
  <2>1. CASE GraspSet(h) \/ GraspPut(h) \/ GraspCount(h)
    BY <2>1, WaitGraspSet, WaitGraspPut, WaitGraspCount
  <2>2. CASE SetWait(h) \/ Wake(h)
    BY <2>2, WaitSpin
  <2>3. CASE AcquiredAfterWait(h) \/ AcquiredAtOnce(h)
    BY <2>3, WaitAcquired
  <2>4. CASE FreeSet(h) \/ FreeShift(h) \/ FreeClear(h)
    BY <2>4, WaitFreeSet, WaitFreeShift, WaitFreeClear
  <2>5. CASE Grant(h)
    BY <2>5, WaitGrant
  <2> QED BY <1>4, <2>1, <2>2, <2>3, <2>4, <2>5, NoStore DEF Main, LockInv, PlaceInv
<1>5. ASSUME NEW f \in Host, NEW h \in Host, Dispatch(f, h) PROVE WaitInv'
  BY <1>5, WaitHandleAcquire, WaitHandleRelease, WaitHandleGrant DEF Dispatch
<1>6. CASE BarrierReset
  BY <1>6, WaitReset
<1> QED BY <1>1, <1>2, <1>3, <1>4, <1>5, <1>6 DEF Next

-----------------------------------------------------------------------------
(* The theorems *)

(* WaitInv holds throughout: every waiting host has one request for its      *)
(* lock, in one place.                                                      *)
LEMMA WaitInvariant == ASSUME RaceFree PROVE Spec => [](LockInv /\ WaitInv)
<1>1. Init => WaitInv
  BY WaitInit
<1>2. LockInv /\ WaitInv /\ [Next]_vars => WaitInv'
  BY WaitStep
<1>3. Spec => []LockInv
  BY LockInvariant
<1> QED BY <1>1, <1>2, <1>3, PTL DEF Spec

LEMMA ZeroOrOne ==
  ASSUME NEW S, \A x, y \in S : x = y
  PROVE Cardinality(S) = IF S = {} THEN 0 ELSE 1
<1>1. CASE S = {}
  BY <1>1, FS_EmptySet
<1>2. CASE S # {}
  <2>1. PICK x : x \in S
    BY <1>2
  <2>2. S = {x}
    BY <2>1
  <2> QED BY <1>2, <2>2, FS_Singleton
<1> QED BY <1>1, <1>2

(* The messages of a kind, counted: none, or one. *)
LEMMA CountOfMessages ==
  ASSUME TypeInv, NEW f \in Host, NEW t \in Host, NEW command, NEW l,
         HasOnce(net, f, t, command, l)
  PROVE Cardinality(InFlight(f, t, command, l)) = IF Has(net, f, t, command, l) THEN 1 ELSE 0
<1>1. DOMAIN net[f][t] = 1 .. Len(net[f][t])
  <2>1. net[f][t] \in Seq(Message)
    BY DEF TypeInv, TypeOK
  <2> QED BY <2>1
<1>2. \A i : i \in InFlight(f, t, command, l) <=> i \in Nat /\ MsgAt(net, f, t, command, l, i)
  BY <1>1 DEF InFlight, MsgAt
<1>3. \A i, j \in InFlight(f, t, command, l) : i = j
  BY <1>2 DEF HasOnce
<1>4. InFlight(f, t, command, l) = {} <=> ~Has(net, f, t, command, l)
  BY <1>2 DEF Has
<1> QED BY <1>3, <1>4, ZeroOrOne

(* The places of a host in a waitingList, counted: none, or one. *)
LEMMA CountOfPlaces ==
  ASSUME TypeInv, NEW h \in Host, NEW l \in Lock, Different(locks[l], Length(l))
  PROVE Cardinality(Places(h, l)) = IF Listed(locks[l], Length(l), h) THEN 1 ELSE 0
<1>1. \A i : i \in Places(h, l) <=> i \in Slot /\ i < Length(l) /\ locks[l].waitingList[i] = h
  BY DEF Places, Length
<1>2. \A i, j \in Places(h, l) : i = j
  <2> SUFFICES ASSUME NEW i \in Places(h, l), NEW j \in Places(h, l), i # j PROVE FALSE
    OBVIOUS
  <2>1. /\ i \in Slot /\ i < Length(l) /\ locks[l].waitingList[i] = h
        /\ j \in Slot /\ j < Length(l) /\ locks[l].waitingList[j] = h
    BY <1>1
  <2>2. i < j \/ j < i
    BY <2>1 DEF Slot
  <2> QED BY <2>1, <2>2 DEF Different
<1>3. Places(h, l) = {} <=> ~Listed(locks[l], Length(l), h)
  BY <1>1 DEF Listed
<1> QED BY <1>2, <1>3, ZeroOrOne

(* There is one grant of a lock on its way at most. *)
LEMMA OneGrant ==
  ASSUME NEW n, NEW l \in Lock, AtMostOne(n, l), NEW h \in Host
  PROVE HasOnce(n, Manager(l), h, "GRANT_LOCK", l)
<1> SUFFICES ASSUME NEW i \in Nat, NEW j \in Nat, MsgAt(n, Manager(l), h, "GRANT_LOCK", l, i),
                    MsgAt(n, Manager(l), h, "GRANT_LOCK", l, j)
             PROVE i = j
  BY DEF HasOnce
<1>1. Carries(n, Manager(l), h, i, l) /\ Carries(n, Manager(l), h, j, l)
  BY DEF MsgAt, Carries, Token
<1> QED BY <1>1, ManagerIsHost DEF AtMostOne

(* A host that waits for a lock is remembered exactly once, or has just     *)
(* been woken with it, and a host that does not wait has no request: mi_lock, *)
(* mi_unlock and the handlers lose no waiter and serve none twice.          *)
THEOREM Remembered == ASSUME RaceFree PROVE Spec => []WaiterRemembered
<1>1. LockInv /\ WaitInv => WaiterRemembered
  <2> SUFFICES ASSUME LockInv, WaitInv, NEW l \in Lock, NEW h \in Host
               PROVE Requests(h, l) = IF WaitsFor(h, l) /\ ~Woken(h, l) THEN 1 ELSE 0
    BY DEF WaiterRemembered
  <2>1. RequestInv(h, l) /\ QueueInv(l) /\ LoopInv(pc[h], waitFlag[h], myLocks[h][cur[h]])
    BY DEF WaitInv, ThreadInv
  <2>2. TypeInv /\ Manager(l) \in Host /\ AtMostOne(net, l)
    BY ManagerIsHost DEF LockInv, OwnerInv
  <2>3. Cardinality(InFlight(h, Manager(l), "ACQ_LOCK", l)) = IF Asked(net, h, l) THEN 1 ELSE 0
    BY <2>1, <2>2, CountOfMessages DEF Asked, RequestInv
  <2>4. Cardinality(InFlight(Manager(l), h, "GRANT_LOCK", l)) = IF Granted(net, h, l) THEN 1 ELSE 0
    BY <2>2, OneGrant, CountOfMessages DEF Granted
  <2>5. Cardinality(Places(h, l)) = IF Listed(locks[l], Length(l), h) THEN 1 ELSE 0
    BY <2>1, <2>2, CountOfPlaces DEF QueueInv
  <2>6. WaitsFor(h, l) /\ ~Woken(h, l) <=> Asks(h, l)
    <3>1. myLocks[h][l] \in {0, 1} /\ waitFlag[h] \in {0, 1}
      BY <2>2 DEF TypeInv, TypeOK
    <3> QED BY <2>1, <3>1 DEF WaitsFor, Woken, Asks, LoopInv
  <2>7. Requests(h, l) = (IF Asked(net, h, l) THEN 1 ELSE 0) + (IF Listed(locks[l], Length(l), h) THEN 1 ELSE 0)
                       + (IF Picked(h, l) THEN 1 ELSE 0) + (IF Granted(net, h, l) THEN 1 ELSE 0)
    BY <2>3, <2>4, <2>5 DEF Requests, Picked
  <2> QED BY <2>1, <2>6, <2>7 DEF RequestInv, Exclusive
<1> QED BY <1>1, WaitInvariant, PTL

(* waitingList is a queue of different hosts without holes that always has  *)
(* room: graspLock, which does not test the bound, never writes past it.    *)
THEOREM QueueSound == ASSUME RaceFree PROVE Spec => []WaitingListIsQueue
<1>1. LockInv /\ WaitInv => WaitingListIsQueue
  <2> SUFFICES ASSUME LockInv, WaitInv, NEW l \in Lock
               PROVE LET lk == locks[l]
                         n == lk.waitingListCount - (IF Shifted(l) THEN 1 ELSE 0)
                         half == pc[Manager(l)] \in {"graspCount", "freeClear"} /\ cur[Manager(l)] = l
                     IN /\ lk.waitingListCount \in Slot
                        /\ ~half => \A i \in Slot : (i < lk.waitingListCount) <=> (lk.waitingList[i] # NoHost)
                        /\ \A i, j \in Slot : i < j /\ j < n => lk.waitingList[i] # lk.waitingList[j]
                        /\ \A i \in Slot : i < lk.waitingListCount => lk.waitingList[i] # lk.owner
                        /\ lk.state = "FREE" => lk.waitingListCount = 0 /\ lk.owner = NoHost
    BY DEF WaitingListIsQueue
  <2>1. QueueInv(l)
    BY DEF WaitInv
  <2>2. ListInv(locks[l]) /\ NoHost \notin Host
    BY <2>1 DEF QueueInv, Host, NoHost
  <2>3. ASSUME ~(pc[Manager(l)] = "graspCount" /\ cur[Manager(l)] = l), NEW i \in Slot
        PROVE i < locks[l].waitingListCount <=> locks[l].waitingList[i] # NoHost
    <3>1. ClearFrom(locks[l], locks[l].waitingListCount)
      BY <2>1, <2>3 DEF QueueInv
    <3>2. i < locks[l].waitingListCount \/ i >= locks[l].waitingListCount
      BY <2>2 DEF ListInv, Slot
    <3> QED BY <2>2, <3>1, <3>2 DEF ListInv, ClearFrom
  <2>4. Different(locks[l], Length(l))
    BY <2>1 DEF QueueInv
  <2> QED BY <2>2, <2>3, <2>4 DEF ListInv, Different, Length
<1> QED BY <1>1, WaitInvariant, PTL

(* A host that leaves the loop in mi_lock(l) has lock l: its one waitFlag is  *)
(* never lowered by the grant of another lock.                              *)
THEOREM WakeHasLock == ASSUME RaceFree PROVE Spec => []WokenWithLock
<1>1. WaitInv => WokenWithLock
  BY DEF WaitInv, ThreadInv, LoopInv, WokenWithLock
<1> QED BY <1>1, WaitInvariant, PTL

(* mi_lock takes its write notices from the host that released the lock     *)
(* last, by the manager's record at the moment they are asked for.          *)
THEOREM NoticesCurrent == ASSUME RaceFree PROVE Spec => []NoticesFromLastReleaser
<1>1. WaitInv => NoticesFromLastReleaser
  BY DEF WaitInv, ThreadInv, WokenKnows, NoticesFrom, NoticesFromLastReleaser
<1> QED BY <1>1, WaitInvariant, PTL

(* A manager's program that had to wait always has a host to take notices   *)
(* from: the branch that mi_lock does not have is not needed.               *)
THEOREM ManagerFetches == ASSUME RaceFree PROVE Spec => []WokenManagerFetches
<1>1. WaitInv => WokenManagerFetches
  <2> SUFFICES ASSUME WaitInv, NEW h \in Host, pc[h] = "fetchWake", Manager(cur[h]) = h
               PROVE NoticesFrom(h) # NoHost
    BY DEF WokenManagerFetches
  <2>1. lasthostid[h] \in Host \ {h}
    BY DEF WaitInv, ThreadInv, WokenKnows
  <2> QED BY <2>1 DEF NoticesFrom, Host, NoHost
<1> QED BY <1>1, WaitInvariant, PTL

-----------------------------------------------------------------------------
(* MiLock implements LockService *)

(* What LockService sees of a lock: whoever is inside it, or releases it, is *)
(* the only one, and shows.                                                 *)
HolderShows(l) == /\ \A h \in Host : Held(h, l) => HolderOf(l) = h
                  /\ (\A h \in Host : ~Held(h, l)) => HolderOf(l) = NoHost
LastShows(l) == /\ \A h \in Host : Releasing(h, l) => LastOf(l) = h
                /\ (\A h \in Host : ~Releasing(h, l)) => LastOf(l) = locks[l].lasthostid

(* A thread of h at point p in a call for lock c is releasing l. *)
Frees(n, h, p, c, l) == \/ Manager(l) # h /\ Has(n, h, Manager(l), "RLS_LOCK", l)
                        \/ p \in {"freeSet", "freeShift", "freeClear"} /\ c = l

Shown == /\ \A l \in Lock : HolderShows(l) /\ LastShows(l)
         /\ \A h \in Host, l \in Lock : Releasing(h, l) <=> Frees(net, h, pc[h], cur[h], l)

LEMMA ShownAlways == LockInv => Shown
<1> SUFFICES ASSUME LockInv PROVE Shown
  OBVIOUS
<1>1. ASSUME NEW h \in Host, NEW l \in Lock PROVE Releasing(h, l) <=> Frees(net, h, pc[h], cur[h], l)
  <2>1. net[h][Manager(l)] \in Seq(Message)
    BY ManagerIsHost DEF LockInv, TypeInv, TypeOK
  <2>2. DOMAIN net[h][Manager(l)] = 1 .. Len(net[h][Manager(l)])
    BY <2>1
  <2>3. InFlight(h, Manager(l), "RLS_LOCK", l) # {} <=> Has(net, h, Manager(l), "RLS_LOCK", l)
    BY <2>2 DEF InFlight, Has, MsgAt
  <2> QED BY <2>3 DEF Releasing, Frees
<1>2. ASSUME NEW l \in Lock PROVE HolderShows(l)
  <2>1. \A h, g \in Host : Held(h, l) /\ Held(g, l) => h = g
    BY DEF LockInv, OwnerInv, Held, Own
  <2> QED BY <2>1 DEF HolderShows, HolderOf
<1>3. ASSUME NEW l \in Lock PROVE LastShows(l)
  <2>1. ASSUME NEW h \in Host, Releasing(h, l) PROVE Own(h, l)
    <3>1. CASE Manager(l) # h /\ Has(net, h, Manager(l), "RLS_LOCK", l)
      <4>1. PICK i \in Nat : MsgAt(net, h, Manager(l), "RLS_LOCK", l, i)
        BY <3>1 DEF Has
      <4>2. Carries(net, h, Manager(l), i, l) /\ Bearer(h, Manager(l), net[h][Manager(l)][i]) = h
        BY <4>1 DEF MsgAt, Carries, Token, Bearer
      <4>3. Bears(net, h, l)
        BY <4>2, ManagerIsHost DEF Bears
      <4> QED BY <4>3 DEF LockInv, OwnerInv
    <3>2. CASE pc[h] \in {"freeSet", "freeShift", "freeClear"} /\ cur[h] = l
      <4>1. Busy(h, l) /\ BusyFor(h) = h
        BY <3>2 DEF Busy, BusyFor
      <4> QED BY <4>1 DEF LockInv, OwnerInv
    <3> QED BY <1>1, <2>1, <3>1, <3>2 DEF Frees
  <2>2. \A h, g \in Host : Releasing(h, l) /\ Releasing(g, l) => h = g
    BY <2>1 DEF Own
  <2> QED BY <2>2 DEF LastShows, LastOf
<1> QED BY <1>1, <1>2, <1>3 DEF Shown


(* What LockService sees of l is left as it was. *)
Quiet(l) == HolderOf(l)' = HolderOf(l) /\ LastOf(l)' = LastOf(l)

SameHeld(l) == \A g \in Host : Held(g, l)' <=> Held(g, l)

SameFrees(l) == \A g \in Host : Frees(net', g, pc'[g], cur'[g], l) <=> Frees(net, g, pc[g], cur[g], l)

LEMMA HolderQuiet ==
  ASSUME Shown, Shown', NEW l \in Lock, SameHeld(l)
  PROVE HolderOf(l)' = HolderOf(l)
<1>1. HolderShows(l) /\ HolderShows(l)'
  BY DEF Shown
<1>2. CASE \E g \in Host : Held(g, l)
  <2>1. PICK g \in Host : Held(g, l)
    BY <1>2
  <2>2. Held(g, l)'
    BY <2>1 DEF SameHeld
  <2> QED BY <1>1, <2>1, <2>2 DEF HolderShows
<1>3. CASE \A g \in Host : ~Held(g, l)
  <2>1. \A g \in Host : ~Held(g, l)'
    BY <1>3 DEF SameHeld
  <2> QED BY <1>1, <1>3, <2>1 DEF HolderShows
<1> QED BY <1>2, <1>3

LEMMA LastQuiet ==
  ASSUME Shown, Shown', NEW l \in Lock, SameFrees(l),
         (\A g \in Host : ~Frees(net, g, pc[g], cur[g], l)) => locks'[l].lasthostid = locks[l].lasthostid
  PROVE LastOf(l)' = LastOf(l)
<1>1. /\ LastShows(l) /\ LastShows(l)'
      /\ \A g \in Host : Releasing(g, l) <=> Frees(net, g, pc[g], cur[g], l)
      /\ \A g \in Host : Releasing(g, l)' <=> Frees(net', g, pc'[g], cur'[g], l)
  BY DEF Shown
<1>2. CASE \E g \in Host : Releasing(g, l)
  <2>1. PICK g \in Host : Releasing(g, l)
    BY <1>2
  <2>2. Releasing(g, l)'
    BY <1>1, <2>1 DEF SameFrees
  <2> QED BY <1>1, <2>1, <2>2 DEF LastShows
<1>3. CASE \A g \in Host : ~Releasing(g, l)
  <2>1. (\A g \in Host : ~Releasing(g, l)') /\ locks'[l].lasthostid = locks[l].lasthostid
    BY <1>1, <1>3 DEF SameFrees
  <2> QED BY <1>1, <1>3, <2>1 DEF LastShows
<1> QED BY <1>2, <1>3

(* Where a release is taken note of. *)
LEMMA LastFreed ==
  ASSUME Shown, Shown', NEW l \in Lock, NEW h \in Host, Frees(net, h, pc[h], cur[h], l),
         \A g \in Host : ~Frees(net', g, pc'[g], cur'[g], l), locks'[l].lasthostid = h
  PROVE LastOf(l)' = LastOf(l)
<1>1. LastOf(l) = h
  BY DEF Shown, LastShows
<1>2. \A g \in Host : ~Releasing(g, l)'
  BY DEF Shown
<1> QED BY <1>1, <1>2 DEF Shown, LastShows

(* The steps of LockService. *)
Service == [LS!Next]_<<[l \in Lock |-> HolderOf(l)], [l \in Lock |-> LastOf(l)]>>

LEMMA ServiceStutters == ASSUME \A l \in Lock : Quiet(l) PROVE Service
BY DEF Quiet, Service

LEMMA ServiceAcquires ==
  ASSUME NEW h \in Host, NEW c \in Lock, HolderOf(c) = NoHost, HolderOf(c)' = h, LastOf(c)' = LastOf(c),
         \A l \in Lock : l # c => Quiet(l)
  PROVE Service
<1>1. LS!Acquire(h, c)
  BY DEF LS!Acquire, LS!NoHost, NoHost, Quiet
<1> QED BY <1>1 DEF Service, LS!Next

LEMMA ServiceReleases ==
  ASSUME NEW h \in Host, NEW c \in Lock, HolderOf(c) = h, HolderOf(c)' = NoHost, LastOf(c)' = h,
         \A l \in Lock : l # c => Quiet(l)
  PROVE Service
<1>1. LS!Release(h, c)
  BY DEF LS!Release, LS!NoHost, NoHost, Quiet
<1> QED BY <1>1 DEF Service, LS!Next

(* A step of h's thread that leaves its hold on the locks. *)
LEMMA HeldFrame ==
  ASSUME NEW h \in Host, OnlyAt(h), NEW l \in Lock, \A g \in Host \ {h} : myLocks'[g] = myLocks[g],
         Held(h, l)' <=> Held(h, l)
  PROVE SameHeld(l)
BY DEF Held, OnlyAt, SameHeld

(* What a send, a receive and grantLock do to the releases on their way. *)
LEMMA FreesSent ==
  ASSUME NEW n \in Nets, NEW a \in Host, NEW b \in Host, NEW m \in Message, NEW k, k = Sent(n, a, b, m),
         NEW g \in Host, NEW l \in Lock, NEW p, NEW c
  PROVE Frees(k, g, p, c, l) <=>
          \/ Frees(n, g, p, c, l)
          \/ Manager(l) # g /\ g = a /\ b = Manager(l) /\ Matches(m, "RLS_LOCK", l)
<1>1. Has(k, g, Manager(l), "RLS_LOCK", l) <=>
        Has(n, g, Manager(l), "RLS_LOCK", l) \/ (g = a /\ Manager(l) = b /\ Matches(m, "RLS_LOCK", l))
  BY ManagerIsHost, SentHas
<1> QED BY <1>1 DEF Frees

LEMMA FreesTaken ==
  ASSUME NEW n \in Nets, NEW a \in Host, NEW b \in Host, NEW k, k = Taken(n, a, b), n[a][b] # << >>,
         NEW g \in Host, NEW l \in Lock, NEW p, NEW c,
         ~(g = a /\ Manager(l) = b /\ Matches(Head(n[a][b]), "RLS_LOCK", l))
  PROVE Frees(k, g, p, c, l) <=> Frees(n, g, p, c, l)
<1>1. Has(k, g, Manager(l), "RLS_LOCK", l) <=> Has(n, g, Manager(l), "RLS_LOCK", l)
  BY ManagerIsHost, TakenHas
<1> QED BY <1>1 DEF Frees

LEMMA FreesGrant ==
  ASSUME NEW n \in Nets, NEW lk \in MiLockRecord, NEW a \in Lock, NEW w, NEW k, k = grantLock(n, lk, a, w),
         NEW g \in Host, NEW l \in Lock, NEW p, NEW c
  PROVE Frees(k, g, p, c, l) <=> Frees(n, g, p, c, l)
<1>1. CASE w \notin Host \ {Manager(a)}
  BY <1>1 DEF grantLock
<1>2. CASE w \in Host \ {Manager(a)}
  <2>1. PICK m : m = Msg("GRANT_LOCK", a, lk.lasthostid)
    OBVIOUS
  <2>2. lk.lasthostid \in HostOrNone
    BY DEF MiLockRecord
  <2>3. m \in Message /\ m.command = "GRANT_LOCK"
    BY <2>1, <2>2, MsgType DEF Msg
  <2>4. k = Sent(n, Manager(a), w, m)
    BY <1>2, <2>1 DEF grantLock
  <2>5. ~Matches(m, "RLS_LOCK", l)
    BY <2>3 DEF Matches
  <2> QED BY <1>2, <2>3, <2>4, <2>5, ManagerIsHost, FreesSent
<1> QED BY <1>1, <1>2

(* mi_lock is called: nothing shows yet. *)
LEMMA CallQuiet ==
  ASSUME LockInv, Shown, Shown', NEW h \in Host, Call(h)
  PROVE Service
<1>t. /\ net \in Nets /\ pc \in [Host -> Points] /\ cur \in [Host -> Lock]
      /\ myLocks \in [Host -> [Lock -> {0, 1}]]
  BY DEF LockInv, TypeInv, TypeOK, Nets
<1>0. PICK l \in Lock : LockRemote(h, l) \/ LockLocal(h, l)
  BY DEF Call
<1>1. /\ pc[h] = "app" /\ OnlyAt(h) /\ cur'[h] = l /\ UNCHANGED <<locks, myLocks>>
      /\ pc'[h] \in {"lockWait", "graspSet", "graspPut", "app"}
  BY <1>t, <1>0 DEF LockRemote, LockLocal, MayAsk, OnlyAt
<1>2. myLocks[h][l] # 1
  <2>1. myLocks[h][l] = 1 => l < l
    BY <1>0 DEF LockRemote, LockLocal, MayAsk
  <2>2. ~(l < l)
    BY DEF Lock
  <2> QED BY <2>1, <2>2
<1>3. ASSUME NEW g \in Host, NEW k \in Lock
      PROVE Frees(net', g, pc[g], cur[g], k) <=> Frees(net, g, pc[g], cur[g], k)
  <2>1. CASE net' = net
    BY <2>1
  <2>2. CASE LockRemote(h, l)
    <3>1. PICK m : m = Msg("ACQ_LOCK", l, NoHost)
      OBVIOUS
    <3>2. PICK n \in Nets : n = net
      BY <1>t
    <3>3. PICK n2 : n2 = net' /\ n2 = Sent(n, h, Manager(l), m)
      BY <2>2, <3>1, <3>2 DEF LockRemote
    <3>4. m \in Message /\ ~Matches(m, "RLS_LOCK", k)
      BY <3>1, MsgType, Zeros DEF Matches, Msg
    <3>5. Frees(n2, g, pc[g], cur[g], k) <=> Frees(n, g, pc[g], cur[g], k)
      BY <3>3, <3>4, ManagerIsHost, FreesSent
    <3> QED BY <3>2, <3>3, <3>5
  <2> QED BY <1>0, <2>1, <2>2 DEF LockLocal
<1>4. ASSUME NEW k \in Lock PROVE Quiet(k)
  <2>1. SameHeld(k)
    <3>1. Held(h, k)' <=> Held(h, k)
      BY <1>1, <1>2 DEF Held
    <3> QED BY <1>1, <3>1, HeldFrame
  <2>2. SameFrees(k)
    <3> SUFFICES ASSUME NEW g \in Host
                 PROVE Frees(net', g, pc'[g], cur'[g], k) <=> Frees(net, g, pc[g], cur[g], k)
      BY DEF SameFrees
    <3>1. CASE g = h
      BY <1>1, <1>3, <3>1 DEF Frees
    <3>2. CASE g # h
      BY <1>1, <1>3, <3>2 DEF OnlyAt
    <3> QED BY <3>1, <3>2
  <2> QED BY <1>1, <2>1, <2>2, HolderQuiet, LastQuiet DEF Quiet
<1> QED BY <1>4, ServiceStutters

(* A step inside mi_lock or mi_unlock, at lock cur[h]. *)
LEMMA InsideQuiet ==
  ASSUME Shown, Shown', NEW h \in Host, OnlyAt(h), pc[h] # "app", pc'[h] # "app",
         UNCHANGED <<myLocks, cur, net>>, NEW l \in Lock
  PROVE /\ HolderOf(l)' = HolderOf(l)
        /\ /\ pc[h] \in {"freeSet", "freeShift", "freeClear"} /\ cur[h] = l <=>
                pc'[h] \in {"freeSet", "freeShift", "freeClear"} /\ cur[h] = l
           /\ (\A g \in Host : ~Frees(net, g, pc[g], cur[g], l)) => locks'[l].lasthostid = locks[l].lasthostid
           => Quiet(l)
<1>1. HolderOf(l)' = HolderOf(l)
  <2>1. Held(h, l)' <=> Held(h, l)
    BY DEF Held
  <2> QED BY <2>1, HeldFrame, HolderQuiet
<1>2. ASSUME pc[h] \in {"freeSet", "freeShift", "freeClear"} /\ cur[h] = l <=>
               pc'[h] \in {"freeSet", "freeShift", "freeClear"} /\ cur[h] = l
      PROVE SameFrees(l)
  BY <1>2 DEF Frees, SameFrees, OnlyAt
<1> QED BY <1>1, <1>2, LastQuiet DEF Quiet

(* graspLock, the loop on waitFlag and the shift of the list. *)
LEMMA MainQuiet ==
  ASSUME LockInv, Shown, Shown', NEW h \in Host,
         GraspSet(h) \/ GraspPut(h) \/ GraspCount(h) \/ SetWait(h) \/ Wake(h) \/ FreeShift(h)
  PROVE Service
<1>t. locks \in [Lock -> MiLockRecord] /\ pc \in [Host -> Points] /\ cur \in [Host -> Lock]
  BY DEF LockInv, TypeInv, TypeOK
<1>1. PICK c : c = cur[h]
  OBVIOUS
<1>2. PICK lk : lk = locks'[c]
  OBVIOUS
<1>3. /\ OnlyAt(h) /\ pc[h] # "app" /\ pc'[h] # "app" /\ UNCHANGED <<myLocks, cur, net>> /\ c \in Lock
      /\ pc[h] \in {"freeSet", "freeShift", "freeClear"} <=> pc'[h] \in {"freeSet", "freeShift", "freeClear"}
  <2>1. CASE FreeShift(h)
    BY <1>t, <1>1, <2>1 DEF FreeShift, OnlyAt
  <2>2. CASE GraspSet(h)
    BY <1>t, <1>1, <2>2 DEF GraspSet, OnlyAt
  <2>3. CASE GraspPut(h) \/ GraspCount(h) \/ SetWait(h) \/ Wake(h)
    BY <1>t, <1>1, <2>3 DEF GraspPut, GraspCount, SetWait, Wake, OnlyAt
  <2> QED BY <2>1, <2>2, <2>3
<1>4. /\ lk \in {TakeLock(locks[c], h), PutWaiter(locks[c], h), CountWaiter(locks[c]),
                 ShiftWaiters(locks[c]), locks[c]}
      /\ \A l \in Lock : l # c => locks'[l] = locks[l]
  BY <1>t, <1>1, <1>2, <1>3 DEF GraspSet, GraspPut, GraspCount, SetWait, Wake, FreeShift
<1>5. lk.lasthostid = locks[c].lasthostid
  <2>1. locks[c] \in MiLockRecord
    BY <1>t, <1>3
  <2>2. /\ TakeLock(locks[c], h).lasthostid = locks[c].lasthostid
        /\ PutWaiter(locks[c], h).lasthostid = locks[c].lasthostid
        /\ CountWaiter(locks[c]).lasthostid = locks[c].lasthostid
        /\ ShiftWaiters(locks[c]).lasthostid = locks[c].lasthostid
    BY ONLY <2>1, h \in Host, GraspFields, CountFields, ShiftFields
  <2> QED BY <1>4, <2>2
<1>6. ASSUME NEW l \in Lock PROVE locks'[l].lasthostid = locks[l].lasthostid
  BY <1>2, <1>4, <1>5
<1>7. ASSUME NEW l \in Lock PROVE Quiet(l)
  BY <1>3, <1>6, InsideQuiet
<1> QED BY <1>7, ServiceStutters

(* freeLock ends: what shows of the release is now what the lock records. *)
LEMMA FreeQuiet ==
  ASSUME LockInv, WaitInv, Shown, Shown', NEW h \in Host, FreeSet(h) \/ FreeClear(h)
  PROVE Service
<1>t. locks \in [Lock -> MiLockRecord] /\ pc \in [Host -> Points] /\ cur \in [Host -> Lock]
  BY DEF LockInv, TypeInv, TypeOK
<1>1. PICK c : c = cur[h]
  OBVIOUS
<1>w. PICK w : w = result[h]
  OBVIOUS
<1>2. PICK lk : lk = locks'[c]
  OBVIOUS
<1>3. /\ OnlyAt(h) /\ pc[h] \in {"freeSet", "freeClear"} /\ pc'[h] = "grant" /\ UNCHANGED <<myLocks, cur, net>>
      /\ c \in Lock
  BY <1>t, <1>1 DEF FreeSet, FreeClear, OnlyAt
<1>4. /\ \/ lk = SetFree(locks[c], h)
         \/ pc[h] = "freeClear" /\ lk = DropWaiter(locks[c], w, h)
      /\ \A l \in Lock : l # c => locks'[l] = locks[l]
  BY <1>t, <1>1, <1>w, <1>2, <1>3 DEF FreeSet, FreeClear
<1>5. OwnerInv(c) /\ ReadInv(h, pc[h], result[h], locks[c]) /\ locks[c] \in MiLockRecord
  BY <1>1, <1>3, AtOwnLock DEF AtManager
<1>6. lk.lasthostid = h
  <2>1. pc[h] = "freeClear" => w \in Host
    BY <1>w, <1>5 DEF ReadInv
  <2>2. SetFree(locks[c], h).lasthostid = h
    BY <1>5, SetFreeFields
  <2>3. DropWaiter(locks[c], w, h).lasthostid = h
    BY <1>5 DEF DropWaiter, MiLockRecord
  <2> QED BY <1>4, <2>1, <2>2, <2>3
<1>7. Frees(net, h, pc[h], cur[h], c)
  BY <1>1, <1>3 DEF Frees
<1>8. NoneBorne(net, c) /\ \A g \in Host : Busy(g, c) => g = h
  <2>1. Busy(h, c) /\ BusyFor(h) = h
    BY <1>1, <1>3 DEF Busy, BusyFor
  <2>2. NoneBorne(net, c)
    BY <1>3, <1>5, <2>1, WhereRight
  <2>3. \A g \in Host : Busy(g, c) => g = h
    <3> SUFFICES ASSUME NEW g \in Host, Busy(g, c) PROVE g = h
      OBVIOUS
    <3>1. cur[g] = c /\ cur[h] = c
      BY <2>1 DEF Busy
    <3>2. g = Manager(c) /\ h = Manager(c)
      BY <2>1, <3>1, BusyAtManager DEF LockInv, PlaceInv
    <3> QED BY <3>2
  <2> QED BY <2>2, <2>3
<1>9. ASSUME NEW g \in Host PROVE ~Frees(net', g, pc'[g], cur'[g], c)
  <2>1. ~Has(net, g, Manager(c), "RLS_LOCK", c)
    <3> SUFFICES ASSUME NEW i \in Nat, MsgAt(net, g, Manager(c), "RLS_LOCK", c, i) PROVE FALSE
      BY DEF Has
    <3>1. Carries(net, g, Manager(c), i, c) /\ Bearer(g, Manager(c), net[g][Manager(c)][i]) = g
      BY DEF MsgAt, Carries, Token, Bearer
    <3>2. Bears(net, g, c)
      BY <1>3, <3>1, ManagerIsHost DEF Bears
    <3> QED BY <1>8, <3>2 DEF NoneBorne
  <2>2. ~(pc'[g] \in {"freeSet", "freeShift", "freeClear"} /\ cur'[g] = c)
    <3>1. CASE g = h
      BY <1>3, <3>1
    <3>2. CASE g # h
      BY <1>3, <1>8, <3>2 DEF OnlyAt, Busy
    <3> QED BY <3>1, <3>2
  <2> QED BY <1>3, <2>1, <2>2 DEF Frees
<1>10. Quiet(c)
  <2>1. LastOf(c)' = LastOf(c)
    BY <1>2, <1>3, <1>6, <1>7, <1>9, LastFreed
  <2>2. HolderOf(c)' = HolderOf(c)
    BY <1>3, InsideQuiet
  <2> QED BY <2>1, <2>2 DEF Quiet
<1>11. ASSUME NEW l \in Lock, l # c PROVE Quiet(l)
  <2>1. locks'[l].lasthostid = locks[l].lasthostid
    BY <1>4, <1>11
  <2> QED BY <1>1, <1>3, <1>11, <2>1, InsideQuiet
<1> QED BY <1>10, <1>11, ServiceStutters

(* mi_unlock returns, or has the waiter told. *)
LEMMA GrantQuiet ==
  ASSUME LockInv, WaitInv, Shown, Shown', NEW h \in Host, Grant(h)
  PROVE Service
<1>t. /\ locks \in [Lock -> MiLockRecord] /\ pc \in [Host -> Points] /\ cur \in [Host -> Lock]
      /\ net \in Nets
  BY DEF LockInv, TypeInv, TypeOK, Nets
<1>1. PICK c : c = cur[h]
  OBVIOUS
<1>2. PICK n \in Nets : n = net
  BY <1>t
<1>3. PICK r : r = result[h]
  OBVIOUS
<1>4. PICK n2 : n2 = net' /\ n2 = grantLock(n, locks[c], c, r)
  BY <1>1, <1>2, <1>3 DEF Grant
<1>5. pc[h] = "grant" /\ pc'[h] = "app" /\ OnlyAt(h) /\ UNCHANGED <<locks, myLocks>>
  BY <1>t DEF Grant, Idle, OnlyAt
<1>6. c \in Lock /\ locks[c] \in MiLockRecord /\ myLocks[h][c] = 0
  BY <1>1, <1>5, AtOwnLock DEF AtManager, LoopInv
<1>7. ASSUME NEW l \in Lock PROVE Quiet(l)
  <2>1. SameHeld(l)
    <3>1. Held(h, l)' <=> Held(h, l)
      BY <1>1, <1>5, <1>6 DEF Held
    <3> QED BY <1>5, <3>1, HeldFrame
  <2>2. SameFrees(l)
    <3> SUFFICES ASSUME NEW g \in Host
                 PROVE Frees(net', g, pc'[g], cur'[g], l) <=> Frees(net, g, pc[g], cur[g], l)
      BY DEF SameFrees
    <3>1. Frees(n2, g, pc[g], cur[g], l) <=> Frees(n, g, pc[g], cur[g], l)
      BY <1>4, <1>6, FreesGrant
    <3>2. CASE g = h
      BY <1>2, <1>4, <1>5, <3>1, <3>2 DEF Frees
    <3>3. CASE g # h
      BY <1>2, <1>4, <1>5, <3>1, <3>3 DEF OnlyAt
    <3> QED BY <3>2, <3>3
  <2> QED BY <1>5, <2>1, <2>2, HolderQuiet, LastQuiet DEF Quiet
<1> QED BY <1>7, ServiceStutters

(* mi_lock returns with lock c. *)
LEMMA AcquiredServed ==
  ASSUME LockInv, WaitInv, Shown, Shown', NEW h \in Host, AcquiredAfterWait(h) \/ AcquiredAtOnce(h)
  PROVE Service
<1>t. /\ pc \in [Host -> Points] /\ cur \in [Host -> Lock]
      /\ myLocks \in [Host -> [Lock -> {0, 1}]]
  BY DEF LockInv, TypeInv, TypeOK
<1>1. PICK c \in Lock : c = cur[h]
  BY <1>t
<1>2. /\ pc[h] \in {"fetchWake", "fetchGrasp"} /\ pc'[h] = "app" /\ OnlyAt(h) /\ UNCHANGED <<locks, net>>
      /\ \A g \in Host \ {h} : myLocks'[g] = myLocks[g]
      /\ \A l \in Lock : l # c => myLocks'[h][l] = myLocks[h][l]
  <2>1. CASE AcquiredAfterWait(h)
    BY <1>t, <1>1, <2>1 DEF AcquiredAfterWait, Idle, OnlyAt
  <2>2. CASE AcquiredAtOnce(h)
    BY <1>t, <1>1, <2>2 DEF AcquiredAtOnce, Idle, OnlyAt
  <2> QED BY <2>1, <2>2
<1>3. myLocks'[h][c] = 1
  <2>1. CASE AcquiredAfterWait(h)
    <3>1. pc[h] = "fetchWake" /\ myLocks' = myLocks
      BY <2>1 DEF AcquiredAfterWait
    <3>2. LoopInv(pc[h], waitFlag[h], myLocks[h][c])
      BY <1>1 DEF WaitInv, ThreadInv
    <3> QED BY <3>1, <3>2 DEF LoopInv
  <2>2. CASE AcquiredAtOnce(h)
    BY <1>t, <1>1, <2>2 DEF AcquiredAtOnce
  <2> QED BY <2>1, <2>2
<1>4. ASSUME NEW g \in Host PROVE ~Held(g, c)
  <2>1. OwnerInv(c)
    BY DEF LockInv
  <2>2. CASE pc[h] = "fetchWake"
    <3>1. LoopInv(pc[h], waitFlag[h], myLocks[h][c])
      BY <1>1 DEF WaitInv, ThreadInv
    <3>2. myLocks[h][c] = 1
      BY <2>2, <3>1 DEF LoopInv
    <3>3. myLocks[g][c] = 1 => g = h
      BY <2>1, <3>2 DEF OwnerInv, Own
    <3> QED BY <1>1, <2>2, <3>3 DEF Held
  <2>3. CASE pc[h] = "fetchGrasp"
    <3>1. Busy(h, c)
      BY <1>1, <2>3 DEF Busy
    <3> QED BY <2>1, <3>1 DEF OwnerInv, Held
  <2> QED BY <1>2, <2>2, <2>3
<1>5. ASSUME NEW l \in Lock PROVE LastOf(l)' = LastOf(l)
  <2>1. SameFrees(l)
    BY <1>2 DEF SameFrees, Frees, OnlyAt
  <2> QED BY <1>2, <2>1, LastQuiet
<1>6. ASSUME NEW l \in Lock, l # c PROVE Quiet(l)
  <2>1. Held(h, l)' <=> Held(h, l)
    BY <1>1, <1>2, <1>6 DEF Held
  <2>2. HolderOf(l)' = HolderOf(l)
    BY <1>2, <2>1, HeldFrame, HolderQuiet
  <2> QED BY <1>5, <2>2 DEF Quiet
<1>7. HolderOf(c) = NoHost
  BY <1>4 DEF Shown, HolderShows
<1>8. HolderOf(c)' = h
  <2>1. Held(h, c)'
    BY <1>2, <1>3 DEF Held
  <2> QED BY <2>1 DEF Shown, HolderShows
<1> QED BY <1>5, <1>6, <1>7, <1>8, ServiceAcquires

(* The program's hold on l ends, and from now on h is releasing it. *)
LEMMA UnlockServed ==
  ASSUME LockInv, Shown, Shown', NEW h \in Host, NEW l \in Lock, pc[h] = "app", myLocks[h][l] = 1,
         myLocks' = [myLocks EXCEPT ![h][l] = 0], OnlyAt(h), UNCHANGED locks,
         pc'[h] = "app" \/ cur'[h] = l,
         Frees(net', h, pc'[h], cur'[h], l),
         \A k \in Lock : k # l => SameFrees(k)
  PROVE Service
<1>t. myLocks \in [Host -> [Lock -> {0, 1}]]
  BY DEF LockInv, TypeInv, TypeOK
<1>1. /\ \A g \in Host \ {h} : myLocks'[g] = myLocks[g]
      /\ \A k \in Lock : k # l => myLocks'[h][k] = myLocks[h][k]
      /\ myLocks'[h][l] = 0
  BY <1>t
<1>2. HolderOf(l) = h
  <2>1. Held(h, l)
    BY DEF Held
  <2> QED BY <2>1 DEF Shown, HolderShows
<1>3. HolderOf(l)' = NoHost
  <2>1. \A g \in Host : myLocks[g][l] = 1 => g = h
    BY DEF LockInv, OwnerInv, Own
  <2>2. \A g \in Host : myLocks'[g][l] # 1
    BY <1>1, <2>1
  <2>3. \A g \in Host : ~Held(g, l)'
    BY <2>2 DEF Held
  <2> QED BY <2>3 DEF Shown, HolderShows
<1>4. LastOf(l)' = h
  <2>1. Releasing(h, l)'
    BY DEF Shown
  <2> QED BY <2>1 DEF Shown, LastShows
<1>5. ASSUME NEW k \in Lock, k # l PROVE Quiet(k)
  <2>1. Held(h, k)' <=> Held(h, k)
    BY <1>1, <1>5 DEF Held
  <2>2. HolderOf(k)' = HolderOf(k)
    BY <1>1, <2>1, HeldFrame, HolderQuiet
  <2>3. LastOf(k)' = LastOf(k)
    BY <1>5, LastQuiet
  <2> QED BY <2>2, <2>3 DEF Quiet
<1> QED BY <1>2, <1>3, <1>4, <1>5, ServiceReleases

LEMMA UnlockRemoteServed ==
  ASSUME LockInv, Shown, Shown', NEW h \in Host, NEW l \in Lock, UnlockRemote(h, l)
  PROVE Service
<1>1. PICK n \in Nets : n = net
  BY DEF LockInv, TypeInv, TypeOK, Nets
<1>2. PICK m : m = Msg("RLS_LOCK", l, NoHost)
  OBVIOUS
<1>3. PICK n2 : n2 = net' /\ n2 = Sent(n, h, Manager(l), m)
  BY <1>1, <1>2 DEF UnlockRemote
<1>4. /\ pc[h] = "app" /\ myLocks[h][l] = 1 /\ Manager(l) # h
      /\ myLocks' = [myLocks EXCEPT ![h][l] = 0]
      /\ OnlyAt(h) /\ pc' = pc /\ cur' = cur /\ locks' = locks
  BY DEF UnlockRemote, OnlyAt
<1>5. m \in Message /\ \A k : Matches(m, "RLS_LOCK", k) <=> k = l
  BY <1>2, MsgType, Zeros DEF Matches, Msg
<1>6. ASSUME NEW g \in Host, NEW k \in Lock
      PROVE Frees(n2, g, pc[g], cur[g], k) <=> Frees(n, g, pc[g], cur[g], k) \/ (g = h /\ k = l)
  BY <1>3, <1>4, <1>5, ManagerIsHost, FreesSent
<1>7. Frees(net', h, pc'[h], cur'[h], l)
  BY <1>3, <1>4, <1>6
<1>8. ASSUME NEW k \in Lock, k # l PROVE SameFrees(k)
  BY <1>1, <1>3, <1>4, <1>6, <1>8 DEF SameFrees
<1> QED BY <1>4, <1>7, <1>8, UnlockServed

LEMMA UnlockLocalServed ==
  ASSUME LockInv, WaitInv, Shown, Shown', NEW h \in Host, NEW l \in Lock, UnlockLocal(h, l)
  PROVE Service
<1>t. pc \in [Host -> Points] /\ cur \in [Host -> Lock]
  BY DEF LockInv, TypeInv, TypeOK
<1>1. /\ pc[h] = "app" /\ myLocks[h][l] = 1
      /\ myLocks' = [myLocks EXCEPT ![h][l] = 0]
      /\ OnlyAt(h) /\ cur'[h] = l /\ locks' = locks /\ net' = net
  BY <1>t DEF UnlockLocal, OnlyAt
<1>2. pc'[h] \in {"freeSet", "freeShift"}
  <2>1. FreeResult(locks[l], h) \notin {-3, -4}
    BY <1>1, FreeTested
  <2> QED BY <1>t, <2>1 DEF UnlockLocal
<1>3. Frees(net', h, pc'[h], cur'[h], l)
  BY <1>1, <1>2 DEF Frees
<1>4. ASSUME NEW k \in Lock, k # l PROVE SameFrees(k)
  BY <1>1, <1>4 DEF SameFrees, Frees, OnlyAt
<1> QED BY <1>1, <1>3, <1>4, UnlockServed

(* A handler at h, for a message about lock c: what is left to show of it. *)
LEMMA HandlerQuiet ==
  ASSUME Shown, Shown', NEW h \in Host, NEW c \in Lock, UNCHANGED <<pc, cur>>,
         \A g \in Host \ {h} : myLocks'[g] = myLocks[g],
         \A l \in Lock : l # c => myLocks'[h][l] = myLocks[h][l],
         Held(h, c)' <=> Held(h, c),
         \A l \in Lock : l # c => locks'[l] = locks[l],
         \A g \in Host, l \in Lock : l # c =>
           (Frees(net', g, pc[g], cur[g], l) <=> Frees(net, g, pc[g], cur[g], l)),
         \/ LastOf(c)' = LastOf(c)
         \/ SameFrees(c) /\ locks'[c].lasthostid = locks[c].lasthostid
  PROVE Service
<1>1. ASSUME NEW l \in Lock PROVE HolderOf(l)' = HolderOf(l)
  <2>1. Held(h, l)' <=> Held(h, l)
    <3>1. CASE l = c
      BY <3>1
    <3>2. CASE l # c
      BY <3>2 DEF Held
    <3> QED BY <3>1, <3>2
  <2>2. SameHeld(l)
    BY <2>1 DEF SameHeld, Held
  <2> QED BY <2>2, HolderQuiet
<1>2. ASSUME NEW l \in Lock, l # c PROVE LastOf(l)' = LastOf(l)
  <2>1. SameFrees(l)
    BY <1>2 DEF SameFrees
  <2> QED BY <1>2, <2>1, LastQuiet
<1>3. LastOf(c)' = LastOf(c)
  BY LastQuiet
<1>4. ASSUME NEW l \in Lock PROVE Quiet(l)
  BY <1>1, <1>2, <1>3 DEF Quiet
<1> QED BY <1>4, ServiceStutters

(* handleAcquireMsg. *)
LEMMA HandleAcquireQuiet ==
  ASSUME LockInv, WaitInv, Shown, Shown', NEW f \in Host, NEW h \in Host, HandleAcquire(f, h)
  PROVE Service
<1>t. locks \in [Lock -> MiLockRecord] /\ net \in Nets
  BY DEF LockInv, TypeInv, TypeOK, Nets
<1>0. PICK o \in Nets : o = net
  BY <1>t
<1>1. PICK c : c = Head(o[f][h]).lockno
  OBVIOUS
<1>2. PICK n : n = Taken(o, f, h)
  OBVIOUS
<1>3. PICK lk : lk = graspLock(locks[c], f)
  OBVIOUS
<1>4. PICK n2 : n2 = net'
  OBVIOUS
<1>5. /\ locks' = [locks EXCEPT ![c] = lk] /\ (n2 = n \/ n2 = grantLock(n, lk, c, f))
      /\ UNCHANGED <<pc, cur, myLocks>> /\ o[f][h] # << >> /\ Head(o[f][h]).command = "ACQ_LOCK"
  BY <1>0, <1>1, <1>2, <1>3, <1>4 DEF HandleAcquire, Arrived
<1>6. c \in Lock /\ n \in Nets
  <2>1. Arrived(f, h, "ACQ_LOCK")
    BY DEF HandleAcquire
  <2> QED BY <1>0, <1>1, <1>2, <2>1, HandledNet
<1>7. locks[c] \in MiLockRecord /\ lk \in MiLockRecord /\ lk.lasthostid = locks[c].lasthostid
  <2>1. PICK r \in MiLockRecord : r = locks[c]
    BY <1>t, <1>6
  <2>2. lk \in {TakeLock(r, f), r, CountWaiter(PutWaiter(r, f))}
    BY <1>3, <2>1 DEF graspLock
  <2>3. PutWaiter(r, f) \in MiLockRecord /\ lk \in MiLockRecord
    BY <1>3, <2>1, LockOpsType, Zeros
  <2>4. TakeLock(r, f).lasthostid = r.lasthostid /\ PutWaiter(r, f).lasthostid = r.lasthostid
    BY GraspFields
  <2>5. CountWaiter(PutWaiter(r, f)).lasthostid = PutWaiter(r, f).lasthostid
    BY <2>3, CountFields
  <2> QED BY <2>1, <2>2, <2>3, <2>4, <2>5
<1>8. locks'[c] = lk /\ \A l \in Lock : l # c => locks'[l] = locks[l]
  BY <1>t, <1>5, <1>6
<1>9. ASSUME NEW g \in Host, NEW l \in Lock
      PROVE Frees(n2, g, pc[g], cur[g], l) <=> Frees(o, g, pc[g], cur[g], l)
  <2>1. ~Matches(Head(o[f][h]), "RLS_LOCK", l)
    BY <1>5 DEF Matches
  <2>2. Frees(n, g, pc[g], cur[g], l) <=> Frees(o, g, pc[g], cur[g], l)
    BY <1>2, <1>5, <2>1, FreesTaken
  <2>3. n2 = grantLock(n, lk, c, f) => (Frees(n2, g, pc[g], cur[g], l) <=> Frees(n, g, pc[g], cur[g], l))
    BY <1>6, <1>7, FreesGrant
  <2> QED BY <1>5, <2>2, <2>3
<1>10. \A g \in Host, l \in Lock : Frees(net', g, pc[g], cur[g], l) <=> Frees(net, g, pc[g], cur[g], l)
  BY <1>0, <1>4, <1>9
<1>11. SameFrees(c)
  BY <1>5, <1>6, <1>10 DEF SameFrees
<1>12. Held(h, c)' <=> Held(h, c)
  BY <1>5 DEF Held
<1> QED BY <1>5, <1>6, <1>7, <1>8, <1>10, <1>11, <1>12, HandlerQuiet

(* handleGrantMsg: the lock is h's, but mi_lock has not returned with it. *)
LEMMA HandleGrantQuiet ==
  ASSUME LockInv, WaitInv, Shown, Shown', NEW f \in Host, NEW h \in Host, HandleGrant(f, h)
  PROVE Service
<1>t. net \in Nets /\ myLocks \in [Host -> [Lock -> {0, 1}]]
  BY DEF LockInv, TypeInv, TypeOK, Nets
<1>0. PICK o \in Nets : o = net
  BY <1>t
<1>1. PICK c : c = Head(o[f][h]).lockno
  OBVIOUS
<1>2. PICK n : n = Taken(o, f, h)
  OBVIOUS
<1>3. /\ net' = n /\ o[f][h] # << >> /\ Head(o[f][h]).command = "GRANT_LOCK"
      /\ myLocks' = [myLocks EXCEPT ![h][c] = 1]
      /\ UNCHANGED <<locks, pc, cur>>
  BY <1>0, <1>1, <1>2 DEF HandleGrant, Arrived
<1>4. c \in Lock /\ MsgAt(net, Manager(c), h, "GRANT_LOCK", c, 1) /\ 1 \in Nat
  <2>1. Arrived(f, h, "GRANT_LOCK")
    BY DEF HandleGrant
  <2> QED BY <1>0, <1>1, <1>2, <2>1, HandledNet
<1>5. pc[h] # "app" /\ cur[h] = c
  <2>1. RequestInv(h, c) /\ Granted(net, h, c)
    BY <1>4 DEF WaitInv, Granted, Has
  <2> QED BY <2>1 DEF RequestInv, Asks
<1>6. Held(h, c)' <=> Held(h, c)
  BY <1>3, <1>5 DEF Held
<1>7. /\ \A g \in Host \ {h} : myLocks'[g] = myLocks[g]
      /\ \A l \in Lock : l # c => myLocks'[h][l] = myLocks[h][l]
  BY <1>t, <1>3
<1>8. ASSUME NEW g \in Host, NEW l \in Lock
      PROVE Frees(n, g, pc[g], cur[g], l) <=> Frees(o, g, pc[g], cur[g], l)
  <2>1. ~Matches(Head(o[f][h]), "RLS_LOCK", l)
    BY <1>3 DEF Matches
  <2> QED BY <1>2, <1>3, <2>1, FreesTaken
<1>9. \A g \in Host, l \in Lock : Frees(net', g, pc[g], cur[g], l) <=> Frees(net, g, pc[g], cur[g], l)
  BY <1>0, <1>3, <1>8
<1>10. SameFrees(c)
  BY <1>3, <1>4, <1>9 DEF SameFrees
<1> QED BY <1>3, <1>4, <1>6, <1>7, <1>9, <1>10, HandlerQuiet

(* freeLock as a whole for the owner f: f is recorded, and whoever it gives  *)
(* the lock to was in the list.                                             *)
LEMMA FreeRecords ==
  ASSUME NEW lk \in MiLockRecord, ListInv(lk), lk.state = "LOCKED", NEW f \in Host, lk.owner = f,
         Different(lk, lk.waitingListCount), ClearFrom(lk, lk.waitingListCount)
  PROVE /\ freeLock(lk, f) \in MiLockRecord /\ freeLock(lk, f).lasthostid = f
        /\ FreeResult(lk, f) \in Host => Listed(lk, lk.waitingListCount, FreeResult(lk, f))
<1>1. PICK e : e = lk.waitingListCount
  OBVIOUS
<1>2. e \in Nat
  BY <1>1 DEF ListInv, Slot
<1>3. freeLock(lk, f) \in MiLockRecord
  BY LockOpsType, Zeros
<1>4. CASE e = 0
  <2>1. freeLock(lk, f) = SetFree(lk, f) /\ FreeResult(lk, f) = -5
    BY <1>1, <1>4 DEF freeLock, FreeResult
  <2>2. SetFree(lk, f).lasthostid = f
    BY SetFreeFields
  <2> QED BY <1>3, <2>1, <2>2 DEF Host
<1>5. CASE e # 0
  <2>1. e > 0 /\ FreeResult(lk, f) = lk.waitingList[0]
    BY <1>1, <1>2, <1>5 DEF FreeResult
  <2>2. freeLock(lk, f).lasthostid = f /\ Listed(lk, e, lk.waitingList[0])
    BY <1>1, <2>1, FreeHands
  <2> QED BY <1>1, <1>3, <2>1, <2>2
<1> QED BY <1>4, <1>5

(* handleReleaseMsg: the release is recorded. *)
LEMMA HandleReleaseQuiet ==
  ASSUME RaceFree, LockInv, WaitInv, Shown, Shown', NEW f \in Host, NEW h \in Host, HandleRelease(f, h)
  PROVE Service
<1>t. /\ locks \in [Lock -> MiLockRecord] /\ net \in Nets /\ myLocks \in [Host -> [Lock -> {0, 1}]]
  BY DEF LockInv, TypeInv, TypeOK, Nets
<1>0. PICK o \in Nets : o = net
  BY <1>t
<1>1. PICK c : c = Head(o[f][h]).lockno
  OBVIOUS
<1>2. PICK n : n = Taken(o, f, h)
  OBVIOUS
<1>3. PICK lk : lk = freeLock(locks[c], f)
  OBVIOUS
<1>4. PICK w : w = FreeResult(locks[c], f)
  OBVIOUS
<1>5. PICK n2 : n2 = net'
  OBVIOUS
<1>6. Arrived(f, h, "RLS_LOCK")
  BY DEF HandleRelease
<1>7. /\ locks' = [locks EXCEPT ![c] = lk] /\ n2 = grantLock(n, lk, c, w)
      /\ myLocks' = [myLocks EXCEPT ![h][c] = IF w = h THEN 1 ELSE @]
      /\ UNCHANGED <<pc, cur>> /\ o[f][h] # << >> /\ Head(o[f][h]).command = "RLS_LOCK"
  BY <1>0, <1>1, <1>2, <1>3, <1>4, <1>5 DEF HandleRelease, Arrived
<1>8. /\ c \in Lock /\ n \in Nets /\ f # h /\ h = Manager(c)
      /\ MsgAt(net, f, h, "RLS_LOCK", c, 1) /\ 1 \in Nat
      /\ Bears(net, f, c) /\ NoneBorne(n, c)
  BY <1>0, <1>1, <1>2, <1>6, HandledNet
<1>9. Own(f, c) /\ NoneBusy(c)
  <2>1. OwnerInv(c)
    BY <1>8 DEF LockInv
  <2> QED BY <1>8, <2>1, WhereRight
<1>10. /\ locks[c] \in MiLockRecord /\ ListInv(locks[c]) /\ Length(c) = locks[c].waitingListCount
       /\ Different(locks[c], locks[c].waitingListCount)
       /\ ClearFrom(locks[c], locks[c].waitingListCount)
       /\ RequestInv(h, c)
  <2>1. pc[Manager(c)] \notin RacePoints
    BY <1>6, <1>8, NotRacing DEF Arrived, LockInv, PlaceInv
  <2> QED BY <1>8, <2>1, AtQuietLock
<1>11. lk \in MiLockRecord /\ lk.lasthostid = f /\ (w \in Host => Listed(locks[c], Length(c), w))
  <2>1. PICK r \in MiLockRecord : r = locks[c]
    BY <1>10
  <2>2. /\ ListInv(r) /\ r.state = "LOCKED" /\ r.owner = f
        /\ Different(r, r.waitingListCount) /\ ClearFrom(r, r.waitingListCount)
    BY <1>9, <1>10, <2>1 DEF Own
  <2>3. /\ freeLock(r, f) \in MiLockRecord /\ freeLock(r, f).lasthostid = f
        /\ FreeResult(r, f) \in Host => Listed(r, r.waitingListCount, FreeResult(r, f))
    BY <2>2, FreeRecords
  <2> QED BY <1>3, <1>4, <1>10, <2>1, <2>3
<1>12. locks'[c] = lk /\ \A l \in Lock : l # c => locks'[l] = locks[l]
  BY <1>t, <1>7, <1>8
<1>13. /\ \A g \in Host \ {h} : myLocks'[g] = myLocks[g]
       /\ \A l \in Lock : l # c => myLocks'[h][l] = myLocks[h][l]
       /\ w # h => myLocks'[h][c] = myLocks[h][c]
  BY <1>t, <1>7, <1>8
<1>14. Held(h, c)' <=> Held(h, c)
  <2>1. CASE w = h
    <3>1. pc[h] # "app" /\ cur[h] = c
      BY <1>10, <1>11, <2>1 DEF RequestInv, Asks
    <3> QED BY <1>7, <3>1 DEF Held
  <2>2. CASE w # h
    BY <1>7, <1>13, <2>2 DEF Held
  <2> QED BY <2>1, <2>2
<1>15. ASSUME NEW g \in Host, NEW l \in Lock
       PROVE /\ Frees(n2, g, pc[g], cur[g], l) <=> Frees(n, g, pc[g], cur[g], l)
             /\ l # c => (Frees(n, g, pc[g], cur[g], l) <=> Frees(o, g, pc[g], cur[g], l))
  <2>1. l # c => ~Matches(Head(o[f][h]), "RLS_LOCK", l)
    BY <1>1 DEF Matches
  <2>2. l # c => (Frees(n, g, pc[g], cur[g], l) <=> Frees(o, g, pc[g], cur[g], l))
    BY <1>2, <1>7, <2>1, FreesTaken
  <2>3. Frees(n2, g, pc[g], cur[g], l) <=> Frees(n, g, pc[g], cur[g], l)
    BY <1>7, <1>8, <1>11, FreesGrant
  <2> QED BY <2>2, <2>3
<1>16. LastOf(c)' = LastOf(c)
  <2>1. Frees(net, f, pc[f], cur[f], c)
    BY <1>8 DEF Frees, Has
  <2>2. ASSUME NEW g \in Host PROVE ~Frees(net', g, pc'[g], cur'[g], c)
    <3>1. ~Has(n, g, Manager(c), "RLS_LOCK", c)
      <4> SUFFICES ASSUME NEW i \in Nat, MsgAt(n, g, Manager(c), "RLS_LOCK", c, i) PROVE FALSE
        BY DEF Has
      <4>1. Carries(n, g, Manager(c), i, c) /\ Bearer(g, Manager(c), n[g][Manager(c)][i]) = g
        BY DEF MsgAt, Carries, Token, Bearer
      <4>2. Bears(n, g, c)
        BY <1>8, <4>1 DEF Bears
      <4> QED BY <1>8, <4>2 DEF NoneBorne
    <3>2. ~(pc[g] \in {"freeSet", "freeShift", "freeClear"} /\ cur[g] = c)
      BY <1>9 DEF NoneBusy, Busy
    <3>3. ~Frees(n, g, pc[g], cur[g], c)
      BY <3>1, <3>2 DEF Frees
    <3> QED BY <1>5, <1>7, <1>8, <1>15, <3>3
  <2> QED BY <1>8, <1>11, <1>12, <2>1, <2>2, LastFreed
<1>17. \A g \in Host, l \in Lock : l # c =>
         (Frees(net', g, pc[g], cur[g], l) <=> Frees(net, g, pc[g], cur[g], l))
  BY <1>0, <1>5, <1>15
<1> QED BY <1>7, <1>8, <1>12, <1>13, <1>14, <1>16, <1>17, HandlerQuiet

(* A barrier completes: the locks of host 0 forget who released them last. *)
LEMMA ResetServed ==
  ASSUME LockInv, Shown, Shown', BarrierReset
  PROVE Service
<1>t. locks \in [Lock -> MiLockRecord]
  BY DEF LockInv, TypeInv, TypeOK
<1>1. /\ \A h \in Host : pc[h] = "app" /\ \A l \in Lock : myLocks[h][l] = 0
      /\ \A f, t \in Host : net[f][t] = << >>
      /\ UNCHANGED <<myLocks, pc, cur, net>>
      /\ locks' = [l \in Lock |-> IF Manager(l) = 0
                                  THEN [locks[l] EXCEPT !.lasthostid = NoHost] ELSE locks[l]]
  BY DEF BarrierReset
<1>2. ASSUME NEW l \in Lock
      PROVE locks'[l].lasthostid = IF Manager(l) = 0 THEN NoHost ELSE locks[l].lasthostid
  <2>1. PICK r \in MiLockRecord : r = locks[l]
    BY <1>t
  <2>2. [r EXCEPT !.lasthostid = NoHost].lasthostid = NoHost
    BY DEF MiLockRecord
  <2>3. locks'[l] = IF Manager(l) = 0 THEN [r EXCEPT !.lasthostid = NoHost] ELSE r
    BY <1>1, <2>1
  <2> QED BY <2>1, <2>2, <2>3
<1>3. ASSUME NEW l \in Lock PROVE HolderOf(l) = NoHost /\ HolderOf(l)' = NoHost
  <2>1. \A g \in Host : ~Held(g, l) /\ ~Held(g, l)'
    BY <1>1 DEF Held
  <2> QED BY <2>1 DEF Shown, HolderShows
<1>4. ASSUME NEW l \in Lock
      PROVE LastOf(l) = locks[l].lasthostid /\ LastOf(l)' = locks'[l].lasthostid
  <2>1. ASSUME NEW g \in Host PROVE ~Frees(net, g, pc[g], cur[g], l)
    <3>1. net[g][Manager(l)] = << >>
      BY <1>1, ManagerIsHost
    <3> QED BY <1>1, <3>1 DEF Frees, Has, MsgAt
  <2>2. \A g \in Host : ~Releasing(g, l) /\ ~Releasing(g, l)'
    BY <1>1, <2>1 DEF Shown
  <2> QED BY <2>2 DEF Shown, LastShows
<1>5. PICK S \in SUBSET Lock : S = {l \in Lock : Manager(l) = 0}
  OBVIOUS
<1>6. LS!Forget(S)
  <2>1. \A l \in S : [k \in Lock |-> HolderOf(k)][l] = LS!NoHost
    BY <1>3 DEF LS!NoHost, NoHost
  <2>2. [l \in Lock |-> LastOf(l)]' = [l \in Lock |-> IF l \in S THEN LS!NoHost ELSE LastOf(l)]
    BY <1>2, <1>4, <1>5 DEF LS!NoHost, NoHost
  <2>3. [l \in Lock |-> HolderOf(l)]' = [l \in Lock |-> HolderOf(l)]
    BY <1>3
  <2> QED BY <2>1, <2>2, <2>3 DEF LS!Forget
<1> QED BY <1>6 DEF Service, LS!Next

LEMMA ServiceInit == ASSUME Init, LockInv PROVE LS!Init
<1>1. /\ \A h \in Host : pc[h] = "app" /\ \A l \in Lock : myLocks[h][l] = 0
      /\ \A f, t \in Host : net[f][t] = << >>
      /\ \A l \in Lock : locks[l].lasthostid = NoHost
  BY DEF Init, FreshLock
<1>2. ASSUME NEW l \in Lock PROVE HolderOf(l) = NoHost
  <2>1. \A g \in Host : ~Held(g, l)
    BY <1>1 DEF Held
  <2> QED BY <2>1 DEF HolderOf
<1>3. ASSUME NEW l \in Lock PROVE LastOf(l) = NoHost
  <2>1. ASSUME NEW g \in Host PROVE ~Frees(net, g, pc[g], cur[g], l)
    <3>1. net[g][Manager(l)] = << >>
      BY <1>1, ManagerIsHost
    <3> QED BY <1>1, <3>1 DEF Frees, Has, MsgAt
  <2>2. \A g \in Host : ~Releasing(g, l)
    BY <2>1, ShownAlways DEF Shown
  <2> QED BY <1>1, <2>2 DEF LastOf
<1> QED BY <1>2, <1>3 DEF LS!Init, LS!NoHost, NoHost

LEMMA ServiceStep ==
  ASSUME RaceFree, LockInv, WaitInv, Shown, Shown', [Next]_vars
  PROVE Service
<1>1. CASE UNCHANGED vars
  <2>1. ASSUME NEW l \in Lock PROVE Quiet(l)
    <3>1. SameHeld(l) /\ SameFrees(l) /\ locks' = locks
      BY <1>1 DEF vars, SameHeld, Held, SameFrees
    <3> QED BY <3>1, HolderQuiet, LastQuiet DEF Quiet
  <2> QED BY <2>1, ServiceStutters
<1>2. ASSUME NEW h \in Host, Call(h) PROVE Service
  BY <1>2, CallQuiet
<1>3. ASSUME NEW h \in Host, Unlock(h) PROVE Service
  BY <1>3, UnlockRemoteServed, UnlockLocalServed DEF Unlock
<1>4. ASSUME NEW h \in Host, Main(h) PROVE Service
  <2>1. CASE GraspSet(h) \/ GraspPut(h) \/ GraspCount(h) \/ SetWait(h) \/ Wake(h) \/ FreeShift(h)
    BY <2>1, MainQuiet
  <2>2. CASE AcquiredAfterWait(h) \/ AcquiredAtOnce(h)
    BY <2>2, AcquiredServed
  <2>3. CASE FreeSet(h) \/ FreeClear(h)
    BY <2>3, FreeQuiet
  <2>4. CASE Grant(h)
    BY <2>4, GrantQuiet
  <2> QED BY <1>4, <2>1, <2>2, <2>3, <2>4, NoStore DEF Main, LockInv, PlaceInv
<1>5. ASSUME NEW f \in Host, NEW h \in Host, Dispatch(f, h) PROVE Service
  BY <1>5, HandleAcquireQuiet, HandleReleaseQuiet, HandleGrantQuiet DEF Dispatch
<1>6. CASE BarrierReset
  BY <1>6, ResetServed
<1> QED BY <1>1, <1>2, <1>3, <1>4, <1>5, <1>6 DEF Next

(* The lock code of syn.c keeps the promise of LockService: a lock is        *)
(* acquired only while nobody holds it, and the releaser that the manager    *)
(* records, or will record, is the host that had the lock last.             *)
THEOREM ServiceImplemented == ASSUME RaceFree PROVE Spec => ImplementsLockService
<1>1. Init /\ LockInv => LS!Init
  BY ServiceInit
<1>2. LockInv => Shown
  BY ShownAlways
<1>3. LockInv /\ WaitInv /\ Shown /\ Shown' /\ [Next]_vars =>
        [LS!Next]_<<[l \in Lock |-> HolderOf(l)], [l \in Lock |-> LastOf(l)]>>
  BY ServiceStep DEF Service
<1>4. Spec => [](LockInv /\ WaitInv)
  BY WaitInvariant
<1>5. Spec => LS!Init /\
        [][LS!Next]_<<[l \in Lock |-> HolderOf(l)], [l \in Lock |-> LastOf(l)]>>
  BY <1>1, <1>2, <1>3, <1>4, PTL DEF Spec
<1> QED BY <1>5, PTL DEF ImplementsLockService, LS!Spec
=============================================================================
