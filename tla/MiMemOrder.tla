----------------------------- MODULE MiMemOrder -----------------------------
(***************************************************************************)
(* Timestamps advance with one lock: TimestampsAdvance for every number of *)
(* hosts and pages and every program that uses no other lock.              *)
(*                                                                         *)
(* The invariant Order: the host inside the lock, or the one that released *)
(* it last, has seen every interval that any host has seen; after a barrier *)
(* all hosts have seen the same (Front).  A host that takes the lock asks  *)
(* exactly that host (Asking, Answers), and the timestamp that takes a host *)
(* out of a barrier comes after its own (Exits).  So the timestamp that    *)
(* handleGrantWNIMsg takes over is never an older one.  With two locks     *)
(* Front fails: the last holder of a lock may have missed what was done    *)
(* under the other.                                                        *)
(***************************************************************************)
EXTENDS MiMemProofs

(* One lock, managed by host 0, as in the repository's memory tests.          *)
OneLock == \A l \in Lock : l % hostnum = 0 /\ \A k \in Lock : k = l

(* The messages that take h out of a barrier, and the timestamp h has, or     *)
(* will have once such a message has arrived.                                 *)
ExitsTo(h) == {m \in msgs : m.command = "GRANT_EXIT_BARRIER_INFO" /\ m.to = h}

ComingOf(exits, ts) == IF exits = {} THEN ts ELSE (CHOOSE m \in exits : TRUE).body.timestamp

Coming(h) == ComingOf(ExitsTo(h), now[h])

Below(t, u) == \A g \in Host : t[g] <= u[g]

InCall(h) == pc[h] \notin {"app", "barrier"}

(* A host holds a lock exactly while it is in an operation under it. *)
Holding ==
  /\ \A h \in Host : InCall(h) /\ op[h].lock # NoLock => holder[op[h].lock] = h
  /\ \A l \in Lock : holder[l] # NoHost => InCall(holder[l]) /\ op[holder[l]].lock = l

(* Who waits for write notices takes a lock that another host released. *)
Asking == \A h \in Host : pc[h] = "wni" => op[h].lock \in Lock /\ last[op[h].lock] \in Host \ {h}

(* That host is asked, and has not moved on when the answer arrives. *)
Answers ==
  \A m \in msgs :
    /\ m.command = "FETCH_WN_I" => m.to = last[op[m.from].lock]
    /\ m.command = "GRANT_WN_I" => m.body.timestamp = now[last[op[m.to].lock]]

(* A host leaves the barrier with a later timestamp; none that has not left   *)
(* yet is the last holder of a lock.                                          *)
Exits ==
  \A m \in msgs : m.command = "GRANT_EXIT_BARRIER_INFO" =>
    /\ isAfterInterval(m.body.timestamp, now[m.to])
    /\ \A l \in Lock : last[l] # m.to

(* No host knows more intervals of another than there are. *)
Diagonal == \A g, h \in Host : Coming(h)[g] <= Coming(g)[g]

(* The host that has the lock has seen all that any host has seen; so has the *)
(* host that released it last; after a barrier all have seen the same.        *)
Inside(l) == holder[l] # NoHost /\ pc[holder[l]] # "wni"

FrontAt(l, g) ==
  /\ Inside(l) => Below(Coming(g), now[holder[l]])
  /\ ~Inside(l) /\ last[l] # NoHost => Below(Coming(g), now[last[l]])
  /\ ~Inside(l) /\ last[l] = NoHost => \A h \in Host : Below(Coming(g), Coming(h))

Front == \A l \in Lock, g \in Host : FrontAt(l, g)

Order == Holding /\ Asking /\ Answers /\ Exits /\ Diagonal /\ Front

-----------------------------------------------------------------------------
(* Timestamps on their way *)

(* All the messages on their way to a host carry the same timestamp. *)
LEMMA ComingOne ==
  ASSUME NEW exits, NEW ts, NEW t, exits = {} => ts = t, \A m \in exits : m.body.timestamp = t
  PROVE ComingOf(exits, ts) = t
<1>1. CASE exits = {}
  BY <1>1 DEF ComingOf
<1>2. CASE exits # {}
  <2>1. (CHOOSE m \in exits : TRUE) \in exits
    BY <1>2
  <2> QED BY <1>2, <2>1 DEF ComingOf
<1> QED BY <1>1, <1>2

(* What Coming is. *)
LEMMA ComingIs ==
  ASSUME MemInv, NEW h \in Host
  PROVE /\ Coming(h) \in Stamp
        /\ pc[h] # "barrier" => Coming(h) = now[h] /\ ExitsTo(h) = {}
        /\ ExitsTo(h) = {} => Coming(h) = now[h]
        /\ \A m \in ExitsTo(h) : Coming(h) = m.body.timestamp /\ ExitsTo(h) = {m} /\ m \in msgs
<1>1. \A m \in ExitsTo(h) : /\ m \in msgs /\ m \in Message /\ m.command = "GRANT_EXIT_BARRIER_INFO" /\ m.to = h
                            /\ Client(m) = h /\ Expected(m)
  BY DEF ExitsTo, MemInv, Types, OneAtATime, Client, Request
<1>2. \A m \in ExitsTo(h) : pc[h] = "barrier" /\ m.body.timestamp \in Stamp
  BY <1>1, Letters DEF Expected
<1>3. \A m \in ExitsTo(h) : ExitsTo(h) = {m}
  BY <1>1 DEF MemInv, OneAtATime
<1>4. now[h] \in Stamp
  BY DEF MemInv, Types, DataTypes
<1>5. ExitsTo(h) = {} => Coming(h) = now[h]
  BY DEF Coming, ComingOf
<1>6. ASSUME NEW m \in ExitsTo(h) PROVE Coming(h) = m.body.timestamp
  <2>1. ExitsTo(h) # {} /\ \A k \in ExitsTo(h) : k.body.timestamp = m.body.timestamp
    BY <1>3
  <2>2. ComingOf(ExitsTo(h), now[h]) = m.body.timestamp
    BY <2>1, ComingOne
  <2> QED BY <2>2 DEF Coming
<1>7. Coming(h) \in Stamp
  BY <1>2, <1>4, <1>5, <1>6
<1> QED BY <1>1, <1>2, <1>3, <1>5, <1>6, <1>7

(* The messages that the order depends on. *)
Ordering == {"FETCH_WN_I", "GRANT_WN_I", "GRANT_EXIT_BARRIER_INFO"}

(* A step that does not touch the order. *)
Apart ==
  /\ UNCHANGED <<now, holder, last, op>>
  /\ \A m : m.command \in Ordering => (m \in msgs' <=> m \in msgs)
  /\ \A h \in Host : pc'[h] = pc[h] \/ (InCall(h) /\ pc[h] # "wni" /\ pc'[h] \notin {"app", "barrier", "wni"})
                     \/ (pc[h] = "app" /\ pc'[h] = "barrier")

(* leaves it as it is. *)
LEMMA ApartOrder ==
  ASSUME MemInv, Order, Apart
  PROVE Order' /\ Advance
<1>1. \A h \in Host : ExitsTo(h)' = ExitsTo(h)
  BY DEF ExitsTo, Apart, Ordering
<1>2. \A h \in Host : Coming(h)' = Coming(h)
  BY <1>1 DEF Coming, Apart
<1>3. \A h \in Host : InCall(h)' = InCall(h) /\ (pc'[h] = "wni" <=> pc[h] = "wni")
  BY DEF Apart, InCall
<1>4. holder \in [Lock -> Host \cup {NoHost}] /\ msgs \subseteq Message
  BY DEF MemInv, Types, ThreadTypes
<1>5. Holding'
  BY <1>3, <1>4 DEF Order, Holding, Apart
<1>6. Asking'
  BY <1>3 DEF Order, Asking, Apart
<1>7. Answers' /\ Exits'
  BY DEF Order, Answers, Exits, Apart, Ordering
<1>8. Diagonal'
  BY <1>2 DEF Order, Diagonal, Below
<1>9. \A l \in Lock : Inside(l)' = Inside(l)
  BY <1>3, <1>4 DEF Inside, Apart
<1>10. Front'
  BY <1>2, <1>9 DEF Order, Front, FrontAt, Below, Apart
<1> QED BY <1>5, <1>6, <1>7, <1>8, <1>10 DEF Order, Advance, Apart

(* Every step is apart but those that take, grant or release a lock and those *)
(* that leave the barrier.                                                    *)
LEMMA MainApart ==
  ASSUME MemInv, NEW h \in Host, Main(h), ~End(h)
  PROVE Apart
<1>1. UNCHANGED <<now, holder, last, op>>
  BY DEF Main, FaultMiss, FaultInvalid, ReadNotices, FetchDiff, Resolved, FaultWrite, FaultTwin,
         FaultNotice, FaultWritable, FaultProtect, Access, mem
<1>2. \A m : m.command \in Ordering => (m \in msgs' <=> m \in msgs)
  <2>1. msgs' = msgs \/ \E c \in {"FETCH_PAGE", "FETCH_DIFF"} : \E t, b : msgs' = msgs \cup {Msg(c, h, t, b)}
    BY DEF Main, FaultMiss, FaultInvalid, ReadNotices, FetchDiff, Resolved, FaultWrite, FaultTwin,
           FaultNotice, FaultWritable, FaultProtect, Access
  <2>2. \A c, t, b : Msg(c, h, t, b).command = c
    BY DEF Msg
  <2> QED BY <2>1, <2>2 DEF Ordering
<1>3. pc[h] \notin {"app", "barrier", "wni"}
  BY DEF Main, FaultMiss, FaultInvalid, ReadNotices, FetchDiff, Resolved, FaultWrite, FaultTwin,
         FaultNotice, FaultWritable, FaultProtect, Access, Running
<1>4. /\ pc \in [Host -> Point]
      /\ \/ pc' = pc
         \/ \E q \in {"access", "page", "diff", "diffWait", "done"} \cup FaultPoints :
              pc' = [pc EXCEPT ![h] = q]
  BY DEF Main, FaultMiss, FaultInvalid, ReadNotices, FetchDiff, Resolved, FaultWrite, FaultTwin,
         FaultNotice, FaultWritable, FaultProtect, Access, MemInv, Types, ThreadTypes,
         FaultPoints
<1>5. \A g \in Host : pc'[g] = pc[g]
        \/ (InCall(g) /\ pc[g] # "wni" /\ pc'[g] \notin {"app", "barrier", "wni"})
  BY <1>3, <1>4 DEF InCall, FaultPoints
<1> QED BY <1>1, <1>2, <1>5 DEF Apart

(* mi_barrier touches neither locks nor timestamps. *)
LEMMA EnterApart ==
  ASSUME MemInv, NEW h \in Host, EnterBarrier(h)
  PROVE Apart
<1>1. UNCHANGED <<now, holder, last, op>>
  BY DEF EnterBarrier, mem
<1>2. \A m : m.command \in Ordering => (m \in msgs' <=> m \in msgs)
  <2>1. msgs' = msgs \/ \E t, b : msgs' = msgs \cup {Msg("GRANT_ENTER_BARRIER_INFO", h, t, b)}
    BY DEF EnterBarrier
  <2>2. \A c, t, b : Msg(c, h, t, b).command = c
    BY DEF Msg
  <2> QED BY <2>1, <2>2 DEF Ordering
<1>3. \A g \in Host : pc'[g] = pc[g] \/ (pc[g] = "app" /\ pc'[g] = "barrier")
  BY DEF EnterBarrier, Running, MemInv, Types, ThreadTypes
<1> QED BY <1>1, <1>2, <1>3 DEF Apart

(* The handlers for pages, diffs and the hosts that enter a barrier. *)
LEMMA HandlersApart ==
  ASSUME Undisturbed, MemInv, NEW m \in msgs,
         \/ HandleFetchPage(m) \/ HandleFetchDiff(m) \/ HandleGrantPage(m) \/ HandleGrantDiff(m)
         \/ HandleEnterBarrierInfo(m)
  PROVE Apart
<1>1. UNCHANGED <<now, holder, last, op>>
  <2>1. CASE HandleEnterBarrierInfo(m)
    <3>1. PICK base, t, own : own = None /\ Gains(0, own, m.body.packets, base, t)
      BY <2>1, EnterGains
    <3>2. now' = [now EXCEPT ![0] = now[0]]
      BY <3>1 DEF Gains
    <3>3. now' = now
      BY <3>2, ZeroHost DEF MemInv, Types, DataTypes
    <3> QED BY <2>1, <3>3 DEF HandleEnterBarrierInfo
  <2> QED BY <2>1 DEF HandleFetchPage, HandleFetchDiff, HandleGrantPage, HandleGrantDiff
<1>2. m \in Message /\ m.command \notin Ordering /\ m.to \in Host /\ Expected(m)
  <2>1. m.command \in {"FETCH_PAGE", "FETCH_DIFF", "GRANT_PAGE", "GRANT_DIFF", "GRANT_ENTER_BARRIER_INFO"}
    BY DEF HandleFetchPage, HandleFetchDiff, HandleGrantPage, HandleGrantDiff, HandleEnterBarrierInfo,
           Received
  <2>2. m \in Message /\ Expected(m)
    BY DEF MemInv, Types, OneAtATime
  <2> QED BY <2>1, <2>2, Letters DEF Ordering
<1>3. \A k : k.command \in Ordering => (k \in msgs' <=> k \in msgs)
  <2>1. msgs' = msgs \ {m} \/ \E c \in {"GRANT_PAGE", "GRANT_DIFF"} : \E f, t, b :
                                 msgs' = (msgs \ {m}) \cup {Msg(c, f, t, b)}
    <3>1. CASE HandleFetchPage(m)
      BY <3>1 DEF HandleFetchPage
    <3>2. CASE HandleFetchDiff(m)
      <4>1. NoDiff(m) \/ \E at, d, next, v : GivesDiff(m, at, d, next, v)
        BY <3>2, FetchDiffCases
      <4>2. CASE NoDiff(m)
        BY <4>2 DEF NoDiff
      <4>3. ASSUME NEW at, NEW d, NEW next, NEW v, GivesDiff(m, at, d, next, v)
            PROVE \E b : msgs' = (msgs \ {m}) \cup {Msg("GRANT_DIFF", m.to, m.from, b)}
        BY <4>3 DEF GivesDiff
      <4> QED BY <4>1, <4>2, <4>3
    <3> QED BY <3>1, <3>2 DEF HandleGrantPage, HandleGrantDiff, HandleEnterBarrierInfo
  <2>2. \A c, f, t, b : Msg(c, f, t, b).command = c
    BY DEF Msg
  <2> QED BY <1>2, <2>1, <2>2 DEF Ordering
<1>4. \A g \in Host : pc'[g] = pc[g]
        \/ (InCall(g) /\ pc[g] # "wni" /\ pc'[g] \notin {"app", "barrier", "wni"})
  <2>1. pc' = pc \/ (pc[m.to] \in {"page", "diffWait"} /\ \E q \in {"pageGot", "diff"} :
                                                      pc' = [pc EXCEPT ![m.to] = q])
    <3>1. CASE HandleGrantPage(m) \/ HandleGrantDiff(m)
      <4>1. m.command \in {"GRANT_PAGE", "GRANT_DIFF"}
        BY <3>1 DEF HandleGrantPage, HandleGrantDiff, Received
      <4>2. pc[m.to] \in {"page", "diffWait"}
        BY <1>2, <4>1 DEF Expected, Client, Request
      <4> QED BY <3>1, <4>2 DEF HandleGrantPage, HandleGrantDiff
    <3> QED BY <3>1 DEF HandleFetchPage, HandleFetchDiff, HandleEnterBarrierInfo
  <2> QED BY <2>1 DEF InCall, MemInv, Types, ThreadTypes
<1> QED BY <1>1, <1>3, <1>4 DEF Apart

(* The next timestamp of a host, place by place. *)
LEMMA BumpedAt ==
  ASSUME NEW v \in Stamp, NEW h \in Host
  PROVE \A g \in Host : v[g] \in Int /\ Bumped(v, h)[g] = IF g = h THEN v[g] + 1 ELSE v[g]
BY DEF Stamp, Bumped

(* It comes after every timestamp that is below. *)
LEMMA BumpedAfter ==
  ASSUME NEW v \in Stamp, NEW h \in Host, NEW t \in Stamp, Below(t, v)
  PROVE isAfterInterval(Bumped(v, h), t) /\ Below(t, Bumped(v, h))
<1>1. DOMAIN t = Host /\ \A g \in Host : t[g] \in Int
  BY DEF Stamp
<1> QED BY <1>1, BumpedAt DEF isAfterInterval, Below

(* The messages that end a barrier stay, *)
SameExits == \A m : m.command = "GRANT_EXIT_BARRIER_INFO" => (m \in msgs' <=> m \in msgs)

(* and h gets a new timestamp, after v. *)
Moves(h, v) ==
  /\ pc[h] # "barrier" /\ SameExits
  /\ v \in Stamp /\ now' = [now EXCEPT ![h] = Bumped(v, h)]

(* What a host has seen then. *)
LEMMA ComingMoves ==
  ASSUME MemInv, NEW h \in Host, NEW v, Moves(h, v)
  PROVE /\ Coming(h) = now[h] /\ Coming(h)' = Bumped(v, h) /\ now'[h] = Bumped(v, h)
        /\ \A g \in Host : Coming(g) \in Stamp /\ (g # h => Coming(g)' = Coming(g) /\ now'[g] = now[g])
<1>1. \A g \in Host : ExitsTo(g)' = ExitsTo(g)
  BY DEF ExitsTo, Moves, SameExits
<1>2. now'[h] = Bumped(v, h) /\ \A g \in Host : g # h => now'[g] = now[g]
  BY DEF Moves, MemInv, Types, DataTypes
<1>3. Coming(h) = now[h] /\ ExitsTo(h) = {} /\ \A g \in Host : Coming(g) \in Stamp
  BY ComingIs DEF Moves
<1>4. \A g \in Host : g # h => Coming(g)' = Coming(g)
  BY <1>1, <1>2 DEF Coming
<1>5. Coming(h)' = now'[h]
  BY <1>1, <1>3 DEF Coming, ComingOf
<1> QED BY <1>2, <1>3, <1>4, <1>5

(* A host that has seen all that any has moves in front. *)
LEMMA MovesInFront ==
  ASSUME MemInv, Order, NEW h \in Host, NEW v, Moves(h, v),
         \A g \in Host : Below(Coming(g), v) /\ v[g] <= Coming(g)[g]
  PROVE Advance /\ Diagonal' /\ \A g \in Host : Below(Coming(g), Coming(g)') /\ Below(Coming(g)', now'[h])
<1>1. /\ Coming(h) = now[h] /\ Coming(h)' = Bumped(v, h) /\ now'[h] = Bumped(v, h)
      /\ \A g \in Host : Coming(g) \in Stamp /\ (g # h => Coming(g)' = Coming(g) /\ now'[g] = now[g])
  BY ComingMoves
<1>2. v \in Stamp
  BY DEF Moves
<1>3. \A g \in Host : isAfterInterval(Bumped(v, h), Coming(g)) /\ Below(Coming(g), Bumped(v, h))
  BY <1>1, <1>2, BumpedAfter
<1>4. Advance
  BY <1>1, <1>3 DEF Advance
<1>5. \A g, k \in Host : Coming(g)[k] \in Int
  BY <1>1 DEF Stamp
<1>6. \A g \in Host : Below(Coming(g), Coming(g)') /\ Below(Coming(g)', now'[h])
  <2> SUFFICES ASSUME NEW g \in Host PROVE Below(Coming(g), Coming(g)') /\ Below(Coming(g)', now'[h])
    OBVIOUS
  <2>1. CASE g = h
    <3>1. \A k \in Host : Bumped(v, h)[k] \in Int
      BY <1>2, BumpedAt
    <3> QED BY <1>1, <1>3, <2>1, <3>1 DEF Below
  <2>2. CASE g # h
    BY <1>1, <1>3, <1>5, <2>2 DEF Below
  <2> QED BY <2>1, <2>2
<1>7. Diagonal'
  <2> SUFFICES ASSUME NEW g \in Host, NEW k \in Host PROVE Coming(k)'[g] <= Coming(g)'[g]
    BY DEF Diagonal
  <2>0. \A a \in Host : v[a] \in Int /\ Bumped(v, h)[a] = IF a = h THEN v[a] + 1 ELSE v[a]
    BY <1>2, BumpedAt
  <2>1. CASE k = h
    <3>1. CASE g = h
      BY <1>1, <2>0, <2>1, <3>1
    <3>2. CASE g # h
      BY <1>1, <2>0, <2>1, <3>2
    <3> QED BY <3>1, <3>2
  <2>2. CASE k # h
    <3>1. CASE g = h
      <4>1. Coming(k)[h] <= v[h] /\ Coming(k)[h] \in Int
        BY <1>5 DEF Below
      <4>2. Coming(k)'[g] = Coming(k)[h] /\ Coming(g)'[g] = v[h] + 1
        BY <1>1, <2>0, <2>2, <3>1
      <4> QED BY <2>0, <4>1, <4>2
    <3>2. CASE g # h
      BY <1>1, <2>2, <3>2 DEF Order, Diagonal
    <3> QED BY <3>1, <3>2
  <2> QED BY <2>1, <2>2
<1> QED BY <1>4, <1>6, <1>7

(* Who waits for notices has the lock. *)
LEMMA AskerHolds ==
  ASSUME MemInv, Order, OneLock, NEW l \in Lock
  PROVE /\ \A h \in Host : pc[h] = "wni" => holder[l] = h /\ op[h].lock = l
        /\ \A m \in msgs : m.command \in {"FETCH_WN_I", "GRANT_WN_I"} =>
             /\ Client(m) = holder[l] /\ pc[holder[l]] = "wni" /\ holder[l] \in Host
             /\ op[holder[l]].lock = l
<1>1. ASSUME NEW h \in Host, pc[h] = "wni" PROVE holder[l] = h /\ op[h].lock = l
  <2>1. op[h].lock \in Lock /\ InCall(h)
    BY <1>1 DEF Order, Asking, InCall
  <2>2. op[h].lock = l /\ op[h].lock # NoLock
    <3>1. op[h].lock \in Nat
      BY <2>1, PageAssumption
    <3>2. op[h].lock = l
      BY <2>1 DEF OneLock
    <3> QED BY <3>1, <3>2 DEF NoLock
  <2> QED BY <2>1, <2>2 DEF Order, Holding
<1>2. ASSUME NEW m \in msgs, m.command \in {"FETCH_WN_I", "GRANT_WN_I"}
      PROVE Client(m) \in Host /\ pc[Client(m)] = "wni"
  <2>1. m \in Message /\ Expected(m)
    BY DEF MemInv, Types, OneAtATime
  <2> QED BY <1>2, <2>1, Letters DEF Expected
<1> QED BY <1>1, <1>2

(* The order's parts that only depend on what a host has seen. *)
LEMMA MovesExits ==
  ASSUME MemInv, Order, NEW h \in Host, NEW v, Moves(h, v), NEW from, last' = last \/ last' = [last EXCEPT ![from] = h]
  PROVE Exits'
<1>1. ASSUME NEW m \in msgs', m.command = "GRANT_EXIT_BARRIER_INFO"
      PROVE isAfterInterval(m.body.timestamp, now'[m.to]) /\ \A l \in Lock : last'[l] # m.to
  <2>1. m \in msgs
    BY <1>1 DEF Moves, SameExits
  <2>2. m \in Message /\ Expected(m) /\ Client(m) = m.to
    BY <1>1, <2>1 DEF MemInv, Types, OneAtATime, Client, Request
  <2>3. m.to \in Host /\ pc[m.to] = "barrier"
    BY <1>1, <2>2, Letters DEF Expected
  <2>4. m.to # h
    BY <2>3 DEF Moves
  <2>5. now'[m.to] = now[m.to]
    BY <2>3, <2>4, ComingMoves
  <2>6. isAfterInterval(m.body.timestamp, now[m.to]) /\ \A l \in Lock : last[l] # m.to
    BY <1>1, <2>1 DEF Order, Exits
  <2>7. \A l \in Lock : last'[l] # m.to
    BY <2>4, <2>6 DEF MemInv, Types, ThreadTypes
  <2> QED BY <2>5, <2>6, <2>7
<1> QED BY <1>1 DEF Exits

(* mi_lock, at the host that released the lock last, or first of all; *)
LEMMA BeginOwnOrder ==
  ASSUME MemInv, Order, OneLock, NEW h \in Host, NEW o \in Operation, NEW l \in Lock,
         pc[h] = "app", o.lock = l, op' = [op EXCEPT ![h] = o],
         holder[l] = NoHost, holder' = [holder EXCEPT ![l] = h],
         last[l] \in {NoHost, h}, addNewInterval(h), pc' = [pc EXCEPT ![h] = "access"],
         UNCHANGED <<msgs, last>>
  PROVE Order' /\ Advance
<1>0. /\ now \in [Host -> Stamp] /\ holder \in [Lock -> Host \cup {NoHost}]
      /\ op \in [Host -> Operation \cup {None}] /\ pc \in [Host -> Point]
      /\ Holding /\ Asking /\ Answers /\ Exits /\ Diagonal /\ Front /\ NoHost \notin Host
  BY ZeroHost DEF MemInv, Types, DataTypes, ThreadTypes, Order
<1>1. Moves(h, now[h])
  BY <1>0 DEF Moves, SameExits, addNewInterval, NextStamp, MemInv, OwnNewest
<1>2. /\ Coming(h) = now[h] /\ \A g \in Host : g # h => Coming(g)' = Coming(g) /\ now'[g] = now[g]
      /\ \A g \in Host : Coming(g) \in Stamp
  BY <1>1, ComingMoves
<1>3. \A g \in Host : Below(Coming(g), now[h])
  <2>1. \A g \in Host : FrontAt(l, g)
    BY <1>0 DEF Front
  <2> QED BY <1>0, <1>2, <2>1 DEF FrontAt, Inside
<1>4. \A g \in Host : now[h][g] <= Coming(g)[g]
  BY <1>0, <1>2 DEF Diagonal
<1>5. Advance /\ Diagonal' /\ \A g \in Host : Below(Coming(g)', now'[h])
  BY <1>1, <1>3, <1>4, MovesInFront
<1>6. (\A g \in Host : pc[g] # "wni") /\ \A m \in msgs : m.command \notin {"FETCH_WN_I", "GRANT_WN_I"}
  BY <1>0, AskerHolds
<1>7. \A k \in Lock : k = l
  BY DEF OneLock
<1>8. Holding' /\ Asking' /\ Answers'
  <2>1. pc'[h] = "access" /\ op'[h] = o /\ holder'[l] = h
    BY <1>0
  <2>2. \A g \in Host : g # h => pc'[g] = pc[g] /\ op'[g] = op[g]
    BY <1>0
  <2>3. \A g \in Host : InCall(g) => op[g].lock = NoLock \/ op[g].lock # l
    BY <1>0 DEF Holding
  <2>4. \A g \in Host : g # h => ~(InCall(g) /\ op[g].lock # NoLock)
    <3> SUFFICES ASSUME NEW g \in Host, InCall(g), op[g].lock # NoLock PROVE FALSE
      OBVIOUS
    <3>1. op[g] \in Operation
      BY DEF InCall, MemInv, Types, Working
    <3>2. op[g].lock \in Lock
      BY <3>1 DEF Operation
    <3> QED BY <1>7, <2>3, <3>2
  <2>5. Holding'
    BY <1>7, <2>1, <2>2, <2>4 DEF Holding, InCall
  <2>6. Asking' /\ Answers'
    BY <1>6, <2>1, <2>2 DEF Asking, Answers
  <2> QED BY <2>5, <2>6
<1>9. Exits'
  BY <1>1, MovesExits
<1>10. Front'
  <2>1. holder'[l] = h /\ pc'[h] = "access"
    BY <1>0
  <2> QED BY <1>0, <1>5, <1>7, <2>1 DEF Front, FrontAt, Inside
<1> QED BY <1>5, <1>8, <1>9, <1>10 DEF Order

(* with a request to the host that did; *)
LEMMA BeginAskOrder ==
  ASSUME MemInv, Order, OneLock, NEW h \in Host, NEW o \in Operation, NEW l \in Lock,
         pc[h] = "app", o.lock = l, op' = [op EXCEPT ![h] = o],
         holder[l] = NoHost, holder' = [holder EXCEPT ![l] = h],
         last[l] \notin {NoHost, h}, pc' = [pc EXCEPT ![h] = "wni"],
         NEW body, msgs' = msgs \cup {Msg("FETCH_WN_I", h, last[l], body)},
         UNCHANGED <<now, last>>
  PROVE Order' /\ Advance
<1>0. /\ now \in [Host -> Stamp] /\ holder \in [Lock -> Host \cup {NoHost}]
      /\ last \in [Lock -> Host \cup {NoHost}]
      /\ op \in [Host -> Operation \cup {None}] /\ pc \in [Host -> Point]
      /\ Holding /\ Asking /\ Answers /\ Exits /\ Diagonal /\ Front /\ NoHost \notin Host
  BY ZeroHost DEF MemInv, Types, DataTypes, ThreadTypes, Order
<1>1. PICK n : n = Msg("FETCH_WN_I", h, last[l], body)
  OBVIOUS
<1>2. n.command = "FETCH_WN_I" /\ n.from = h /\ n.to = last[l] /\ msgs' = msgs \cup {n}
  BY <1>1, MsgFields
<1>3. \A g \in Host : Coming(g)' = Coming(g)
  <2>1. \A g \in Host : ExitsTo(g)' = ExitsTo(g)
    BY <1>2 DEF ExitsTo
  <2> QED BY <2>1 DEF Coming
<1>4. \A m \in msgs : m.command \notin {"FETCH_WN_I", "GRANT_WN_I"}
  BY <1>0, AskerHolds
<1>5. (\A g \in Host : pc[g] # "wni")
  BY <1>0, AskerHolds
<1>7. \A k \in Lock : k = l
  BY DEF OneLock
<1>8. Holding' /\ Asking' /\ Answers'
  <2>1. pc'[h] = "wni" /\ op'[h] = o /\ holder'[l] = h
    BY <1>0
  <2>2. \A g \in Host : g # h => pc'[g] = pc[g] /\ op'[g] = op[g]
    BY <1>0
  <2>3. \A g \in Host : InCall(g) => op[g].lock = NoLock \/ op[g].lock # l
    BY <1>0 DEF Holding
  <2>4. \A g \in Host : g # h => ~(InCall(g) /\ op[g].lock # NoLock)
    <3> SUFFICES ASSUME NEW g \in Host, InCall(g), op[g].lock # NoLock PROVE FALSE
      OBVIOUS
    <3>1. op[g] \in Operation
      BY DEF InCall, MemInv, Types, Working
    <3>2. op[g].lock \in Lock
      BY <3>1 DEF Operation
    <3> QED BY <1>7, <2>3, <3>2
  <2>5. Holding'
    BY <1>7, <2>1, <2>2, <2>4 DEF Holding, InCall
  <2>6. Asking'
    BY <1>0, <1>5, <2>1, <2>2 DEF Asking
  <2>7. Answers'
    BY <1>2, <1>4, <2>1 DEF Answers
  <2> QED BY <2>5, <2>6, <2>7
<1>9. Exits'
  BY <1>0, <1>2 DEF Exits
<1>10. Diagonal'
  BY <1>0, <1>3 DEF Diagonal
<1>11. Front'
  <2>1. holder'[l] = h /\ pc'[h] = "wni" /\ last'[l] = last[l] /\ last[l] # NoHost
    BY <1>0
  <2>2. \A g \in Host : Below(Coming(g), now[last[l]])
    BY <1>0, <2>1 DEF Front, FrontAt, Inside
  <2>3. ~Inside(l)' /\ \A g \in Host : Below(Coming(g)', now'[last'[l]])
    <3>1. now' = now
      OBVIOUS
    <3> QED BY <1>3, <2>1, <2>2, <3>1 DEF Inside, Below
  <2>4. \A g \in Host : FrontAt(l, g)'
    BY <2>1, <2>3 DEF FrontAt
  <2> QED BY <1>7, <2>4 DEF Front
<1> QED BY <1>8, <1>9, <1>10, <1>11 DEF Order, Advance

(* or without a lock. An access without a lock starts or ends.                *)
LEMMA FreeOrder ==
  ASSUME MemInv, Order, OneLock, NEW h \in Host,
         pc[h] # "wni", pc'[h] # "wni", InCall(h) => op[h].lock = NoLock,
         InCall(h)' => op'[h].lock = NoLock,
         \A g \in Host : g # h => pc'[g] = pc[g] /\ op'[g] = op[g],
         UNCHANGED <<now, holder, last, msgs>>
  PROVE Order' /\ Advance
<1>0. /\ holder \in [Lock -> Host \cup {NoHost}] /\ last \in [Lock -> Host \cup {NoHost}]
      /\ Holding /\ Asking /\ Answers /\ Exits /\ Diagonal /\ Front /\ NoHost \notin Host
  BY ZeroHost DEF MemInv, Types, DataTypes, ThreadTypes, Order
<1>1. \A g \in Host : Coming(g)' = Coming(g)
  <2>1. \A g \in Host : ExitsTo(g)' = ExitsTo(g)
    BY DEF ExitsTo
  <2> QED BY <2>1 DEF Coming
<1>2. \A l \in Lock : holder[l] # h
  <2> SUFFICES ASSUME NEW l \in Lock, holder[l] = h PROVE FALSE
    OBVIOUS
  <2>1. InCall(h) /\ op[h].lock = l
    BY <1>0 DEF Holding
  <2> QED BY <2>1, PageAssumption DEF NoLock
<1>3. Holding'
  <2>1. ASSUME NEW g \in Host, InCall(g)', op'[g].lock # NoLock PROVE holder'[op'[g].lock] = g
    <3>1. g # h
      BY <2>1
    <3>2. InCall(g) /\ op'[g] = op[g]
      BY <2>1, <3>1 DEF InCall
    <3> QED BY <1>0, <2>1, <3>2 DEF Holding
  <2>2. ASSUME NEW l \in Lock, holder'[l] # NoHost PROVE InCall(holder[l])' /\ op'[holder'[l]].lock = l
    <3>1. holder[l] \in Host /\ holder[l] # h /\ InCall(holder[l]) /\ op[holder[l]].lock = l
      BY <1>0, <1>2, <2>2 DEF Holding
    <3> QED BY <3>1 DEF InCall
  <2> QED BY <2>1, <2>2 DEF Holding, InCall
<1>4. Asking'
  BY <1>0 DEF Asking
<1>5. Answers'
  <2>1. ASSUME NEW m \in msgs, m.command \in {"FETCH_WN_I", "GRANT_WN_I"} PROVE op'[Client(m)] = op[Client(m)]
    <3>1. m \in Message /\ Expected(m)
      BY DEF MemInv, Types, OneAtATime
    <3>2. Client(m) \in Host /\ pc[Client(m)] = "wni"
      BY <2>1, <3>1, Letters DEF Expected
    <3> QED BY <3>2
  <2>2. \A m : /\ m.command = "FETCH_WN_I" => Client(m) = m.from
               /\ m.command = "GRANT_WN_I" => Client(m) = m.to
    BY DEF Client, Request
  <2> QED BY <1>0, <2>1, <2>2 DEF Answers
<1>6. Exits' /\ Diagonal'
  BY <1>0, <1>1 DEF Exits, Diagonal
<1>7. \A l \in Lock : Inside(l)' = Inside(l)
  BY <1>0, <1>2 DEF Inside
<1>8. Front'
  BY <1>0, <1>1, <1>7 DEF Front, FrontAt, Below
<1> QED BY <1>3, <1>4, <1>5, <1>6, <1>8 DEF Order, Advance

(* Every way that mi_lock begins. *)
LEMMA BeginOrder ==
  ASSUME MemInv, Order, OneLock, NEW h \in Host, Begin(h)
  PROVE Order' /\ Advance
<1>0. /\ op \in [Host -> Operation \cup {None}] /\ pc \in [Host -> Point] /\ phase[h] \in 0 .. MaxBarrier
  BY DEF MemInv, Types, ThreadTypes
<1>1. PICK o \in Operation : /\ op' = [op EXCEPT ![h] = o]
       /\ IF o.lock = NoLock
          THEN pc' = [pc EXCEPT ![h] = "access"] /\ UNCHANGED <<holder, msgs, intervals, now>>
          ELSE /\ holder[o.lock] = NoHost
               /\ holder' = [holder EXCEPT ![o.lock] = h]
               /\ IF last[o.lock] \in {NoHost, h}
                  THEN /\ addNewInterval(h)
                       /\ pc' = [pc EXCEPT ![h] = "access"]
                       /\ UNCHANGED msgs
                  ELSE /\ msgs' = msgs \cup {Msg("FETCH_WN_I", h, last[o.lock], now[h])}
                       /\ pc' = [pc EXCEPT ![h] = "wni"]
                       /\ UNCHANGED <<intervals, now>>
  <2>1. Program[h][phase[h]] \subseteq Operation
    BY <1>0, ProgramAssumption
  <2> QED BY <2>1 DEF Begin
<1>2. pc[h] = "app" /\ last' = last
  BY DEF Begin, Running
<1>3. CASE o.lock = NoLock
  <2>1. pc'[h] = "access" /\ op'[h] = o /\ \A g \in Host : g # h => pc'[g] = pc[g] /\ op'[g] = op[g]
    BY <1>0, <1>1, <1>3
  <2> QED BY <1>1, <1>2, <1>3, <2>1, FreeOrder DEF InCall
<1>4. CASE o.lock # NoLock
  <2>1. PICK l \in Lock : l = o.lock
    BY <1>4 DEF Operation
  <2>2. CASE last[l] \in {NoHost, h}
    BY <1>1, <1>2, <1>4, <2>1, <2>2, BeginOwnOrder
  <2>3. CASE last[l] \notin {NoHost, h}
    BY <1>1, <1>2, <1>4, <2>1, <2>3, BeginAskOrder
  <2> QED BY <2>2, <2>3
<1> QED BY <1>3, <1>4

(* mi_unlock: the host that releases the lock has seen everything.            *)
LEMMA ReleaseOrder ==
  ASSUME MemInv, Order, OneLock, NEW h \in Host, NEW l \in Lock,
         pc[h] = "done", op[h].lock = l, op' = [op EXCEPT ![h] = None],
         holder' = [holder EXCEPT ![l] = NoHost], last' = [last EXCEPT ![l] = h],
         addNewInterval(h), pc' = [pc EXCEPT ![h] = "app"], UNCHANGED msgs
  PROVE Order' /\ Advance
<1>0. /\ now \in [Host -> Stamp] /\ holder \in [Lock -> Host \cup {NoHost}]
      /\ last \in [Lock -> Host \cup {NoHost}]
      /\ op \in [Host -> Operation \cup {None}] /\ pc \in [Host -> Point]
      /\ Holding /\ Asking /\ Answers /\ Exits /\ Diagonal /\ Front /\ NoHost \notin Host
  BY ZeroHost DEF MemInv, Types, DataTypes, ThreadTypes, Order
<1>1. holder[l] = h
  <2>1. l # NoLock
    BY PageAssumption DEF NoLock
  <2> QED BY <1>0, <2>1 DEF Holding, InCall
<1>2. Moves(h, now[h])
  BY <1>0 DEF Moves, SameExits, addNewInterval, NextStamp, MemInv, OwnNewest
<1>3. Coming(h) = now[h] /\ Coming(h)' = now'[h]
  BY <1>2, ComingMoves
<1>4. \A g \in Host : Below(Coming(g), now[h])
  <2>1. \A g \in Host : FrontAt(l, g)
    BY <1>0 DEF Front
  <2>2. Inside(l)
    BY <1>0, <1>1 DEF Inside
  <2> QED BY <1>1, <2>1, <2>2 DEF FrontAt
<1>5. \A g \in Host : now[h][g] <= Coming(g)[g]
  BY <1>0, <1>3 DEF Diagonal
<1>6. Advance /\ Diagonal' /\ \A g \in Host : Below(Coming(g)', now'[h])
  BY <1>2, <1>4, <1>5, MovesInFront
<1>7. (\A g \in Host : pc[g] # "wni") /\ \A m \in msgs : m.command \notin {"FETCH_WN_I", "GRANT_WN_I"}
  BY <1>0, <1>1, AskerHolds
<1>8. \A k \in Lock : k = l
  BY DEF OneLock
<1>9. pc'[h] = "app" /\ holder'[l] = NoHost /\ last'[l] = h
      /\ \A g \in Host : g # h => pc'[g] = pc[g] /\ op'[g] = op[g]
  BY <1>0
<1>10. Holding'
  <2>1. ASSUME NEW g \in Host, InCall(g)', op'[g].lock # NoLock PROVE FALSE
    <3>1. g # h /\ InCall(g) /\ op'[g] = op[g]
      BY <1>9, <2>1 DEF InCall
    <3>2. op[g] \in Operation
      BY <3>1 DEF InCall, MemInv, Types, Working
    <3>3. op[g].lock = l
      BY <1>8, <2>1, <3>1, <3>2 DEF Operation
    <3> QED BY <1>0, <1>1, <2>1, <3>1, <3>3 DEF Holding
  <2>2. \A k \in Lock : holder'[k] = NoHost
    BY <1>8, <1>9
  <2> QED BY <2>1, <2>2 DEF Holding, InCall
<1>11. Asking' /\ Answers'
  BY <1>7, <1>9 DEF Asking, Answers
<1>12. Exits'
  BY <1>2, MovesExits
<1>13. Front'
  <2>1. ~Inside(l)' /\ last'[l] = h /\ h # NoHost
    BY <1>0, <1>9 DEF Inside
  <2>2. \A g \in Host : FrontAt(l, g)'
    BY <1>6, <2>1 DEF FrontAt
  <2> QED BY <1>8, <2>2 DEF Front
<1> QED BY <1>6, <1>10, <1>11, <1>12, <1>13 DEF Order

(* mi_unlock, and the end of an access without a lock. *)
LEMMA EndOrder ==
  ASSUME MemInv, Order, OneLock, NEW h \in Host, End(h)
  PROVE Order' /\ Advance
<1>0. op \in [Host -> Operation \cup {None}] /\ pc \in [Host -> Point]
  BY DEF MemInv, Types, ThreadTypes
<1>1. pc[h] = "done" /\ op[h] \in Operation
  BY OpPage DEF End, Running, MemInv
<1>2. pc' = [pc EXCEPT ![h] = "app"] /\ op' = [op EXCEPT ![h] = None] /\ msgs' = msgs
  BY DEF End
<1>3. CASE op[h].lock = NoLock
  <2>1. pc'[h] = "app" /\ \A g \in Host : g # h => pc'[g] = pc[g] /\ op'[g] = op[g]
    BY <1>0, <1>2
  <2>2. UNCHANGED <<now, holder, last, msgs>>
    BY <1>3 DEF End
  <2> QED BY <1>1, <1>3, <2>1, <2>2, FreeOrder DEF InCall
<1>4. CASE op[h].lock # NoLock
  <2>1. PICK l \in Lock : l = op[h].lock
    BY <1>1, <1>4 DEF Operation
  <2>2. holder' = [holder EXCEPT ![l] = NoHost] /\ last' = [last EXCEPT ![l] = h] /\ addNewInterval(h)
    BY <1>4, <2>1 DEF End
  <2> QED BY <1>1, <1>2, <2>1, <2>2, ReleaseOrder
<1> QED BY <1>3, <1>4

(* grantWNI answers with the timestamp of the host that released the lock; *)
LEMMA FetchWNIOrder ==
  ASSUME MemInv, Order, NEW m \in msgs, HandleFetchWNI(m)
  PROVE Order' /\ Advance
<1>0. /\ Holding /\ Asking /\ Answers /\ Exits /\ Diagonal /\ Front
      /\ UNCHANGED <<now, pc, op, holder, last>>
  BY DEF Order, HandleFetchWNI, mem
<1>1. m.command = "FETCH_WN_I" /\ m.to = last[op[m.from].lock]
  BY <1>0 DEF HandleFetchWNI, Received, Answers
<1>2. PICK body, n : /\ body = [timestamp |-> now[m.to], packets |-> Packets(m.to, m.body)]
                     /\ n = Msg("GRANT_WN_I", m.to, m.from, body)
  OBVIOUS
<1>3. n.command = "GRANT_WN_I" /\ n.to = m.from /\ n.body.timestamp = now[m.to]
      /\ msgs' = (msgs \ {m}) \cup {n}
  BY <1>2, MsgFields DEF HandleFetchWNI
<1>4. \A g \in Host : Coming(g)' = Coming(g)
  <2>1. \A g \in Host : ExitsTo(g)' = ExitsTo(g)
    BY <1>1, <1>3 DEF ExitsTo
  <2> QED BY <1>0, <2>1 DEF Coming
<1>5. Answers'
  <2>1. ASSUME NEW k \in msgs' PROVE /\ k.command = "FETCH_WN_I" => k.to = last[op[k.from].lock]
                                     /\ k.command = "GRANT_WN_I" => k.body.timestamp = now[last[op[k.to].lock]]
    BY <1>0, <1>1, <1>3 DEF Answers
  <2> QED BY <1>0, <2>1 DEF Answers
<1>6. Exits'
  BY <1>0, <1>3 DEF Exits
<1>7. Holding' /\ Asking' /\ Diagonal'
  BY <1>0, <1>4 DEF Holding, Asking, Diagonal, InCall
<1>8. Front'
  BY <1>0, <1>4 DEF Front, FrontAt, Inside, Below
<1> QED BY <1>0, <1>5, <1>6, <1>7, <1>8 DEF Order, Advance

(* with it handleGrantWNIMsg puts the host that takes the lock in front. *)
LEMMA GrantWNIOrder ==
  ASSUME MemInv, Order, OneLock, NEW m \in msgs, HandleGrantWNI(m)
  PROVE Order' /\ Advance
<1> DEFINE h == m.to
<1> DEFINE l == op[h].lock
<1> DEFINE f == last[l]
<1>0. /\ now \in [Host -> Stamp] /\ holder \in [Lock -> Host \cup {NoHost}]
      /\ last \in [Lock -> Host \cup {NoHost}] /\ pc \in [Host -> Point]
      /\ Holding /\ Asking /\ Answers /\ Exits /\ Diagonal /\ Front /\ NoHost \notin Host
      /\ UNCHANGED <<op, holder, last>> /\ pc' = [pc EXCEPT ![h] = "access"] /\ msgs' = msgs \ {m}
  BY ZeroHost DEF MemInv, Types, DataTypes, ThreadTypes, Order, HandleGrantWNI
<1>1. m.command = "GRANT_WN_I" /\ h \in Host /\ Client(m) = h /\ pc[h] = "wni"
  <2>1. m.command = "GRANT_WN_I" /\ h \in Host /\ Expected(m)
    BY InformedOf DEF HandleGrantWNI
  <2> QED BY <2>1 DEF Expected, Client, Request
<1>2. l \in Lock /\ f \in Host /\ f # h /\ m.body.timestamp = now[f]
  BY <1>0, <1>1 DEF Asking, Answers
<1>3. holder[l] = h
  BY <1>1, <1>2, AskerHolds
<1>4. now' = [now EXCEPT ![h] = Bumped(now[f], h)]
  <2>1. PICK own, base, t : own.timestamp = Bumped(m.body.timestamp, h) /\ own # None
                            /\ Gains(h, own, m.body.packets, base, t)
    BY GrantWNIGains
  <2> QED BY <1>2, <2>1 DEF Gains
<1> HIDE DEF h, l, f
<1>5. Moves(h, now[f])
  <2>1. SameExits
    BY <1>0, <1>1 DEF SameExits
  <2> QED BY <1>0, <1>1, <1>2, <1>4, <2>1 DEF Moves
<1>6. Coming(f) = now[f]
  <2>1. ExitsTo(f) = {}
    BY <1>0, <1>2 DEF Exits, ExitsTo, f
  <2> QED BY <1>2, <2>1, ComingIs
<1>7. \A g \in Host : Below(Coming(g), now[f])
  <2>1. \A g \in Host : FrontAt(l, g)
    BY <1>0, <1>2 DEF Front
  <2>2. ~Inside(l)
    BY <1>1, <1>3 DEF Inside
  <2> QED BY <1>0, <1>2, <2>1, <2>2 DEF FrontAt, f
<1>8. \A g \in Host : now[f][g] <= Coming(g)[g]
  BY <1>0, <1>2, <1>6 DEF Diagonal
<1>9. Advance /\ Diagonal' /\ \A g \in Host : Below(Coming(g)', now'[h])
  BY <1>1, <1>5, <1>7, <1>8, MovesInFront
<1>10. Exits'
  BY <1>0, <1>1, <1>5, MovesExits
<1>11. \A k \in Lock : k = l
  BY <1>2 DEF OneLock
<1>12. pc'[h] = "access" /\ \A g \in Host : g # h => pc'[g] = pc[g]
  BY <1>0, <1>1
<1>13. Holding'
  <2>1. \A g \in Host : InCall(g)' <=> InCall(g)
    BY <1>1, <1>12 DEF InCall
  <2> QED BY <1>0, <2>1 DEF Holding
<1>14. Asking'
  BY <1>0, <1>12 DEF Asking
<1>15. Answers'
  <2>1. ASSUME NEW k \in msgs', k.command \in {"FETCH_WN_I", "GRANT_WN_I"} PROVE FALSE
    <3>1. k \in msgs /\ k # m
      BY <1>0, <2>1
    <3>2. Client(k) = h
      BY <1>2, <1>3, <2>1, <3>1, AskerHolds
    <3> QED BY <1>1, <3>1, <3>2 DEF MemInv, OneAtATime
  <2> QED BY <2>1 DEF Answers
<1>16. Front'
  <2>0. PICK k \in Lock : k = l
    BY <1>2
  <2>1. Inside(k)' /\ holder'[k] = h
    BY <1>0, <1>1, <1>3, <1>12, <2>0 DEF Inside
  <2>2. \A g \in Host : FrontAt(k, g)'
    BY <1>9, <2>1 DEF FrontAt
  <2>3. \A j \in Lock : j = k
    BY <1>11, <2>0
  <2> QED BY <2>2, <2>3 DEF Front
<1> QED BY <1>9, <1>10, <1>13, <1>14, <1>15, <1>16 DEF Order

(* Leaving the barrier, a host gets the timestamp that was on its way. *)
LEMMA ExitOrder ==
  ASSUME MemInv, Order, NEW m \in msgs, HandleExitBarrierInfo(m)
  PROVE Order' /\ Advance
<1> DEFINE h == m.to
<1>0. /\ now \in [Host -> Stamp] /\ holder \in [Lock -> Host \cup {NoHost}]
      /\ last \in [Lock -> Host \cup {NoHost}] /\ pc \in [Host -> Point]
      /\ Holding /\ Asking /\ Answers /\ Exits /\ Diagonal /\ Front /\ NoHost \notin Host
      /\ UNCHANGED <<op, holder, last>> /\ pc' = [pc EXCEPT ![h] = "app"] /\ msgs' = msgs \ {m}
  BY ZeroHost DEF MemInv, Types, DataTypes, ThreadTypes, Order, HandleExitBarrierInfo
<1>1. m.command = "GRANT_EXIT_BARRIER_INFO" /\ h \in Host /\ pc[h] = "barrier"
  <2>1. m.command = "GRANT_EXIT_BARRIER_INFO" /\ h \in Host /\ Expected(m)
    BY InformedOf DEF HandleExitBarrierInfo
  <2> QED BY <2>1 DEF Expected, Client, Request
<1>2. PICK ts \in Stamp : ts = m.body.timestamp
  BY InformedOf DEF HandleExitBarrierInfo
<1>3. now' = [now EXCEPT ![h] = ts]
  <2>1. PICK own, base, t : own.timestamp = m.body.timestamp /\ own # None
                            /\ Gains(h, own, m.body.packets, base, t)
    BY ExitGains
  <2> QED BY <1>2, <2>1 DEF Gains
<1>4. isAfterInterval(ts, now[h]) /\ \A l \in Lock : last[l] # h
  BY <1>0, <1>1, <1>2 DEF Exits
<1>5. now'[h] = ts /\ \A g \in Host : g # h => now'[g] = now[g] /\ pc'[g] = pc[g]
  BY <1>0, <1>1, <1>3
<1>6. Advance
  BY <1>4, <1>5 DEF Advance
<1>7. \A g \in Host : Coming(g)' = Coming(g)
  <2>1. ExitsTo(h) = {m} /\ Coming(h) = ts
    <3>1. m \in ExitsTo(h)
      BY <1>1 DEF ExitsTo
    <3> QED BY <1>1, <1>2, <3>1, ComingIs
  <2>2. ExitsTo(h)' = {} /\ \A g \in Host : g # h => ExitsTo(g)' = ExitsTo(g)
    BY <1>0, <2>1 DEF ExitsTo
  <2>3. Coming(h)' = ts
    BY <1>5, <2>2 DEF Coming, ComingOf
  <2>4. \A g \in Host : g # h => Coming(g)' = Coming(g)
    BY <1>5, <2>2 DEF Coming
  <2> QED BY <2>1, <2>3, <2>4
<1> HIDE DEF h
<1>8. \A g \in Host : (InCall(g)' <=> InCall(g)) /\ (pc'[g] = "wni" <=> pc[g] = "wni")
  BY <1>0, <1>1, <1>5 DEF InCall
<1>9. \A l \in Lock : holder[l] # h
  BY <1>0, <1>1 DEF Holding, InCall
<1>10. Holding' /\ Asking' /\ Diagonal'
  <2>1. Holding'
    BY <1>0, <1>8 DEF Holding
  <2>2. Asking'
    BY <1>0, <1>8 DEF Asking
  <2> QED BY <1>0, <1>7, <2>1, <2>2 DEF Diagonal
<1>11. Answers'
  <2>1. ASSUME NEW k \in msgs', k.command = "GRANT_WN_I" PROVE k.body.timestamp = now'[last[op[k.to].lock]]
    <3>1. k \in msgs /\ k \in Message /\ k.to \in Host /\ Client(k) = k.to /\ Expected(k)
      BY <1>0, <2>1, Letters DEF MemInv, Types, OneAtATime, Client, Request
    <3>2. pc[k.to] = "wni"
      BY <2>1, <3>1 DEF Expected
    <3>3. op[k.to].lock \in Lock /\ last[op[k.to].lock] \in Host
      BY <1>0, <3>1, <3>2 DEF Asking
    <3>4. now'[last[op[k.to].lock]] = now[last[op[k.to].lock]]
      BY <1>4, <1>5, <3>3
    <3> QED BY <1>0, <2>1, <3>1, <3>4 DEF Answers
  <2> QED BY <1>0, <2>1 DEF Answers
<1>12. Exits'
  <2>1. ASSUME NEW k \in msgs', k.command = "GRANT_EXIT_BARRIER_INFO"
        PROVE isAfterInterval(k.body.timestamp, now'[k.to])
    <3>1. k \in msgs /\ k # m /\ k.to \in Host /\ Client(k) = k.to /\ Client(m) = h
      BY <1>0, <1>1, <2>1, Letters DEF MemInv, Types, Client, Request, h
    <3>2. k.to # h
      BY <3>1 DEF MemInv, OneAtATime
    <3> QED BY <1>0, <1>5, <2>1, <3>1, <3>2 DEF Exits
  <2> QED BY <1>0, <2>1 DEF Exits
<1>13. Front'
  <2>1. ASSUME NEW l \in Lock, NEW g \in Host PROVE FrontAt(l, g)'
    <3>1. FrontAt(l, g)
      BY <1>0 DEF Front
    <3>2. Inside(l)' <=> Inside(l)
      BY <1>0, <1>8 DEF Inside
    <3>3. holder[l] # NoHost => now'[holder[l]] = now[holder[l]]
      BY <1>0, <1>5, <1>9
    <3>4. last[l] # NoHost => now'[last[l]] = now[last[l]]
      BY <1>0, <1>4, <1>5
    <3>5. Inside(l) => holder[l] # NoHost
      BY DEF Inside
    <3> QED BY <1>0, <1>7, <3>1, <3>2, <3>3, <3>4, <3>5 DEF FrontAt, Below
  <2> QED BY <2>1 DEF Front
<1> QED BY <1>6, <1>10, <1>11, <1>12, <1>13 DEF Order

(* What the end of a barrier does at host 0: everyone is inside, nothing is   *)
(* under way, and the timestamp of the barrier goes to all.                   *)
LEMMA CompleteDoes ==
  ASSUME MemInv, CompleteBarrier
  PROVE /\ msgs = {} /\ BarrierStamp \in Stamp /\ now' = [now EXCEPT ![0] = BarrierStamp]
        /\ \A h \in Host : pc[h] = "barrier" /\ BarrierStamp[h] = now[h][h] + 1
        /\ \A m \in msgs' : /\ m.command = "GRANT_EXIT_BARRIER_INFO" /\ m.to \in Host \ {0}
                            /\ m.body.timestamp = BarrierStamp
        /\ \A h \in Host \ {0} : \E m \in msgs' : m.to = h
<1>1. msgs = {} /\ \A h \in Host : pc[h] = "barrier" /\ stamps[h] = now[h]
  BY AllEntered
<1>2. PICK own, base, t, packets : own.timestamp = BarrierStamp /\ own # None /\ BarrierStamp \in Stamp
                                   /\ Gains(0, own, packets, base, t)
  BY CompleteGains
<1>3. now' = [now EXCEPT ![0] = BarrierStamp]
  BY <1>2 DEF Gains
<1>4. \A h \in Host : BarrierStamp[h] = now[h][h] + 1
  BY <1>1 DEF BarrierStamp
<1> DEFINE Exit(h) == Msg("GRANT_EXIT_BARRIER_INFO", 0, h,
                          [timestamp |-> BarrierStamp, packets |-> Packets(0, stamps[h])])
<1>5. msgs' = {Exit(h) : h \in Host \ {0}}
  BY <1>1 DEF CompleteBarrier, BarrierStamp
<1>6. \A h : /\ Exit(h).command = "GRANT_EXIT_BARRIER_INFO" /\ Exit(h).to = h
             /\ Exit(h).body.timestamp = BarrierStamp
  BY DEF Msg
<1> HIDE DEF Exit
<1> QED BY <1>1, <1>2, <1>3, <1>4, <1>5, <1>6

(* It puts all hosts level. *)
LEMMA CompleteOrder ==
  ASSUME MemInv, Order, OneLock, CompleteBarrier
  PROVE Order' /\ Advance
<1> DEFINE ts == BarrierStamp
<1>0. /\ now \in [Host -> Stamp] /\ holder \in [Lock -> Host \cup {NoHost}]
      /\ last \in [Lock -> Host \cup {NoHost}] /\ pc \in [Host -> Point]
      /\ Holding /\ Asking /\ Answers /\ Exits /\ Diagonal /\ Front /\ NoHost \notin Host
      /\ UNCHANGED <<op, holder>> /\ pc' = [pc EXCEPT ![0] = "app"]
  BY ZeroHost DEF MemInv, Types, DataTypes, ThreadTypes, Order, CompleteBarrier
<1>1. PICK u \in Stamp :
        /\ msgs = {} /\ now' = [now EXCEPT ![0] = u]
        /\ \A h \in Host : pc[h] = "barrier" /\ u[h] = now[h][h] + 1
        /\ \A m \in msgs' : /\ m.command = "GRANT_EXIT_BARRIER_INFO" /\ m.to \in Host \ {0}
                            /\ m.body.timestamp = u
        /\ \A h \in Host \ {0} : \E m \in msgs' : m.to = h
  BY CompleteDoes
<1>2. \A h \in Host : Coming(h) = now[h]
  BY <1>1, ComingIs DEF ExitsTo
<1>3. ASSUME NEW h \in Host PROVE isAfterInterval(u, now[h])
  <2>1. DOMAIN now[h] = Host /\ \A g \in Host : now[h][g] \in Int /\ now[g][g] \in Int
    BY <1>0 DEF Stamp
  <2>2. \A g \in Host : now[h][g] <= now[g][g]
    BY <1>0, <1>2 DEF Diagonal
  <2>3. \A g \in Host : u[g] > now[h][g]
    BY <1>1, <2>1, <2>2
  <2>4. \A g \in Host : u[g] >= now[h][g]
    BY <1>1, <2>1, <2>2
  <2> QED BY <2>1, <2>3, <2>4 DEF isAfterInterval
<1>4. now'[0] = u /\ \A g \in Host : g # 0 => now'[g] = now[g]
  BY <1>0, <1>1, ZeroHost
<1>5. Advance
  BY <1>3, <1>4 DEF Advance
<1>6. ASSUME NEW h \in Host PROVE Coming(h)' = u
  <2>1. \A m \in ExitsTo(h)' : m.body.timestamp = u
    BY <1>1 DEF ExitsTo
  <2>2. ExitsTo(h)' = {} => now'[h] = u
    <3>1. CASE h = 0
      BY <1>4, <3>1
    <3>2. CASE h # 0
      BY <1>1, <3>2 DEF ExitsTo
    <3> QED BY <3>1, <3>2
  <2>3. ComingOf(ExitsTo(h)', now'[h]) = u
    BY <2>1, <2>2, ComingOne
  <2> QED BY <2>3 DEF Coming
<1>7. \A l \in Lock : holder[l] = NoHost
  BY <1>0, <1>1 DEF Holding, InCall
<1>8. \A h \in Host : pc'[h] \in {"app", "barrier"}
  BY <1>0, <1>1
<1>9. \A l \in Lock : last'[l] = NoHost
  BY DEF OneLock, CompleteBarrier
<1>10. Holding' /\ Asking'
  BY <1>0, <1>7, <1>8 DEF Holding, Asking, InCall
<1>11. Answers'
  BY <1>1 DEF Answers
<1>12. Exits'
  <2>1. ASSUME NEW m \in msgs'
        PROVE isAfterInterval(m.body.timestamp, now'[m.to]) /\ \A l \in Lock : last'[l] # m.to
    BY <1>0, <1>1, <1>3, <1>4, <1>9
  <2> QED BY <2>1 DEF Exits
<1>13. \A g \in Host : u[g] <= u[g]
  BY DEF Stamp
<1>14. Diagonal'
  BY <1>6, <1>13 DEF Diagonal
<1>15. Front'
  <2>1. ASSUME NEW l \in Lock, NEW g \in Host PROVE FrontAt(l, g)'
    <3>1. ~Inside(l)' /\ last'[l] = NoHost
      BY <1>0, <1>7, <1>9 DEF Inside
    <3>2. \A h \in Host : Below(Coming(g)', Coming(h)')
      BY <1>6, <1>13 DEF Below
    <3> QED BY <3>1, <3>2 DEF FrontAt
  <2> QED BY <2>1 DEF Front
<1> QED BY <1>5, <1>10, <1>11, <1>12, <1>14, <1>15 DEF Order

(* No step breaks the order. *)
LEMMA OrderStep ==
  ASSUME Undisturbed, MemInv, Order, OneLock, [Next]_vars
  PROVE Order' /\ Advance
<1>1. ASSUME NEW h \in Host, Begin(h) PROVE Order' /\ Advance
  BY <1>1, BeginOrder
<1>2. ASSUME NEW h \in Host, Main(h) PROVE Order' /\ Advance
  BY <1>2, EndOrder, MainApart, ApartOrder
<1>3. ASSUME NEW h \in Host, EnterBarrier(h) PROVE Order' /\ Advance
  BY <1>3, EnterApart, ApartOrder
<1>4. ASSUME NEW m \in msgs, Dispatch(m) PROVE Order' /\ Advance
  <2>1. CASE HandleFetchWNI(m)
    BY <2>1, FetchWNIOrder
  <2>2. CASE HandleGrantWNI(m)
    BY <2>2, GrantWNIOrder
  <2>3. CASE HandleExitBarrierInfo(m)
    BY <2>3, ExitOrder
  <2>4. CASE \/ HandleFetchPage(m) \/ HandleFetchDiff(m) \/ HandleGrantPage(m) \/ HandleGrantDiff(m)
             \/ HandleEnterBarrierInfo(m)
    BY <2>4, HandlersApart, ApartOrder
  <2> QED BY <1>4, <2>1, <2>2, <2>3, <2>4 DEF Dispatch
<1>5. CASE CompleteBarrier
  BY <1>5, CompleteOrder
<1>6. CASE UNCHANGED vars
  <2>1. Apart
    BY <1>6 DEF vars, Apart
  <2> QED BY <2>1, ApartOrder
<1> QED BY <1>1, <1>2, <1>3, <1>4, <1>5, <1>6 DEF Next

(* At the start all hosts are level. *)
LEMMA OrderInit == ASSUME Init PROVE Order
<1>1. \A h \in Host : Coming(h) = ZeroStamp /\ pc[h] = "app"
  BY DEF Init, Coming, ComingOf, ExitsTo
<1>2. \A g \in Host : ZeroStamp[g] <= ZeroStamp[g]
  BY DEF ZeroStamp
<1>3. \A l \in Lock : holder[l] = NoHost /\ last[l] = NoHost
  BY DEF Init
<1>4. Holding /\ Asking
  BY <1>1, <1>3 DEF Holding, Asking, InCall
<1>5. Answers /\ Exits
  BY DEF Init, Answers, Exits
<1>6. Diagonal
  BY <1>1, <1>2 DEF Diagonal
<1>7. Front
  BY <1>1, <1>2, <1>3 DEF Front, FrontAt, Inside, Below
<1> QED BY <1>4, <1>5, <1>6, <1>7 DEF Order

(* Were SIGIO masked throughout segv_handler, no handler would run during it. *)
LEMMA MaskedUndisturbed ==
  ASSUME MemInv, SigioPoints = {}, [Next]_vars
  PROVE Undisturbed
<1> DEFINE Calm(h) == pages'[h] = pages[h] /\ notices'[h] = notices[h]
<1>0. DataTypes /\ pc \in [Host -> Point]
  BY DEF MemInv, Types, ThreadTypes
<1>1. ASSUME UNCHANGED <<pages, notices>> PROVE \A h \in Host : Calm(h)
  BY <1>1
<1>2. ASSUME NEW h \in Host, Begin(h) \/ EnterBarrier(h) PROVE \A g \in Host : Calm(g)
  BY <1>1, <1>2 DEF Begin, EnterBarrier, mem
<1>3. ASSUME NEW h \in Host, Main(h)
      PROVE (\A g \in Host : g # h => Calm(g)) /\ (pc[h] \in FaultPoints => pc'[h] # pc[h])
  <2>1. CASE FaultMiss(h) \/ FaultInvalid(h) \/ ReadNotices(h) \/ FetchDiff(h) \/ FaultWrite(h) \/ End(h)
    BY <1>1, <2>1
       DEF FaultMiss, FaultInvalid, ReadNotices, FetchDiff, FaultWrite, End, mem, Running, FaultPoints
  <2>3. CASE FaultProtect(h)
    BY <1>0, <1>1, <2>3 DEF FaultProtect, FaultPoints
  <2>2. CASE Resolved(h) \/ FaultTwin(h) \/ FaultNotice(h) \/ FaultWritable(h) \/ Access(h)
    <3>1. pc[h] \in FaultPoints => pc'[h] # pc[h]
      BY <1>0, <2>2 DEF Resolved, FaultTwin, FaultNotice, FaultWritable, Access, Running, FaultPoints
    <3>2. \A g \in Host : g # h => pages'[g] = pages[g]
      BY <1>0, <2>2 DEF Resolved, FaultTwin, FaultNotice, FaultWritable, Access, DataTypes
    <3>3. \A g \in Host : g # h => notices'[g] = notices[g]
      BY <1>0, <2>2 DEF Resolved, FaultTwin, FaultNotice, FaultWritable, Access, DataTypes,
                        createWriteNotice
    <3> QED BY <3>1, <3>2, <3>3
  <2> QED BY <1>3, <2>1, <2>2, <2>3 DEF Main
<1>4. ASSUME NEW m \in msgs, Dispatch(m)
      PROVE m.to \in Host /\ pc[m.to] \notin FaultPoints /\ \A g \in Host : g # m.to => Calm(g)
  <2>1. m.to \in Host
    BY Letters DEF MemInv, Types
  <2>2. pc[m.to] \notin FaultPoints
    BY <1>4 DEF Dispatch, HandleFetchWNI, HandleFetchPage, HandleFetchDiff, HandleGrantWNI,
                HandleGrantPage, HandleGrantDiff, HandleEnterBarrierInfo, HandleExitBarrierInfo, Received
  <2>3. ASSUME NEW g \in Host, g # m.to PROVE Calm(g)
    <3>1. CASE HandleFetchWNI(m)
      BY <1>1, <3>1 DEF HandleFetchWNI, mem
    <3>2. CASE HandleFetchPage(m) \/ HandleFetchDiff(m) \/ HandleGrantPage(m) \/ HandleGrantDiff(m)
      BY <1>0, <2>1, <2>3, <3>2
         DEF HandleFetchPage, HandleFetchDiff, HandleGrantPage, HandleGrantDiff, DataTypes
    <3>3. CASE HandleGrantWNI(m) \/ HandleEnterBarrierInfo(m) \/ HandleExitBarrierInfo(m)
      <4>1. \E own, packets : Incorporate(m.to, own, packets)
        <5>1. HandleEnterBarrierInfo(m) => m.to = 0
          <6>1. HandleEnterBarrierInfo(m) => m.command = "GRANT_ENTER_BARRIER_INFO" /\ Expected(m)
            BY DEF HandleEnterBarrierInfo, Received, MemInv, OneAtATime
          <6> QED BY <6>1 DEF Expected
        <5>2. HandleEnterBarrierInfo(m) => Incorporate(0, None, m.body.packets)
          BY DEF HandleEnterBarrierInfo
        <5>3. HandleGrantWNI(m) => \E own, packets : Incorporate(m.to, own, packets)
          BY DEF HandleGrantWNI
        <5>4. HandleExitBarrierInfo(m) => \E own, packets : Incorporate(m.to, own, packets)
          BY DEF HandleExitBarrierInfo
        <5> QED BY <3>3, <5>1, <5>2, <5>3, <5>4
      <4>2. \E t, u : notices' = [notices EXCEPT ![m.to] = t] /\ pages' = [pages EXCEPT ![m.to] = u]
        <5>1. PICK own, packets : Incorporate(m.to, own, packets)
          BY <4>1
        <5> DEFINE base == IF own = None THEN Local(m.to)
                           ELSE [Local(m.to) EXCEPT !.intervals[m.to] = <<own>> \o @]
        <5>2. PICK s : s = Incorporated(m.to, base, packets)
          OBVIOUS
        <5> HIDE DEF base
        <5>3. notices' = [notices EXCEPT ![m.to] = s.notices] /\ pages' = [pages EXCEPT ![m.to] = s.pages]
          BY <5>1, <5>2 DEF Incorporate, base
        <5> QED BY <5>3
      <4> QED BY <1>0, <2>1, <2>3, <4>2 DEF DataTypes
    <3> QED BY <1>4, <3>1, <3>2, <3>3 DEF Dispatch
  <2> QED BY <2>1, <2>2, <2>3
<1>5. ASSUME CompleteBarrier PROVE \A g \in Host : pc[g] \notin FaultPoints
  BY <1>5, AllEntered DEF FaultPoints
<1> SUFFICES ASSUME NEW h \in Host, pc[h] \in FaultPoints, pc'[h] = pc[h] PROVE Calm(h)
  <2>1. \A h \in Host : pc[h] \in FaultPoints /\ pc'[h] = pc[h] => Calm(h)
    OBVIOUS
  <2> QED BY <2>1 DEF Undisturbed
<1> HIDE DEF Calm
<1>6. CASE UNCHANGED vars
  BY <1>1, <1>6 DEF vars
<1>7. CASE Next
  BY <1>2, <1>3, <1>4, <1>5, <1>7 DEF Next
<1> QED BY <1>6, <1>7

-----------------------------------------------------------------------------
(* The theorems *)

(* With one lock the order holds as well, *)
LEMMA OrderAlways ==
  ASSUME OneLock
  PROVE Spec /\ [][Undisturbed]_vars => [](MemInv /\ WrittenOnce) /\ [][Advance]_vars
<1> DEFINE Inv == MemInv /\ WrittenOnce /\ Order
<1>1. Init => Inv
  BY MemInit, WrittenInit, OrderInit
<1>2. Inv /\ [Next]_vars /\ [Undisturbed]_vars => Inv' /\ [Advance]_vars
  <2> SUFFICES ASSUME Inv, [Next]_vars, [Undisturbed]_vars PROVE Inv' /\ Advance
    OBVIOUS
  <2>1. Undisturbed
    <3>1. UNCHANGED vars => Undisturbed
      BY DEF vars, Undisturbed
    <3> QED BY <3>1
  <2>2. Order' /\ Advance
    BY <2>1, OrderStep
  <2>3. Types'
    BY <2>1, TypesStep
  <2>4. WrittenOnce'
    BY <2>1, <2>3, WrittenStep
  <2>5. MemInv'
    BY <2>1, <2>2, MemStep
  <2> QED BY <2>2, <2>4, <2>5
<1>3. Inv => MemInv /\ WrittenOnce
  OBVIOUS
<1> HIDE DEF Inv
<1> QED BY <1>1, <1>2, <1>3, PTL DEF Spec

(* and with SIGIO masked throughout segv_handler nothing disturbs it. *)
LEMMA MaskedAlways ==
  ASSUME OneLock, SigioPoints = {}
  PROVE Spec => [][Undisturbed]_vars
<1> DEFINE Inv == MemInv /\ WrittenOnce /\ Order
<1>1. Init => Inv
  BY MemInit, WrittenInit, OrderInit
<1>2. Inv /\ [Next]_vars => Inv' /\ [Undisturbed]_vars
  <2> SUFFICES ASSUME Inv, [Next]_vars PROVE Inv' /\ Undisturbed
    OBVIOUS
  <2>1. Undisturbed
    BY MaskedUndisturbed
  <2>2. Order' /\ Advance
    BY <2>1, OrderStep
  <2>3. Types'
    BY <2>1, TypesStep
  <2>4. WrittenOnce'
    BY <2>1, <2>3, WrittenStep
  <2>5. MemInv'
    BY <2>1, <2>2, MemStep
  <2> QED BY <2>1, <2>2, <2>4, <2>5
<1> HIDE DEF Inv
<1> QED BY <1>1, <1>2, PTL DEF Spec

(* With one lock, managed by host 0, as in the memory tests of the            *)
(* repository, the timestamp that handleGrantWNIMsg and handleGrantExit-      *)
(* BarrierMsg take over from another host comes after the one they replace:   *)
(* who takes the lock asks a host that has seen all that it has seen itself.  *)
THEOREM StampsAdvance ==
  ASSUME OneLock
  PROVE Spec /\ [][Undisturbed]_vars => TimestampsAdvance
<1>1. TimestampsAdvance <=> [][Advance]_vars
  BY DEF TimestampsAdvance, Advance
<1> QED BY <1>1, OrderAlways, PTL

(* With one lock all of this holds on the code as it is written, on every     *)
(* behaviour on which no handler changes a page that segv_handler is between  *)
(* two statements on.                                                         *)
THEOREM OneLockCorrect ==
  ASSUME OneLock
  PROVE Spec /\ [][Undisturbed]_vars
        => /\ [](TypeOK /\ TwinWhileWritable /\ WrittenOnce)
           /\ []((\A h \in Host : ~stuck[h]) => WaitersAnswered)
           /\ TimestampsAdvance
<1>1. TimestampsAdvance <=> [][Advance]_vars
  BY DEF TimestampsAdvance, Advance
<1>2. MemInv /\ WrittenOnce => TypeOK /\ TwinWhileWritable /\ WrittenOnce
  BY TypesThen, TwinsThen
<1> QED BY <1>1, <1>2, OrderAlways, AnswersCorrect, PTL

(* Were SIGIO masked from segv_handler's test of the page's state to its      *)
(* mprotect, it would hold on every behaviour.                                *)
THEOREM MaskedCorrect ==
  ASSUME OneLock, SigioPoints = {}
  PROVE Spec => /\ [](TypeOK /\ TwinWhileWritable /\ WrittenOnce)
                /\ []((\A h \in Host : ~stuck[h]) => WaitersAnswered)
                /\ TimestampsAdvance
<1>1. TimestampsAdvance <=> [][Advance]_vars
  BY DEF TimestampsAdvance, Advance
<1>2. MemInv /\ WrittenOnce => TypeOK /\ TwinWhileWritable /\ WrittenOnce
  BY TypesThen, TwinsThen
<1> QED BY <1>1, <1>2, OrderAlways, MaskedAlways, AnswersCorrect, PTL
=============================================================================
