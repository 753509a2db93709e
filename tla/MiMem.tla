-------------------------------- MODULE MiMem --------------------------------
(***************************************************************************)
(* mem.c: lazy release consistency.  A host that takes a lock fetches the  *)
(* write notices of the intervals it has not seen from the host that       *)
(* released the lock last; a noticed page becomes INVALID, and the next    *)
(* access to it fetches the missing diffs from their writers.  A barrier   *)
(* exchanges the notices of all hosts through host 0.                      *)
(*                                                                         *)
(* The locks and the barrier are taken at the level of LockService and     *)
(* BarrierService, which MiLock and MiBarrier implement.  Each run of a    *)
(* host's SIGIO handler is one step; its thread makes one step for each    *)
(* call, request and access, and one for each statement of segv_handler    *)
(* between which a handler may run.                                        *)
(***************************************************************************)
EXTENDS MiInterval, MiDiff, Sequences

CONSTANTS
  hostnum,    \* number of hosts
  PageIndex,  \* the pages mi_alloc has given out
  Lock,       \* lock numbers
  Program,    \* Program[h][k]: what the program of h may do after k barriers
  SigioPoints,\* the points inside segv_handler at which SIGIO is not masked
  MaxOps,     \* bound: operations of a host between two barriers
  MaxBarrier  \* bound: barriers

Host == 0 .. (hostnum - 1)
NoHost == -1
NoLock == -1
None == <<>>

(* One operation of a program: take the lock (if any), read a cell, write   *)
(* back one more if inc holds, release the lock.                            *)
Operation == [lock : Lock \cup {NoLock}, page : PageIndex, cell : Cell, inc : BOOLEAN]

(* Where segv_handler can be interrupted: in a write fault before           *)
(* createTwinPage, createWriteNotice, the change of the state and mprotect; *)
(* in a read fault, once all is fetched, before mprotect.  The code masks   *)
(* SIGIO at none of them.                                                   *)
FaultPoints == {"tested", "twinned", "noticed", "written", "readable"}

ASSUME SigioAssumption == SigioPoints \subseteq FaultPoints
ASSUME HostNumAssumption == hostnum \in Nat \ {0}
ASSUME PageAssumption == PageIndex \subseteq Nat /\ Lock \subseteq Nat
ASSUME CellAssumption == Cell # {}
ASSUME BoundAssumption == MaxOps \in Nat /\ MaxBarrier \in Nat
ASSUME ProgramAssumption == Program \in [Host -> [0 .. MaxBarrier -> SUBSET Operation]]

VARIABLES
  intervals, \* intervals[h][j]: procArray[j].intervalList at h, newest first
  now,       \* now[h]: the timestamp of intervalNow at h
  notices,   \* notices[h][p][j]: pageArray[p].notices[j] at h, newest first
  pages,     \* pages[h][p]: state, content, twinPage and startInterval at h
  prot,      \* prot[h][p]: what the latest mprotect lets the program do with p
  pc,        \* where the program's thread of h is
  op,        \* op[h]: the operation in progress
  turn,      \* turn[h]: the host whose notices fetchDiff reads next
  todo,      \* todo[h]: the diffs it has still to ask the host before for
  done,      \* done[h]: operations since the last barrier
  phase,     \* phase[h]: barriers h has left
  stamps,    \* barrierTimestamps, at host 0 (None: unset)
  holder,    \* holder[l], last[l]: the state of LockService
  last,
  msgs,      \* messages on their way
  stuck,     \* stuck[h]: the SIGIO handler of h has faulted and does not return
  memory     \* memory[p][c]: what the latest write left there (history)

vars == <<intervals, now, notices, pages, prot, pc, op, turn, todo, done, phase, stamps, holder,
          last, msgs, stuck, memory>>

mem == <<intervals, now, notices, pages, prot>>

ZeroStamp == [h \in Host |-> 0]

(* An interval: its timestamp, the pages its notices name, isBarrier. *)
Interval(ts, bar) == [timestamp |-> ts, noticed |-> {}, isBarrier |-> bar]

(* A write notice: its interval's timestamp and its diff, once there is one. *)
Notice(ts) == [timestamp |-> ts, diff |-> None]

-----------------------------------------------------------------------------
(* initmem, and mi_alloc of every page: a page lives at pageIndex % hostnum. *)
(* Nothing is mapped for a MISS page, so mi_alloc's mprotect of it fails.    *)

Init ==
  /\ intervals = [h \in Host |-> [j \in Host |->
                    IF j = h THEN <<Interval(ZeroStamp, TRUE)>> ELSE << >>]]
  /\ now = [h \in Host |-> ZeroStamp]
  /\ notices = [h \in Host |-> [p \in PageIndex |-> [j \in Host |-> << >>]]]
  /\ pages = [h \in Host |-> [p \in PageIndex |->
                [state |-> IF p % hostnum = h THEN "RDONLY" ELSE "MISS",
                 data |-> ZeroPage, twin |-> None, start |-> None]]]
  /\ prot = [h \in Host |-> [p \in PageIndex |-> IF p % hostnum = h THEN "READ" ELSE "NONE"]]
  /\ pc = [h \in Host |-> "app"]
  /\ op = [h \in Host |-> None]
  /\ turn = [h \in Host |-> 0]
  /\ todo = [h \in Host |-> << >>]
  /\ done = [h \in Host |-> 0]
  /\ phase = [h \in Host |-> 0]
  /\ stamps = [h \in Host |-> None]
  /\ holder = [l \in Lock |-> NoHost]
  /\ last = [l \in Lock |-> NoHost]
  /\ msgs = {}
  /\ stuck = [h \in Host |-> FALSE]
  /\ memory = [p \in PageIndex |-> ZeroPage]

-----------------------------------------------------------------------------
(* Intervals and write notices, as operators on one host's structures.      *)

(* Mutant: the timestamp of the previous interval is not copied. *)
NextStampFresh(h) == Bumped(ZeroStamp, h)

(* addNewInterval at h: the next interval, after the newest in its list. *)
NextStamp(h) == Bumped(Head(intervals[h][h]).timestamp, h)

addNewInterval(h) ==
  /\ intervals' = [intervals EXCEPT ![h][h] = <<Interval(NextStamp(h), FALSE)>> \o @]
  /\ now' = [now EXCEPT ![h] = NextStamp(h)]

(* addWNIIntoPacketForHost: an interval of host j and the pages it names. *)
Packet(j, v) == [hostid |-> j, timestamp |-> v.timestamp, noticed |-> v.noticed]

(* The sequences s[1] to s[n], one after the other. *)
Joined(s, n) == LET f[i \in 0 .. n] == IF i = 0 THEN << >> ELSE f[i - 1] \o s[i] IN f[n]

(* The packets of the intervals at places S of a list of host j, oldest      *)
(* first. Intervals without notices are left out.                            *)
PacketsIn(j, list, S) ==
  LET n == Len(list)
      At(i) == IF i \in S /\ list[i].noticed # {} THEN <<Packet(j, list[i])>> ELSE << >>
  IN Joined([i \in 1 .. n |-> At(n + 1 - i)], n)

(* Those of host j that h knows and that come after ts. *)
PacketsOf(h, j, ts) ==
  LET list == intervals[h][j]
  IN PacketsIn(j, list, {i \in DOMAIN list : isAfterInterval(list[i].timestamp, ts)})

(* Mutant: a host passes on its own intervals only. *)
OwnPackets(h, ts) == PacketsOf(h, h, ts)

(* The packets of grantWNI and of returnAllBarrierInfo. *)
Packets(h, ts) ==
  Joined([i \in 1 .. hostnum |-> PacketsOf(h, i - 1, ts)], hostnum)

(* Where the latest interval that a barrier opened is in a list. *)
LatestBarrier(list) ==
  CHOOSE i \in DOMAIN list : list[i].isBarrier /\ \A k \in 1 .. (i - 1) : ~list[k].isBarrier

(* What host h sends when it enters a barrier: its own intervals from the   *)
(* latest barrier's on (sendEnterBarrierInfo).                              *)
BarrierPackets(h) ==
  PacketsIn(h, intervals[h][h], 1 .. LatestBarrier(intervals[h][h]))

(* The structures that incorporateWnPacket works on, at host h. *)
Local(h) == [intervals |-> intervals[h], notices |-> notices[h], pages |-> pages[h]]

createTwinPage(pg) == IF pg.twin = None THEN [pg EXCEPT !.twin = pg.data] ELSE pg

(* Mutant: the twin stays. *)
keepTwinPage(pg) == pg

freeTwinPage(pg) == [pg EXCEPT !.twin = None]

(* Mutant: only a page that is not being written is invalidated. *)
InvalidatedReadOnly(pg) == IF pg.state = "RDONLY" THEN [pg EXCEPT !.state = "INVALID"] ELSE pg

(* A noticed page is no longer valid; one being written keeps its own        *)
(* changes as the diff of its own latest notice (SetDiff).                   *)
Invalidated(pg) == IF pg.state \in {"RDONLY", "WRITE"}
                   THEN [freeTwinPage(pg) EXCEPT !.state = "INVALID"] ELSE pg

(* Mutant: the changes are dropped. *)
SetNoDiff(list, d) == list

SetDiff(list, d) == IF list = << >> THEN list ELSE [list EXCEPT ![1].diff = d]

(* incorporateWnPacket at h: the interval is added unless it is known, and   *)
(* so is each notice.                                                        *)
incorporateWnPacket(h, s, packet) ==
  LET j == packet.hostid
      known == {i \in DOMAIN s.intervals[j] : s.intervals[j][i].timestamp = packet.timestamp}
      at == CHOOSE i \in known : \A k \in known : i <= k
      fresh == packet.noticed \ (IF known = {} THEN {} ELSE s.intervals[j][at].noticed)
      KeepDiff(p) == IF s.pages[p].state = "WRITE"
                     THEN [s.notices[p] EXCEPT ![h] =
                             SetDiff(@, createLocalDiff(s.pages[p].data, s.pages[p].twin))]
                     ELSE s.notices[p]
  IN [intervals |->
        IF known = {}
        THEN [s.intervals EXCEPT ![j] =
                <<[timestamp |-> packet.timestamp, noticed |-> fresh, isBarrier |-> FALSE]>> \o @]
        ELSE [s.intervals EXCEPT ![j][at].noticed = @ \cup fresh],
      notices |->
        [p \in PageIndex |->
           IF p \in fresh THEN [KeepDiff(p) EXCEPT ![j] = <<Notice(packet.timestamp)>> \o @]
           ELSE s.notices[p]],
      pages |-> [p \in PageIndex |-> IF p \in fresh THEN Invalidated(s.pages[p]) ELSE s.pages[p]]]

(* At host h, with the structures base, the packets are incorporated in order. *)
Incorporated(h, base, packets) ==
  LET f[k \in 0 .. Len(packets)] ==
        IF k = 0 THEN base ELSE incorporateWnPacket(h, f[k - 1], packets[k])
  IN f[Len(packets)]

(* Host h opens the interval own (handleGrantWNIMsg, handleGrantExitBarrier-  *)
(* Msg) or none, and incorporates packets.                                    *)
Incorporate(h, own, packets) ==
  LET base == IF own = None THEN Local(h)
              ELSE [Local(h) EXCEPT !.intervals[h] = <<own>> \o @]
      s == Incorporated(h, base, packets)
  IN /\ intervals' = [intervals EXCEPT ![h] = s.intervals]
     /\ notices' = [notices EXCEPT ![h] = s.notices]
     /\ pages' = [pages EXCEPT ![h] = s.pages]
     /\ prot' = [prot EXCEPT ![h] = [p \in PageIndex |->
                   IF s.pages[p].state = "INVALID" /\ pages[h][p].state # "INVALID" THEN "NONE" ELSE @[p]]]
     /\ now' = [now EXCEPT ![h] = IF own = None THEN @ ELSE own.timestamp]

-----------------------------------------------------------------------------
(* Messages: m.to handles m in its SIGIO handler. *)

Msg(command, from, to, body) == [command |-> command, from |-> from, to |-> to, body |-> body]

Received(m, command) == /\ m \in msgs /\ m.command = command /\ ~stuck[m.to]
                        /\ pc[m.to] \notin FaultPoints \ SigioPoints

Running(h, point) == pc[h] = point /\ ~stuck[h]

-----------------------------------------------------------------------------
(* mi_lock, mi_unlock and the program's accesses at host h *)

(* mi_lock returns once the notices of the last holder are in; without one   *)
(* the host opens an interval of its own.                                    *)
Begin(h) ==
  /\ Running(h, "app")
  /\ done[h] < MaxOps
  /\ \E o \in Program[h][phase[h]] :
       /\ op' = [op EXCEPT ![h] = o]
       /\ IF o.lock = NoLock
          THEN /\ pc' = [pc EXCEPT ![h] = "access"]
               /\ UNCHANGED <<holder, msgs, intervals, now>>
          ELSE /\ holder[o.lock] = NoHost
               /\ holder' = [holder EXCEPT ![o.lock] = h]
               /\ IF last[o.lock] \in {NoHost, h}
                  THEN /\ addNewInterval(h)
                       /\ pc' = [pc EXCEPT ![h] = "access"]
                       /\ UNCHANGED msgs
                  ELSE /\ msgs' = msgs \cup {Msg("FETCH_WN_I", h, last[o.lock], now[h])}
                       /\ pc' = [pc EXCEPT ![h] = "wni"]
                       /\ UNCHANGED <<intervals, now>>
  /\ UNCHANGED <<notices, pages, prot, turn, todo, done, phase, stamps, last, stuck, memory>>

(* The page the operation is about. *)
Cur(h) == pages[h][op[h].page]

(* What the program may do with it, by its protection; Faults: not even      *)
(* read it, or not write it.                                                 *)
CurProt(h) == prot[h][op[h].page]
Faults(h) == CurProt(h) = "NONE" \/ (op[h].inc /\ CurProt(h) # "WRITE")

(* Mutant: the page is always asked for at its home. *)
PageHome(h, p) == p % hostnum

(* segv_handler, MISS: fetchPage asks the host with the latest noticed       *)
(* interval, or the page's home when there is no notice.                     *)
PageSource(h, p) ==
  LET noticed == {j \in Host \ {h} : notices[h][p][j] # << >>}
      Top(j) == Head(notices[h][p][j]).timestamp
      Later(j, best) == best = NoHost \/ isAfterInterval(Top(j), Top(best))
      best[i \in 0 .. hostnum] ==
        IF i = 0 THEN NoHost
        ELSE IF i - 1 \in noticed /\ Later(i - 1, best[i - 1]) THEN i - 1 ELSE best[i - 1]
  IN IF noticed = {} THEN p % hostnum ELSE best[hostnum]

FaultMiss(h) ==
  /\ Running(h, "access")
  /\ Faults(h)
  /\ Cur(h).state = "MISS"
  /\ msgs' = msgs \cup {Msg("FETCH_PAGE", h, PageSource(h, op[h].page), op[h].page)}
  /\ pc' = [pc EXCEPT ![h] = "page"]
  /\ UNCHANGED <<mem, op, turn, todo, done, phase, stamps, holder, last, stuck, memory>>

(* The diffs of host j that fetchDiff asks for: its notices from the newest   *)
(* back to the first with a diff, without those not after startInterval.     *)
MissingFrom(h, p, j) ==
  LET list == notices[h][p][j]
      start == pages[h][p].start
      Wanted(i) == /\ \A k \in 1 .. i : list[k].diff = None
                   /\ start = None \/ isAfterInterval(list[i].timestamp, start)
      At(i) == IF j # h /\ Wanted(i) THEN <<[hostid |-> j, timestamp |-> list[i].timestamp]>>
               ELSE << >>
  IN Joined([i \in 1 .. Len(list) |-> At(i)], Len(list))

(* All that are missing at one moment. *)
MissingDiffs(h, p) == Joined([i \in 1 .. hostnum |-> MissingFrom(h, p, i - 1)], hostnum)

(* segv_handler, INVALID: fetchDiff goes from host to host ... *)
FaultInvalid(h) ==
  /\ Running(h, "access")
  /\ Faults(h)
  /\ Cur(h).state = "INVALID"
  /\ pc' = [pc EXCEPT ![h] = "diff"]
  /\ UNCHANGED <<mem, op, turn, todo, done, phase, stamps, holder, last, msgs, stuck, memory>>

(* ... and reads the notices of a host when it comes to it. Those that a      *)
(* handler puts before them later are not met.                               *)
ReadNotices(h) ==
  /\ Running(h, "diff")
  /\ todo[h] = << >>
  /\ turn[h] < hostnum
  /\ todo' = [todo EXCEPT ![h] = MissingFrom(h, op[h].page, turn[h])]
  /\ turn' = [turn EXCEPT ![h] = @ + 1]
  /\ UNCHANGED <<mem, pc, op, done, phase, stamps, holder, last, msgs, stuck, memory>>

FetchDiff(h) ==
  /\ Running(h, "diff")
  /\ todo[h] # << >>
  /\ msgs' = msgs \cup {Msg("FETCH_DIFF", h, Head(todo[h]).hostid,
                            [page |-> op[h].page, timestamp |-> Head(todo[h]).timestamp])}
  /\ todo' = [todo EXCEPT ![h] = Tail(@)]
  /\ pc' = [pc EXCEPT ![h] = "diffWait"]
  /\ UNCHANGED <<mem, op, turn, done, phase, stamps, holder, last, stuck, memory>>

(* All is fetched: back in segv_handler the state changes. *)
Resolved(h) ==
  /\ \/ Running(h, "pageGot")
     \/ Running(h, "diff") /\ todo[h] = << >> /\ turn[h] = hostnum
  /\ pages' = [pages EXCEPT ![h][op[h].page].state = "RDONLY"]
  /\ pc' = [pc EXCEPT ![h] = "readable"]
  /\ turn' = [turn EXCEPT ![h] = 0]
  /\ UNCHANGED <<intervals, now, notices, prot, op, todo, done, phase, stamps, holder, last, msgs,
                 stuck, memory>>

(* The notice goes into the page's list and into the interval's. *)
createWriteNotice(h, p) ==
  LET at == CHOOSE i \in DOMAIN intervals[h][h] : intervals[h][h][i].timestamp = now[h]
  IN /\ notices' = [notices EXCEPT ![h][p][h] = <<Notice(now[h])>> \o @]
     /\ intervals' = [intervals EXCEPT ![h][h][at].noticed = @ \cup {p}]

(* segv_handler, RDONLY: the fault was a write. *)
FaultWrite(h) ==
  /\ Running(h, "access")
  /\ Faults(h)
  /\ Cur(h).state = "RDONLY"
  /\ pc' = [pc EXCEPT ![h] = "tested"]
  /\ UNCHANGED <<mem, op, turn, todo, done, phase, stamps, holder, last, msgs, stuck, memory>>

(* First the twin is made, unless the page has one. *)
FaultTwin(h) ==
  /\ Running(h, "tested")
  /\ pages' = [pages EXCEPT ![h][op[h].page] = createTwinPage(@)]
  /\ pc' = [pc EXCEPT ![h] = "twinned"]
  /\ UNCHANGED <<intervals, now, notices, prot, op, turn, todo, done, phase, stamps, holder, last, msgs,
                 stuck, memory>>

(* Then the notice, which createWriteNotice refuses for a page that is not   *)
(* RDONLY any more.                                                          *)
FaultNotice(h) ==
  /\ Running(h, "twinned")
  /\ IF Cur(h).state = "RDONLY" THEN createWriteNotice(h, op[h].page)
     ELSE UNCHANGED <<intervals, notices>>
  /\ pc' = [pc EXCEPT ![h] = "noticed"]
  /\ UNCHANGED <<now, pages, prot, op, turn, todo, done, phase, stamps, holder, last, msgs, stuck, memory>>

(* Then the state changes, whatever it is by now. *)
FaultWritable(h) ==
  /\ Running(h, "noticed")
  /\ pages' = [pages EXCEPT ![h][op[h].page].state = "WRITE"]
  /\ pc' = [pc EXCEPT ![h] = "written"]
  /\ UNCHANGED <<intervals, now, notices, prot, op, turn, todo, done, phase, stamps, holder, last,
                 msgs, stuck, memory>>

(* And the page becomes readable or writable, whatever its state is by then. *)
FaultProtect(h) ==
  /\ Running(h, "readable") \/ Running(h, "written")
  /\ prot' = [prot EXCEPT ![h][op[h].page] = IF pc[h] = "readable" THEN "READ" ELSE "WRITE"]
  /\ pc' = [pc EXCEPT ![h] = "access"]
  /\ UNCHANGED <<intervals, now, notices, pages, op, turn, todo, done, phase, stamps, holder, last,
                 msgs, stuck, memory>>

(* The access goes through: the program reads the cell and, for inc, writes  *)
(* it back with one more.                                                    *)
Access(h) ==
  LET p == op[h].page
      c == op[h].cell
  IN /\ Running(h, "access")
     /\ ~Faults(h)
     /\ IF op[h].inc
        THEN /\ pages' = [pages EXCEPT ![h][p].data[c] = (@ + 1) % BYTE]
             /\ memory' = [memory EXCEPT ![p][c] = (@ + 1) % BYTE]
        ELSE UNCHANGED <<pages, memory>>
     /\ pc' = [pc EXCEPT ![h] = "done"]
     /\ UNCHANGED <<intervals, now, notices, prot, op, turn, todo, done, phase, stamps, holder, last,
                    msgs, stuck>>

(* mi_unlock: a new interval is opened before the lock is released. *)
End(h) ==
  /\ Running(h, "done")
  /\ IF op[h].lock = NoLock THEN UNCHANGED <<intervals, now, holder, last>>
     ELSE /\ addNewInterval(h)
          /\ holder' = [holder EXCEPT ![op[h].lock] = NoHost]
          /\ last' = [last EXCEPT ![op[h].lock] = h]
  /\ pc' = [pc EXCEPT ![h] = "app"]
  /\ op' = [op EXCEPT ![h] = None]
  /\ done' = [done EXCEPT ![h] = @ + 1]
  /\ UNCHANGED <<notices, pages, prot, turn, todo, phase, stamps, msgs, stuck, memory>>

-----------------------------------------------------------------------------
(* The handlers for requests *)

(* handleFetchWNIMsg: grantWNI. *)
HandleFetchWNI(m) ==
  /\ Received(m, "FETCH_WN_I")
  /\ msgs' = (msgs \ {m}) \cup
       {Msg("GRANT_WN_I", m.to, m.from,
            [timestamp |-> now[m.to], packets |-> Packets(m.to, m.body)])}
  /\ UNCHANGED <<mem, pc, op, turn, todo, done, phase, stamps, holder, last, stuck, memory>>

(* A fault on page p inside the SIGIO handler of h is resolved at once when   *)
(* no diff is missing. Otherwise fetchDiff waits for answers that SIGIO,      *)
(* masked in the handler, cannot bring; and where the handler has interrupted *)
(* segv_handler itself, SIGSEGV is masked and the fault ends the program.     *)
Resolvable(h, p) ==
  /\ pages[h][p].state = "INVALID"
  /\ pc[h] \notin {"page", "pageGot", "diff", "diffWait"} \cup FaultPoints
  /\ MissingDiffs(h, p) = << >>

(* handleFetchPageMsg: grantPage answers nothing for a page it does not map,  *)
(* and faults where it reads a page that is protected against reading.        *)
HandleFetchPage(m) ==
  LET h == m.to
      pg == pages[h][m.body]
      faults == pg.state # "MISS" /\ prot[h][m.body] = "NONE"
      resolved == faults /\ Resolvable(h, m.body)
  IN /\ Received(m, "FETCH_PAGE")
     /\ stuck' = [stuck EXCEPT ![h] = faults /\ ~resolved]
     /\ pages' = [pages EXCEPT ![h][m.body].state = IF resolved THEN "RDONLY" ELSE @]
     /\ prot' = [prot EXCEPT ![h][m.body] = IF resolved THEN "READ" ELSE @]
     /\ msgs' = (msgs \ {m}) \cup
                (IF pg.state = "MISS" \/ stuck'[h] THEN {}
                 ELSE {Msg("GRANT_PAGE", h, m.from, [page |-> m.body, data |-> pg.data])})
     /\ UNCHANGED <<intervals, now, notices, pc, op, turn, todo, done, phase, stamps, holder, last, memory>>

(* Once its diff is made, a page that was being written is read-only again. *)
Downgraded(pg) == IF pg.state = "WRITE" THEN [freeTwinPage(pg) EXCEPT !.state = "RDONLY"] ELSE pg

(* handleFetchDiffMsg: grantDiff makes the diff when it is first asked for,   *)
(* and answers nothing when it has no such notice.                            *)
HandleFetchDiff(m) ==
  LET h == m.to
      p == m.body.page
      pg == pages[h][p]
      list == notices[h][p][h]
      found == {i \in DOMAIN list : list[i].timestamp = m.body.timestamp}
      at == CHOOSE i \in found : \A k \in found : i <= k
      make == found # {} /\ list[at].diff = None
      diff == IF make THEN createLocalDiff(pg.data, pg.twin) ELSE list[at].diff
  IN /\ Received(m, "FETCH_DIFF")
     /\ IF pg.state = "MISS" \/ found = {}
        THEN msgs' = msgs \ {m} /\ UNCHANGED <<notices, pages, prot>>
        ELSE /\ notices' = [notices EXCEPT ![h][p][h][at].diff = diff]
             /\ pages' = [pages EXCEPT ![h][p] = IF make THEN Downgraded(@) ELSE @]
             /\ prot' = [prot EXCEPT ![h][p] = IF make /\ pg.state = "WRITE" THEN "READ" ELSE @]
             /\ msgs' = (msgs \ {m}) \cup
                  {Msg("GRANT_DIFF", h, m.from, [page |-> p, timestamp |-> m.body.timestamp, diff |-> diff])}
     /\ UNCHANGED <<intervals, now, pc, op, turn, todo, done, phase, stamps, holder, last, stuck, memory>>

-----------------------------------------------------------------------------
(* The handlers for answers *)

(* handleGrantWNIMsg: the new interval takes over the granter's timestamp. *)
HandleGrantWNI(m) ==
  /\ Received(m, "GRANT_WN_I")
  /\ Incorporate(m.to, Interval(Bumped(m.body.timestamp, m.to), FALSE), m.body.packets)
  /\ pc' = [pc EXCEPT ![m.to] = "access"]
  /\ msgs' = msgs \ {m}
  /\ UNCHANGED <<op, turn, todo, done, phase, stamps, holder, last, stuck, memory>>

HandleGrantPage(m) ==
  /\ Received(m, "GRANT_PAGE")
  /\ pages' = [pages EXCEPT ![m.to][m.body.page].data = m.body.data,
                            ![m.to][m.body.page].start = now[m.to]]
  /\ prot' = [prot EXCEPT ![m.to][m.body.page] = "WRITE"]
  /\ pc' = [pc EXCEPT ![m.to] = "pageGot"]
  /\ msgs' = msgs \ {m}
  /\ UNCHANGED <<intervals, now, notices, op, turn, todo, done, phase, stamps, holder, last, stuck, memory>>

(* handleGrantDiffMsg: the diff is kept with its notice, and applied. *)
HandleGrantDiff(m) ==
  LET h == m.to
      p == m.body.page
      list == notices[h][p][m.from]
      found == {i \in DOMAIN list : list[i].timestamp = m.body.timestamp}
      at == CHOOSE i \in found : \A k \in found : i <= k
  IN /\ Received(m, "GRANT_DIFF")
     /\ IF found = {} THEN UNCHANGED <<notices, pages, prot>>
        ELSE /\ notices' = [notices EXCEPT ![h][p][m.from][at].diff =
                              IF @ = None THEN m.body.diff ELSE @]
             /\ pages' = [pages EXCEPT ![h][p].data = applyDiff(@, m.body.diff)]
             /\ prot' = [prot EXCEPT ![h][p] = "NONE"]
     /\ pc' = [pc EXCEPT ![h] = "diff"]
     /\ msgs' = msgs \ {m}
     /\ UNCHANGED <<intervals, now, op, turn, todo, done, phase, stamps, holder, last, stuck, memory>>

-----------------------------------------------------------------------------
(* mi_barrier with the information that travels with it *)

EnterBarrier(h) ==
  /\ Running(h, "app")
  /\ phase[h] < MaxBarrier
  /\ pc' = [pc EXCEPT ![h] = "barrier"]
  /\ IF h = 0 THEN stamps' = [stamps EXCEPT ![0] = now[0]] /\ UNCHANGED msgs
     ELSE /\ msgs' = msgs \cup {Msg("GRANT_ENTER_BARRIER_INFO", h, 0,
                                    [timestamp |-> now[h], packets |-> BarrierPackets(h)])}
          /\ UNCHANGED stamps
  /\ UNCHANGED <<mem, op, turn, todo, done, phase, holder, last, stuck, memory>>

HandleEnterBarrierInfo(m) ==
  /\ Received(m, "GRANT_ENTER_BARRIER_INFO")
  /\ stamps' = [stamps EXCEPT ![m.from] = IF @ = None THEN m.body.timestamp ELSE @]
  /\ Incorporate(0, None, m.body.packets)
  /\ msgs' = msgs \ {m}
  /\ UNCHANGED <<pc, op, turn, todo, done, phase, holder, last, stuck, memory>>

(* Every host has entered: returnAllBarrierInfo at host 0. *)
CompleteBarrier ==
  LET stamp == [h \in Host |-> stamps[h][h] + 1]
  IN /\ \A h \in Host : stamps[h] # None
     /\ ~stuck[0]
     /\ Incorporate(0, Interval(stamp, TRUE), << >>)
     /\ msgs' = msgs \cup {Msg("GRANT_EXIT_BARRIER_INFO", 0, h,
                               [timestamp |-> stamp, packets |-> Packets(0, stamps[h])]) : h \in Host \ {0}}
     /\ stamps' = [h \in Host |-> None]
     /\ last' = [l \in Lock |-> IF l % hostnum = 0 THEN NoHost ELSE last[l]]
     /\ pc' = [pc EXCEPT ![0] = "app"]
     /\ phase' = [phase EXCEPT ![0] = @ + 1]
     /\ done' = [done EXCEPT ![0] = 0]
     /\ UNCHANGED <<op, turn, todo, holder, stuck, memory>>

HandleExitBarrierInfo(m) ==
  /\ Received(m, "GRANT_EXIT_BARRIER_INFO")
  /\ Incorporate(m.to, Interval(m.body.timestamp, TRUE), m.body.packets)
  /\ pc' = [pc EXCEPT ![m.to] = "app"]
  /\ phase' = [phase EXCEPT ![m.to] = @ + 1]
  /\ done' = [done EXCEPT ![m.to] = 0]
  /\ msgs' = msgs \ {m}
  /\ UNCHANGED <<op, turn, todo, stamps, holder, last, stuck, memory>>

-----------------------------------------------------------------------------

(* Steps of the thread of h, inside a call or an access. *)
Main(h) == \/ FaultMiss(h) \/ FaultInvalid(h) \/ ReadNotices(h) \/ FetchDiff(h) \/ Resolved(h)
           \/ FaultWrite(h) \/ FaultTwin(h) \/ FaultNotice(h) \/ FaultWritable(h) \/ FaultProtect(h)
           \/ Access(h) \/ End(h)

Dispatch(m) == \/ HandleFetchWNI(m) \/ HandleFetchPage(m) \/ HandleFetchDiff(m)
               \/ HandleGrantWNI(m) \/ HandleGrantPage(m) \/ HandleGrantDiff(m)
               \/ HandleEnterBarrierInfo(m) \/ HandleExitBarrierInfo(m)

Next == \/ \E h \in Host : Begin(h) \/ Main(h) \/ EnterBarrier(h)
        \/ \E m \in msgs : Dispatch(m)
        \/ CompleteBarrier

Spec == Init /\ [][Next]_vars

-----------------------------------------------------------------------------
(* Properties *)

Stamp == [Host -> Int]

PageRecord == [state : {"RDONLY", "WRITE", "MISS", "INVALID"}, data : Page,
               twin : Page \cup {None}, start : Stamp \cup {None}]

IntervalRecord == [timestamp : Stamp, noticed : SUBSET PageIndex, isBarrier : BOOLEAN]

NoticeRecord == [timestamp : Stamp, diff : Page \cup {None}]

(* Type invariant: every variable keeps the shape its C declaration gives. *)
TypeOK ==
  /\ intervals \in [Host -> [Host -> Seq(IntervalRecord)]]
  /\ now \in [Host -> Stamp]
  /\ notices \in [Host -> [PageIndex -> [Host -> Seq(NoticeRecord)]]]
  /\ pages \in [Host -> [PageIndex -> PageRecord]]
  /\ prot \in [Host -> [PageIndex -> {"NONE", "READ", "WRITE"}]]
  /\ pc \in [Host -> {"app", "wni", "access", "page", "pageGot", "diff", "diffWait", "done", "barrier"}
                     \cup FaultPoints]
  /\ op \in [Host -> Operation \cup {None}]
  /\ done \in [Host -> 0 .. MaxOps]
  /\ phase \in [Host -> 0 .. MaxBarrier]
  /\ stamps \in [Host -> Stamp \cup {None}]
  /\ holder \in [Lock -> Host \cup {NoHost}]
  /\ last \in [Lock -> Host \cup {NoHost}]
  /\ stuck \in [Host -> BOOLEAN]
  /\ memory \in [PageIndex -> Page]

(* A host about to read a cell through a readable page finds there what the *)
(* latest write left: the notices fetched by mi_lock and mi_barrier name    *)
(* every page that changed, and the diffs rebuild it.                       *)
ReadsLatest ==
  \A h \in Host : pc[h] = "access" /\ CurProt(h) # "NONE" =>
    Cur(h).data[op[h].cell] = memory[op[h].page][op[h].cell]

(* The sum of the first n members of a sequence of integers. *)
Sum(f, n) == LET s[k \in 0 .. n] == IF k = 0 THEN 0 ELSE s[k - 1] + f[k] IN s[n]

(* The changes host h made to a cell: the diffs of its own notices, and what *)
(* it changed since the latest twin.                                         *)
InDiffs(list, c) ==
  Sum([i \in DOMAIN list |-> IF list[i].diff = None THEN 0 ELSE list[i].diff[c]], Len(list))
SinceTwin(pg, c) == IF pg.twin = None THEN 0 ELSE pg.data[c] - pg.twin[c]
Written(h, p, c) == InDiffs(notices[h][p][h], c) + SinceTwin(pages[h][p], c)

(* Every write is in exactly one diff of its writer: twins are made and      *)
(* dropped so that no change is left out of the diffs or counted twice.      *)
WrittenOnce ==
  \A p \in PageIndex, c \in Cell :
    memory[p][c] = Sum([i \in 1 .. hostnum |-> Written(i - 1, p, c)], hostnum) % BYTE

(* A page has a twin exactly while it is writable, and exactly then its own  *)
(* newest notice has no diff: grantDiff never makes a diff without a twin.   *)
(* In a write fault, between createTwinPage and the change of the state, the  *)
(* page is on its way from one to the other.                                 *)
TwinWhileWritable ==
  \A h \in Host, p \in PageIndex : ~(pc[h] \in {"twinned", "noticed"} /\ p = op[h].page) =>
    /\ (pages[h][p].state = "WRITE") <=> (pages[h][p].twin # None)
    /\ \A i \in DOMAIN notices[h][p][h] :
         (notices[h][p][h][i].diff = None) <=> (i = 1 /\ pages[h][p].state = "WRITE")

(* A host that waits for an answer has its request or the answer under way:  *)
(* grantPage and grantDiff never give up without an answer, and no handler   *)
(* waits for a message that it keeps from arriving.                          *)
WaitersAnswered ==
  \A h \in Host :
    /\ ~stuck[h]
    /\ pc[h] \in {"wni", "page", "diffWait"} =>
         \E m \in msgs : m.from = h \/ (m.to = h /\ m.command \in {"GRANT_WN_I", "GRANT_PAGE", "GRANT_DIFF"})

(* The timestamp of a host's interval never goes back: every interval it     *)
(* opens comes after the ones it has seen.                                   *)
TimestampsAdvance ==
  [][\A h \in Host : now'[h] = now[h] \/ isAfterInterval(now'[h], now[h])]_vars
=============================================================================
