---------------------------- MODULE MiMemProofs -----------------------------
(***************************************************************************)
(* Theorems about MiMem, for every number of hosts, pages, locks and cells, *)
(* every width of a byte and every program: TypeOK, TwinWhileWritable,     *)
(* WrittenOnce and (while no handler waits) WaitersAnswered hold on every  *)
(* behaviour on which                                                      *)
(*   - no handler changes a page while segv_handler is between two of its  *)
(*     statements on it (Undisturbed): the code does not exclude this      *)
(*     race, and with it TwinWhileWritable is false;                       *)
(*   - no host's timestamp goes back (TimestampsAdvance): with two locks it *)
(*     may, and a host may then make two intervals of the same timestamp.  *)
(* MiMemOrder shows when the second holds.                                 *)
(*                                                                         *)
(* Each step keeps each part of MemInv: types, one message at a time,      *)
(* nothing ahead of its host, twins.  Then WrittenOnce: a step that moves a *)
(* change from a twin to a diff adds nothing to what its host wrote, modulo *)
(* the width of a byte, and a write adds one there and one in memory.      *)
(*                                                                         *)
(* For WaitersAnswered, Backed: whatever any host or message knows of      *)
(* notices, their writer has (NoticesOwned, IntervalsOwned, PacketsOwned,  *)
(* TodoOwned, RequestsOwned), and a host maps what it wrote and what it is *)
(* the home of (HomesMapped).  So grantPage and grantDiff always have what *)
(* they are asked for.                                                     *)
(***************************************************************************)
EXTENDS MiMemLemmas

(* The types of the thread's variables and of the messages at each step. *)
LEMMA BeginTypes ==
  ASSUME MemInv, NEW h \in Host, Begin(h)
  PROVE Types'
<1>0. DataTypes /\ ThreadTypes /\ Working /\ msgs \subseteq Message /\ OwnNewest
  BY DEF MemInv, Types
<1>1. PICK o \in Operation : /\ op' = [op EXCEPT ![h] = o]
       /\ IF o.lock = NoLock
          THEN /\ pc' = [pc EXCEPT ![h] = "access"]
               /\ UNCHANGED <<holder, msgs, intervals, now>>
          ELSE /\ holder[o.lock] = NoHost
               /\ holder' = [holder EXCEPT ![o.lock] = h]
               /\ IF last[o.lock] \in {NoHost, h}
                  THEN /\ addNewInterval(h)
                       /\ pc' = [pc EXCEPT ![h] = "access"]
                       /\ UNCHANGED msgs
                  ELSE /\ msgs' = msgs \cup {Msg("FETCH_WN_I", h, last[o.lock], now[h])}
                       /\ pc' = [pc EXCEPT ![h] = "wni"]
                       /\ UNCHANGED <<intervals, now>>
  <2>1. phase[h] \in 0 .. MaxBarrier
    BY <1>0 DEF ThreadTypes
  <2>2. Program[h][phase[h]] \subseteq Operation
    BY <2>1, ProgramAssumption
  <2> QED BY <2>2 DEF Begin
<1>2. pc[h] = "app" /\ done[h] < MaxOps
      /\ UNCHANGED <<notices, pages, todo, done, phase, stamps, last, stuck, memory>>
  BY DEF Begin, Running
<1>3. ThreadTypes'
  <2>1. o.lock # NoLock => o.lock \in Lock
    BY DEF Operation
  <2>2. holder' \in [Lock -> Host \cup {NoHost}]
    BY <1>0, <1>1, <2>1 DEF ThreadTypes
  <2>3. op' \in [Host -> Operation \cup {None}]
    BY <1>0, <1>1 DEF ThreadTypes
  <2>4. pc' \in [Host -> Point]
    BY <1>0, <1>1 DEF ThreadTypes, Point
  <2> QED BY <1>0, <1>2, <2>2, <2>3, <2>4 DEF ThreadTypes
<1>4. Working'
  BY <1>0, <1>1, <1>2 DEF Working, ThreadTypes
<1>5. intervals' \in [Host -> [Host -> Seq(IntervalRecord)]] /\ now' \in [Host -> Stamp]
  <2>1. CASE addNewInterval(h)
    <3>1. PICK v \in IntervalRecord, more \in Seq(IntervalRecord) :
            intervals' = [intervals EXCEPT ![h][h] = more] /\ now' = [now EXCEPT ![h] = v.timestamp]
      BY <1>0, <2>1, NewIntervalIs
    <3>2. v.timestamp \in Stamp
      BY DEF IntervalRecord
    <3>3. now' \in [Host -> Stamp]
      BY <1>0, <3>1, <3>2 DEF DataTypes
    <3> QED BY <1>0, <3>1, <3>3, DataInterval
  <2>2. CASE UNCHANGED <<intervals, now>>
    BY <1>0, <2>2 DEF DataTypes
  <2> QED BY <1>1, <2>1, <2>2
<1>6. DataTypes'
  BY <1>0, <1>2, <1>5 DEF DataTypes
<1>7. msgs' \subseteq Message
  <2>1. CASE UNCHANGED msgs
    BY <1>0, <2>1
  <2>2. CASE o.lock # NoLock /\ last[o.lock] \notin {NoHost, h}
    <3>1. last[o.lock] \in Host /\ now[h] \in Stamp
      BY <1>0, <2>2 DEF Operation, ThreadTypes, DataTypes
    <3>2. Msg("FETCH_WN_I", h, last[o.lock], now[h]) \in Message
      BY <3>1, MsgIsMessage
    <3> QED BY <1>0, <1>1, <2>2, <3>2
  <2> QED BY <1>1, <2>1, <2>2
<1> QED BY <1>3, <1>4, <1>6, <1>7 DEF Types

(* segv_handler, MISS: the request goes to a host and names the page. *)
LEMMA FaultMissTypes ==
  ASSUME MemInv, NEW h \in Host, FaultMiss(h)
  PROVE Types'
<1>0. Types /\ DataTypes /\ ThreadTypes /\ Working /\ msgs \subseteq Message
  BY DEF MemInv, Types
<1>1. DataTypes'
  BY <1>0, DataFramed DEF FaultMiss
<1>2. ThreadTypes' /\ Working'
  BY <1>0 DEF FaultMiss, Running, ThreadTypes, Working, Point
<1>3. op[h].page \in PageIndex
  BY <1>0, OpPage DEF FaultMiss, Running
<1>4. PageSource(h, op[h].page) \in Host
  BY <1>3, PageSourceIs
<1>5. Msg("FETCH_PAGE", h, PageSource(h, op[h].page), op[h].page) \in Message
  BY <1>3, <1>4, MsgIsMessage
<1>6. msgs' \subseteq Message
  BY <1>0, <1>5 DEF FaultMiss
<1> QED BY <1>1, <1>2, <1>6 DEF Types

(* The steps that only move the thread on in segv_handler. *)
LEMMA FaultPointTypes ==
  ASSUME MemInv, NEW h \in Host, FaultInvalid(h) \/ FaultWrite(h) \/ FaultProtect(h)
  PROVE Types'
<1>0. Types /\ DataTypes /\ ThreadTypes /\ Working /\ msgs \subseteq Message
  BY DEF MemInv, Types
<1>1. DataTypes'
  BY <1>0 DEF FaultInvalid, FaultWrite, FaultProtect, mem, DataTypes
<1>2. ThreadTypes' /\ Working'
  BY <1>0 DEF FaultInvalid, FaultWrite, FaultProtect, Running, ThreadTypes, Working, Point, FaultPoints
<1> QED BY <1>0, <1>1, <1>2 DEF Types, FaultInvalid, FaultWrite, FaultProtect

(* fetchDiff: what is missing are notices of other hosts. *)
LEMMA ReadNoticesTypes ==
  ASSUME MemInv, NEW h \in Host, ReadNotices(h)
  PROVE /\ Types'
        /\ turn[h] \in Host
<1>0. Types /\ DataTypes /\ ThreadTypes /\ Working /\ msgs \subseteq Message
  BY DEF MemInv, Types
<1>1. DataTypes'
  BY <1>0, DataFramed DEF ReadNotices
<1>2. op[h].page \in PageIndex
  BY <1>0, OpPage DEF ReadNotices, Running
<1>3. turn[h] \in Host
  <2>1. turn[h] \in Nat /\ turn[h] < hostnum
    BY DEF MemInv, Protected, ReadNotices
  <2> QED BY <2>1, HostNumAssumption DEF Host
<1>4. PICK s \in Seq(Missing) : s = MissingFrom(h, op[h].page, turn[h])
  BY <1>0, <1>2, <1>3, MissingAsked
<1>5. ThreadTypes' /\ Working'
  BY <1>0, <1>4 DEF ReadNotices, ThreadTypes, Working
<1> QED BY <1>0, <1>1, <1>3, <1>5 DEF Types, ReadNotices

(* fetchDiff: the request names a page and an interval of another host. *)
LEMMA FetchDiffTypes ==
  ASSUME MemInv, NEW h \in Host, FetchDiff(h)
  PROVE Types'
<1>0. Types /\ DataTypes /\ ThreadTypes /\ Working /\ msgs \subseteq Message
  BY DEF MemInv, Types
<1>1. DataTypes'
  BY <1>0, DataFramed DEF FetchDiff
<1>2. op[h].page \in PageIndex
  BY <1>0, OpPage DEF FetchDiff, Running
<1>3. PICK s \in Seq(Missing) : s = todo[h] /\ s # << >>
  BY <1>0 DEF ThreadTypes, FetchDiff
<1>4. Head(s) \in Missing /\ Tail(s) \in Seq(Missing)
  BY <1>3
<1>5. ThreadTypes' /\ Working'
  <2>1. todo' = [todo EXCEPT ![h] = Tail(s)]
    BY <1>3 DEF FetchDiff
  <2> QED BY <1>0, <1>4, <2>1 DEF FetchDiff, Running, ThreadTypes, Working, Point
<1>6. Msg("FETCH_DIFF", h, Head(s).hostid, [page |-> op[h].page, timestamp |-> Head(s).timestamp]) \in Message
  BY <1>2, <1>4, MsgIsMessage DEF Missing
<1>7. msgs' \subseteq Message
  BY <1>0, <1>3, <1>6 DEF FetchDiff
<1> QED BY <1>1, <1>5, <1>7 DEF Types

(* The state of the page becomes RDONLY. *)
LEMMA ResolvedTypes ==
  ASSUME MemInv, NEW h \in Host, Resolved(h)
  PROVE Types'
<1>0. Types /\ DataTypes /\ ThreadTypes /\ Working /\ msgs \subseteq Message
  BY DEF MemInv, Types
<1>1. PICK p \in PageIndex : p = op[h].page
  BY <1>0, OpPage DEF Resolved, Running
<1>2. PICK pg \in PageRecord : pg = pages[h][p]
  BY <1>0 DEF DataTypes
<1>3. PICK v : v = [pg EXCEPT !.state = "RDONLY"]
  OBVIOUS
<1>4. v \in PageRecord
  BY <1>3 DEF PageRecord
<1>5. pages' = [pages EXCEPT ![h][p] = v]
  BY <1>1, <1>2, <1>3 DEF Resolved
<1>6. pages' \in [Host -> [PageIndex -> PageRecord]]
  BY <1>0, <1>4, <1>5, DataPage
<1>7. DataTypes'
  BY <1>0, <1>6 DEF DataTypes, Resolved
<1>8. ThreadTypes' /\ Working'
  BY <1>0 DEF Resolved, Running, ThreadTypes, Working, Point, FaultPoints
<1> QED BY <1>0, <1>7, <1>8 DEF Types, Resolved

(* createTwinPage: the twin is a page. *)
LEMMA FaultTwinTypes ==
  ASSUME MemInv, NEW h \in Host, FaultTwin(h)
  PROVE Types'
<1>0. Types /\ DataTypes /\ ThreadTypes /\ Working /\ msgs \subseteq Message
  BY DEF MemInv, Types
<1>1. PICK p \in PageIndex : p = op[h].page
  BY <1>0, OpPage DEF FaultTwin, Running
<1>2. PICK pg \in PageRecord : pg = pages[h][p]
  BY <1>0 DEF DataTypes
<1>3. createTwinPage(pg) \in PageRecord
  BY DEF createTwinPage, PageRecord
<1>4. pages' = [pages EXCEPT ![h][p] = createTwinPage(pg)]
  BY <1>1, <1>2 DEF FaultTwin
<1>5. pages' \in [Host -> [PageIndex -> PageRecord]]
  BY <1>0, <1>3, <1>4, DataPage
<1>6. DataTypes'
  BY <1>0, <1>5 DEF DataTypes, FaultTwin
<1>7. ThreadTypes' /\ Working'
  BY <1>0 DEF FaultTwin, Running, ThreadTypes, Working, Point, FaultPoints
<1> QED BY <1>0, <1>6, <1>7 DEF Types, FaultTwin

(* createWriteNotice adds a notice to a list of notices. *)
LEMMA FaultNoticeTypes ==
  ASSUME MemInv, NEW h \in Host, FaultNotice(h)
  PROVE Types'
<1>0. Types /\ DataTypes /\ ThreadTypes /\ Working /\ msgs \subseteq Message /\ OwnNewest
  BY DEF MemInv, Types
<1>1. PICK p \in PageIndex : p = op[h].page
  BY <1>0, OpPage DEF FaultNotice, Running
<1>2. /\ notices' \in [Host -> [PageIndex -> [Host -> Seq(NoticeRecord)]]]
      /\ intervals' \in [Host -> [Host -> Seq(IntervalRecord)]]
  <2>1. CASE createWriteNotice(h, p)
    <3>1. PICK x \in NoticeRecord, more \in Seq(NoticeRecord), at \in DOMAIN intervals[h][h],
              next \in Seq(IntervalRecord) :
             /\ x.timestamp = now[h] /\ x.diff = None /\ more = <<x>> \o notices[h][p][h]
             /\ intervals[h][h][at].timestamp = now[h]
             /\ MoreNoticed(intervals[h][h], next, at, {p})
             /\ notices' = [notices EXCEPT ![h][p][h] = more]
             /\ intervals' = [intervals EXCEPT ![h][h] = next]
      BY <1>0, <2>1, NewNoticeIs, Zenon
    <3>2. notices' \in [Host -> [PageIndex -> [Host -> Seq(NoticeRecord)]]]
      BY <1>0, <3>1, DataNotice, Zenon
    <3>3. intervals' \in [Host -> [Host -> Seq(IntervalRecord)]]
      BY <1>0, <3>1, DataInterval, Zenon
    <3> QED BY <3>2, <3>3
  <2>2. CASE UNCHANGED <<intervals, notices>>
    BY <1>0, <2>2 DEF DataTypes
  <2> QED BY <1>1, <2>1, <2>2 DEF FaultNotice
<1>3. DataTypes'
  BY <1>0, <1>2 DEF DataTypes, FaultNotice
<1>4. ThreadTypes' /\ Working'
  BY <1>0 DEF FaultNotice, Running, ThreadTypes, Working, Point, FaultPoints
<1> QED BY <1>0, <1>3, <1>4 DEF Types, FaultNotice

(* The state of the page becomes WRITE. *)
LEMMA FaultWritableTypes ==
  ASSUME MemInv, NEW h \in Host, FaultWritable(h)
  PROVE Types'
<1>0. Types /\ DataTypes /\ ThreadTypes /\ Working /\ msgs \subseteq Message
  BY DEF MemInv, Types
<1>1. PICK p \in PageIndex : p = op[h].page
  BY <1>0, OpPage DEF FaultWritable, Running
<1>2. PICK pg \in PageRecord : pg = pages[h][p]
  BY <1>0 DEF DataTypes
<1>3. PICK v : v = [pg EXCEPT !.state = "WRITE"]
  OBVIOUS
<1>4. v \in PageRecord
  BY <1>3 DEF PageRecord
<1>5. pages' = [pages EXCEPT ![h][p] = v]
  BY <1>1, <1>2, <1>3 DEF FaultWritable
<1>6. pages' \in [Host -> [PageIndex -> PageRecord]]
  BY <1>0, <1>4, <1>5, DataPage
<1>7. DataTypes'
  BY <1>0, <1>6 DEF DataTypes, FaultWritable
<1>8. ThreadTypes' /\ Working'
  BY <1>0 DEF FaultWritable, Running, ThreadTypes, Working, Point, FaultPoints
<1> QED BY <1>0, <1>7, <1>8 DEF Types, FaultWritable

(* A write: the cell takes one more, modulo the size of a byte. *)
LEMMA ByteOneMore ==
  ASSUME NEW d \in Page, NEW c \in Cell
  PROVE /\ (d[c] + 1) % BYTE \in 0 .. (BYTE - 1)
        /\ [d EXCEPT ![c] = (@ + 1) % BYTE] \in Page
<1>1. d[c] + 1 \in Int
  BY ByteAssumption DEF Page
<1>2. (d[c] + 1) % BYTE \in 0 .. (BYTE - 1)
  BY <1>1, ModRange, ByteAssumption
<1> QED BY <1>2 DEF Page

(* A write leaves a byte in the page and in memory. *)
LEMMA AccessTypes ==
  ASSUME MemInv, NEW h \in Host, Access(h)
  PROVE Types'
<1>0. Types /\ DataTypes /\ ThreadTypes /\ Working /\ msgs \subseteq Message
  BY DEF MemInv, Types
<1>1. PICK p \in PageIndex, c \in Cell : p = op[h].page /\ c = op[h].cell
  BY <1>0, OpPage DEF Access, Running
<1>2. PICK pg \in PageRecord : pg = pages[h][p]
  BY <1>0 DEF DataTypes
<1>3. pages' \in [Host -> [PageIndex -> PageRecord]] /\ memory' \in [PageIndex -> Page]
  <2>1. CASE op[h].inc
    <3>1. PICK d : d = [pg.data EXCEPT ![c] = (@ + 1) % BYTE]
      OBVIOUS
    <3>2. d \in Page
      BY <3>1, ByteOneMore DEF PageRecord
    <3>3. PICK v : v = [pg EXCEPT !.data = d]
      OBVIOUS
    <3>4. v \in PageRecord
      BY <3>2, <3>3 DEF PageRecord
    <3>5. pages' = [pages EXCEPT ![h][p] = v]
      <4>1. pages' = [pages EXCEPT ![h][p].data[c] = (@ + 1) % BYTE]
        BY <1>1, <2>1 DEF Access
      <4>2. pages' = [pages EXCEPT ![h][p].data = d]
        BY <1>2, <3>1, <4>1
      <4> QED BY <1>2, <3>3, <4>2
    <3>6. pages' \in [Host -> [PageIndex -> PageRecord]]
      BY <1>0, <3>4, <3>5, DataPage
    <3>7. PICK e \in Page : e = [memory[p] EXCEPT ![c] = (@ + 1) % BYTE]
      BY <1>0, ByteOneMore DEF DataTypes
    <3>8. memory' = [memory EXCEPT ![p] = e]
      <4>1. memory' = [memory EXCEPT ![p][c] = (@ + 1) % BYTE]
        BY <1>1, <2>1 DEF Access
      <4> QED BY <3>7, <4>1
    <3> QED BY <1>0, <3>6, <3>8 DEF DataTypes
  <2>2. CASE ~op[h].inc
    BY <1>0, <2>2 DEF DataTypes, Access
  <2> QED BY <2>1, <2>2
<1>4. DataTypes'
  BY <1>0, <1>3 DEF DataTypes, Access
<1>5. ThreadTypes' /\ Working'
  BY <1>0 DEF Access, Running, ThreadTypes, Working, Point
<1> QED BY <1>0, <1>4, <1>5 DEF Types, Access

(* mi_unlock: the interval it opens goes into a list of intervals. *)
LEMMA EndTypes ==
  ASSUME MemInv, NEW h \in Host, End(h)
  PROVE Types'
<1>0. Types /\ DataTypes /\ ThreadTypes /\ Working /\ msgs \subseteq Message /\ OwnNewest
  BY DEF MemInv, Types
<1>1. intervals' \in [Host -> [Host -> Seq(IntervalRecord)]] /\ now' \in [Host -> Stamp]
  <2>1. CASE addNewInterval(h)
    <3>1. PICK v \in IntervalRecord, more \in Seq(IntervalRecord) :
            intervals' = [intervals EXCEPT ![h][h] = more] /\ now' = [now EXCEPT ![h] = v.timestamp]
      BY <1>0, <2>1, NewIntervalIs
    <3>2. v.timestamp \in Stamp
      BY DEF IntervalRecord
    <3>3. now' \in [Host -> Stamp]
      BY <1>0, <3>1, <3>2 DEF DataTypes
    <3> QED BY <1>0, <3>1, <3>3, DataInterval
  <2>2. CASE UNCHANGED <<intervals, now>>
    BY <1>0, <2>2 DEF DataTypes
  <2> QED BY <2>1, <2>2 DEF End
<1>2. DataTypes'
  BY <1>0, <1>1 DEF DataTypes, End
<1>3. op[h] \in Operation /\ done[h] < MaxOps /\ pc[h] = "done"
  BY <1>0 DEF End, Running, Working
<1>4. done[h] + 1 \in 0 .. MaxOps
  BY <1>0, <1>3, BoundAssumption DEF ThreadTypes
<1>5. ThreadTypes'
  <2>1. op[h].lock = NoLock \/ op[h].lock \in Lock
    BY <1>3 DEF Operation
  <2>2. holder' \in [Lock -> Host \cup {NoHost}] /\ last' \in [Lock -> Host \cup {NoHost}]
    BY <1>0, <2>1 DEF ThreadTypes, End
  <2>3. done' \in [Host -> 0 .. MaxOps]
    BY <1>0, <1>4 DEF ThreadTypes, End
  <2> QED BY <1>0, <2>2, <2>3 DEF ThreadTypes, End, Point
<1>6. Working'
  BY <1>0 DEF Working, End, ThreadTypes
<1> QED BY <1>0, <1>2, <1>5, <1>6 DEF Types, End

(* The types of the messages and of the data after each handler. *)
LEMMA HandleFetchWNITypes ==
  ASSUME MemInv, NEW m \in msgs, HandleFetchWNI(m)
  PROVE Types'
<1>0. Types /\ DataTypes /\ ThreadTypes /\ Working /\ msgs \subseteq Message
  BY DEF MemInv, Types
<1>1. m.to \in Host /\ m.from \in Host
  BY Handles DEF MemInv, HandleFetchWNI
<1>2. PICK s \in Seq(PacketRecord) : s = Packets(m.to, m.body)
  BY <1>0, <1>1, PacketsSent
<1>3. PICK body : body = [timestamp |-> now[m.to], packets |-> s]
  OBVIOUS
<1>4. body \in Info
  BY <1>0, <1>1, <1>3 DEF Info, DataTypes
<1>5. Msg("GRANT_WN_I", m.to, m.from, body) \in Message
  BY <1>1, <1>4, MsgIsMessage
<1>6. msgs' \subseteq Message
  BY <1>0, <1>2, <1>3, <1>5 DEF HandleFetchWNI
<1>7. DataTypes'
  BY <1>0, DataFramed DEF HandleFetchWNI
<1>8. ThreadTypes' /\ Working'
  BY <1>0 DEF HandleFetchWNI, ThreadTypes, Working
<1> QED BY <1>6, <1>7, <1>8 DEF Types

(* handleFetchPageMsg: the page it grants, if any. *)
LEMMA HandleFetchPageDoes ==
  ASSUME MemInv, NEW m \in msgs, HandleFetchPage(m)
  PROVE /\ m.to \in Host /\ m.from \in Host /\ m.body \in PageIndex
        /\ \E v \in PageRecord :
             /\ v.data = pages[m.to][m.body].data /\ v.twin = pages[m.to][m.body].twin
             /\ v.state = pages[m.to][m.body].state
                \/ (v.state = "RDONLY" /\ pages[m.to][m.body].state = "INVALID")
             /\ pages' = [pages EXCEPT ![m.to][m.body] = v]
             /\ prot' = [prot EXCEPT ![m.to][m.body] =
                           IF v.state = pages[m.to][m.body].state THEN @ ELSE "READ"]
        /\ \E b \in BOOLEAN : stuck' = [stuck EXCEPT ![m.to] = b]
        /\ \/ /\ msgs' = msgs \ {m}
              /\ pages[m.to][m.body].state = "MISS" \/ stuck'[m.to]
           \/ msgs' = (msgs \ {m}) \cup {Msg("GRANT_PAGE", m.to, m.from,
                              [page |-> m.body, data |-> pages[m.to][m.body].data])}
<1>0. Types /\ DataTypes /\ ThreadTypes
  BY DEF MemInv, Types
<1>1. m.to \in Host /\ m.from \in Host /\ m.body \in PageIndex
  BY Handles, Letters DEF MemInv, HandleFetchPage
<1>2. PICK h \in Host, p \in PageIndex : h = m.to /\ p = m.body
  BY <1>1
<1>3. PICK pg \in PageRecord : pg = pages[h][p]
  BY <1>0 DEF DataTypes
<1>4. PICK a \in BOOLEAN, r \in BOOLEAN, b \in BOOLEAN :
             /\ a = (pg.state # "MISS" /\ prot[h][p] = "NONE")
             /\ r = (a /\ Resolvable(h, p)) /\ b = (a /\ ~r)
  OBVIOUS
<1>5. stuck' = [stuck EXCEPT ![h] = b]
  <2>1. stuck' = [stuck EXCEPT ![h] =
                    (pg.state # "MISS" /\ prot[h][p] = "NONE")
                    /\ ~((pg.state # "MISS" /\ prot[h][p] = "NONE") /\ Resolvable(h, p))]
    BY <1>2, <1>3 DEF HandleFetchPage
  <2> QED BY <1>4, <2>1, Zenon
<1>12. stuck'[h] = b
  BY <1>0, <1>5 DEF ThreadTypes
<1>6. PICK v : v = [pg EXCEPT !.state = IF r THEN "RDONLY" ELSE pg.state]
  OBVIOUS
<1>7. /\ v \in PageRecord /\ v.data = pg.data /\ v.twin = pg.twin
      /\ v.state = pg.state \/ (v.state = "RDONLY" /\ pg.state = "INVALID")
      /\ v.state = pg.state <=> ~r
  BY <1>3, <1>4, <1>6 DEF PageRecord, Resolvable
<1>8. pages' = [pages EXCEPT ![h][p] = v]
  <2>1. pages' = [pages EXCEPT ![h][p].state =
                    IF (pg.state # "MISS" /\ prot[h][p] = "NONE") /\ Resolvable(h, p) THEN "RDONLY" ELSE @]
    BY <1>2, <1>3 DEF HandleFetchPage
  <2>2. pages' = [pages EXCEPT ![h][p].state = IF r THEN "RDONLY" ELSE pg.state]
    BY <1>3, <1>4, <2>1
  <2> QED BY <1>3, <1>6, <2>2
<1>11. prot' = [prot EXCEPT ![h][p] = IF v.state = pg.state THEN @ ELSE "READ"]
  <2>1. prot' = [prot EXCEPT ![h][p] =
                   IF (pg.state # "MISS" /\ prot[h][p] = "NONE") /\ Resolvable(h, p) THEN "READ" ELSE @]
    BY <1>2, <1>3 DEF HandleFetchPage
  <2>2. prot' = [prot EXCEPT ![h][p] = IF r THEN "READ" ELSE @]
    BY <1>4, <2>1
  <2> QED BY <1>7, <2>2
<1>9. msgs' = (msgs \ {m}) \cup (IF pg.state = "MISS" \/ stuck'[h] THEN {}
                 ELSE {Msg("GRANT_PAGE", h, m.from, [page |-> p, data |-> pg.data])})
  BY <1>2, <1>3 DEF HandleFetchPage
<1>10. \/ msgs' = msgs \ {m} /\ (pg.state = "MISS" \/ stuck'[h])
       \/ msgs' = (msgs \ {m}) \cup {Msg("GRANT_PAGE", h, m.from, [page |-> p, data |-> pg.data])}
  BY <1>9
<1> QED BY <1>1, <1>2, <1>3, <1>5, <1>7, <1>8, <1>10, <1>11, <1>12

(* handleFetchPageMsg answers with a page. *)
LEMMA HandleFetchPageTypes ==
  ASSUME MemInv, NEW m \in msgs, HandleFetchPage(m)
  PROVE Types'
<1>0. Types /\ DataTypes /\ ThreadTypes /\ Working /\ msgs \subseteq Message
  BY DEF MemInv, Types
<1>1. m.to \in Host /\ m.from \in Host /\ m.body \in PageIndex
  BY HandleFetchPageDoes
<1>2. PICK v \in PageRecord : pages' = [pages EXCEPT ![m.to][m.body] = v]
  BY HandleFetchPageDoes
<1>3. PICK b \in BOOLEAN : stuck' = [stuck EXCEPT ![m.to] = b]
  BY HandleFetchPageDoes
<1>4. pages' \in [Host -> [PageIndex -> PageRecord]]
  BY <1>0, <1>1, <1>2, DataPage
<1>5. DataTypes'
  BY <1>0, <1>4 DEF DataTypes, HandleFetchPage
<1>6. stuck' \in [Host -> BOOLEAN]
  BY <1>0, <1>3 DEF ThreadTypes
<1>7. ThreadTypes' /\ Working'
  BY <1>0, <1>6 DEF HandleFetchPage, ThreadTypes, Working
<1>8. msgs' \subseteq Message
  <2>1. pages[m.to][m.body].data \in Page
    BY <1>0, <1>1 DEF DataTypes, PageRecord
  <2>2. PICK body : body = [page |-> m.body, data |-> pages[m.to][m.body].data]
    OBVIOUS
  <2>3. body \in [page : PageIndex, data : Page]
    BY <1>1, <2>1, <2>2
  <2>4. Msg("GRANT_PAGE", m.to, m.from, body) \in Message
    BY <1>1, <2>3, MsgIsMessage
  <2>5. \/ msgs' = msgs \ {m}
        \/ msgs' = (msgs \ {m}) \cup {Msg("GRANT_PAGE", m.to, m.from, body)}
    BY <2>2, HandleFetchPageDoes
  <2> QED BY <1>0, <2>4, <2>5
<1> QED BY <1>5, <1>7, <1>8 DEF Types

(* handleFetchDiffMsg, in the notation of the types. *)
LEMMA FetchDiffCases ==
  ASSUME Undisturbed, MemInv, NEW m \in msgs, HandleFetchDiff(m)
  PROVE /\ m.to \in Host /\ m.from \in Host /\ m.body.page \in PageIndex
        /\ m.body.timestamp \in Stamp
        /\ NoDiff(m) \/ \E at, d, next, v : GivesDiff(m, at, d, next, v)
<1>1. /\ m \in Message /\ m.to \in Host /\ m.from \in Host /\ m.command = "FETCH_DIFF"
  BY Handles DEF MemInv, HandleFetchDiff
<1>2. DataTypes /\ Twins
  BY DEF MemInv, Types
<1>3. NoDiff(m) \/ \E at, d, next, v : GivesDiff(m, at, d, next, v)
  BY <1>1, <1>2, HandleFetchDiffDoes
<1>4. m.body.page \in PageIndex /\ m.body.timestamp \in Stamp
  BY <1>1, Letters
<1> QED BY <1>1, <1>3, <1>4

(* handleFetchDiffMsg answers with a diff, and keeps it in the notice. *)
LEMMA HandleFetchDiffTypes ==
  ASSUME Undisturbed, MemInv, NEW m \in msgs, HandleFetchDiff(m)
  PROVE Types'
<1>0. Types /\ DataTypes /\ ThreadTypes /\ Working /\ msgs \subseteq Message
  BY DEF MemInv, Types
<1>1. m.to \in Host /\ m.from \in Host /\ m.body.page \in PageIndex /\ m.body.timestamp \in Stamp
  BY FetchDiffCases
<1>2. /\ notices' \in [Host -> [PageIndex -> [Host -> Seq(NoticeRecord)]]]
      /\ pages' \in [Host -> [PageIndex -> PageRecord]] /\ msgs' \subseteq Message
  <2>1. CASE NoDiff(m)
    BY <1>0, <2>1 DEF NoDiff, DataTypes
  <2>2. CASE \E at, d, next, v : GivesDiff(m, at, d, next, v)
    <3>1. PICK at, d, next, v : GivesDiff(m, at, d, next, v)
      BY <2>2
    <3>2. /\ d \in Page /\ next \in Seq(NoticeRecord) /\ v \in PageRecord
          /\ notices' = [notices EXCEPT ![m.to][m.body.page][m.to] = next]
          /\ pages' = [pages EXCEPT ![m.to][m.body.page] = v]
          /\ msgs' = (msgs \ {m}) \cup
              {Msg("GRANT_DIFF", m.to, m.from,
                   [page |-> m.body.page, timestamp |-> m.body.timestamp, diff |-> d])}
      BY <3>1 DEF GivesDiff
    <3>3. PICK body \in [page : PageIndex, timestamp : Stamp, diff : Page] :
            body = [page |-> m.body.page, timestamp |-> m.body.timestamp, diff |-> d]
      BY <1>1, <3>2
    <3>4. Msg("GRANT_DIFF", m.to, m.from, body) \in Message
      BY <1>1, MsgIsMessage
    <3>5. msgs' \subseteq Message
      BY <1>0, <3>2, <3>3, <3>4
    <3>6. notices' \in [Host -> [PageIndex -> [Host -> Seq(NoticeRecord)]]]
      BY <1>0, <1>1, <3>2, DataNotice, Zenon
    <3>7. pages' \in [Host -> [PageIndex -> PageRecord]]
      BY <1>0, <1>1, <3>2, DataPage, Zenon
    <3> QED BY <3>5, <3>6, <3>7
  <2> QED BY <2>1, <2>2, FetchDiffCases
<1>3. DataTypes'
  BY <1>0, <1>2 DEF DataTypes, HandleFetchDiff
<1>4. ThreadTypes' /\ Working'
  BY <1>0 DEF HandleFetchDiff, ThreadTypes, Working
<1> QED BY <1>2, <1>3, <1>4 DEF Types

(* handleGrantPageMsg copies a page. *)
LEMMA HandleGrantPageTypes ==
  ASSUME MemInv, NEW m \in msgs, HandleGrantPage(m)
  PROVE Types'
<1>0. Types /\ DataTypes /\ ThreadTypes /\ Working /\ msgs \subseteq Message
  BY DEF MemInv, Types
<1>1. m \in Message /\ m.command = "GRANT_PAGE" /\ m.to \in Host /\ Expected(m)
  BY Handles DEF MemInv, HandleGrantPage
<1>2. PICK h \in Host, p \in PageIndex, x \in Page : h = m.to /\ p = m.body.page /\ x = m.body.data
  BY <1>1, Letters
<1>3. PICK pg \in PageRecord : pg = pages[h][p]
  BY <1>0 DEF DataTypes
<1>4. PICK ts \in Stamp : ts = now[h]
  BY <1>0 DEF DataTypes
<1>5. PICK v : v = [pg EXCEPT !.data = x, !.start = ts]
  OBVIOUS
<1>6. v \in PageRecord
  BY <1>5 DEF PageRecord
<1>7. pages' = [pages EXCEPT ![h][p] = v]
  <2>1. pages' = [pages EXCEPT ![h][p].data = x, ![h][p].start = ts]
    BY <1>2, <1>4 DEF HandleGrantPage
  <2> QED BY <1>0, <1>3, <1>5, <2>1 DEF DataTypes
<1>8. pages' \in [Host -> [PageIndex -> PageRecord]]
  BY <1>0, <1>6, <1>7, DataPage
<1>9. DataTypes'
  BY <1>0, <1>8 DEF DataTypes, HandleGrantPage
<1>10. pc[h] = "page"
  BY <1>1, <1>2 DEF Expected, Client, Request
<1>11. ThreadTypes' /\ Working'
  BY <1>0, <1>2, <1>10 DEF HandleGrantPage, ThreadTypes, Working, Point
<1> QED BY <1>0, <1>9, <1>11 DEF Types, HandleGrantPage

(* handleGrantDiffMsg likewise. *)
LEMMA GrantDiffCases ==
  ASSUME MemInv, NEW m \in msgs, HandleGrantDiff(m)
  PROVE /\ m.to \in Host /\ m.from \in Host /\ m.body.page \in PageIndex
        /\ m.body.page = op[m.to].page /\ pc[m.to] = "diffWait"
        /\ NoPlace(m) \/ \E at, d, next, v : TakesDiff(m, at, d, next, v)
<1>1. m \in Message /\ m.command = "GRANT_DIFF" /\ m.to \in Host /\ m.from \in Host /\ Expected(m)
  BY Handles DEF MemInv, HandleGrantDiff
<1>2. DataTypes
  BY DEF MemInv, Types
<1>3. NoPlace(m) \/ \E at, d, next, v : TakesDiff(m, at, d, next, v)
  BY <1>1, <1>2, HandleGrantDiffDoes
<1>4. m.body.page \in PageIndex
  BY <1>1, Letters
<1>5. m.body.page = op[m.to].page /\ pc[m.to] = "diffWait"
  BY <1>1 DEF Expected, Client, Request
<1> QED BY <1>1, <1>3, <1>4, <1>5

(* handleGrantDiffMsg keeps the diff and applies it. *)
LEMMA HandleGrantDiffTypes ==
  ASSUME MemInv, NEW m \in msgs, HandleGrantDiff(m)
  PROVE Types'
<1>0. Types /\ DataTypes /\ ThreadTypes /\ Working /\ msgs \subseteq Message
  BY DEF MemInv, Types
<1>1. m.to \in Host /\ m.from \in Host /\ m.body.page \in PageIndex /\ pc[m.to] = "diffWait"
  BY GrantDiffCases
<1>2. /\ notices' \in [Host -> [PageIndex -> [Host -> Seq(NoticeRecord)]]]
      /\ pages' \in [Host -> [PageIndex -> PageRecord]]
  <2>1. CASE NoPlace(m)
    BY <1>0, <2>1 DEF NoPlace, DataTypes
  <2>2. CASE \E at, d, next, v : TakesDiff(m, at, d, next, v)
    <3>1. PICK at, d, next, v : TakesDiff(m, at, d, next, v)
      BY <2>2
    <3>2. /\ next \in Seq(NoticeRecord) /\ v \in PageRecord
          /\ notices' = [notices EXCEPT ![m.to][m.body.page][m.from] = next]
          /\ pages' = [pages EXCEPT ![m.to][m.body.page] = v]
      BY <3>1 DEF TakesDiff
    <3>3. notices' \in [Host -> [PageIndex -> [Host -> Seq(NoticeRecord)]]]
      BY <1>0, <1>1, <3>2, DataNotice, Zenon
    <3>4. pages' \in [Host -> [PageIndex -> PageRecord]]
      BY <1>0, <1>1, <3>2, DataPage, Zenon
    <3> QED BY <3>3, <3>4
  <2> QED BY <2>1, <2>2, GrantDiffCases
<1>3. DataTypes'
  BY <1>0, <1>2 DEF DataTypes, HandleGrantDiff
<1>4. ThreadTypes' /\ Working'
  BY <1>0, <1>1 DEF HandleGrantDiff, ThreadTypes, Working, Point
<1> QED BY <1>0, <1>3, <1>4 DEF Types, HandleGrantDiff

(* A message with packets, at the host that incorporates them. *)
LEMMA InformedOf ==
  ASSUME MemInv, NEW m \in msgs,
         NEW command \in {"GRANT_WN_I", "GRANT_ENTER_BARRIER_INFO", "GRANT_EXIT_BARRIER_INFO"},
         Received(m, command)
  PROVE /\ m \in Message /\ m.command = command /\ m.to \in Host /\ m.from \in Host /\ Expected(m)
        /\ command # "GRANT_ENTER_BARRIER_INFO" => pc[m.to] \notin FaultPoints
        /\ m.body.timestamp \in Stamp /\ m.body.packets \in Seq(PacketRecord)
        /\ \A i \in DOMAIN m.body.packets :
             /\ m.body.packets[i] \in PacketRecord
             /\ m.body.packets[i].hostid # m.to
             /\ ~isAfterInterval(m.body.packets[i].timestamp, now[m.body.packets[i].hostid])
<1>1. /\ m \in Message /\ m.command = command /\ m.to \in Host /\ m.from \in Host /\ Expected(m)
      /\ command # "GRANT_ENTER_BARRIER_INFO" => pc[m.to] \notin FaultPoints
  BY Handles DEF MemInv, Request
<1>2. m.body.timestamp \in Stamp /\ m.body.packets \in Seq(PacketRecord)
  BY <1>1, Letters
<1>3. \A i \in DOMAIN m.body.packets :
             /\ m.body.packets[i].hostid # m.to
             /\ ~isAfterInterval(m.body.packets[i].timestamp, now[m.body.packets[i].hostid])
  BY <1>1 DEF MemInv, NoneAhead, ToldAhead
<1>4. \A i \in DOMAIN m.body.packets : m.body.packets[i] \in PacketRecord
  BY <1>2
<1> QED BY <1>1, <1>2, <1>3, <1>4

(* handleGrantWNIMsg takes the packets in. *)
LEMMA GrantWNIGains ==
  ASSUME MemInv, NEW m \in msgs, HandleGrantWNI(m)
  PROVE \E own \in IntervalRecord : \E base, t :
          /\ own.noticed = {} /\ own.timestamp = Bumped(m.body.timestamp, m.to) /\ own # None
          /\ Gains(m.to, own, m.body.packets, base, t)
<1>1. /\ m.to \in Host
      /\ m.body.timestamp \in Stamp /\ m.body.packets \in Seq(PacketRecord)
      /\ \A i \in DOMAIN m.body.packets : m.body.packets[i].hostid # m.to
  BY InformedOf DEF HandleGrantWNI
<1>2. PICK own : own = Interval(Bumped(m.body.timestamp, m.to), FALSE)
  OBVIOUS
<1>3. /\ own \in IntervalRecord /\ own.noticed = {} /\ own # None
      /\ own.timestamp = Bumped(m.body.timestamp, m.to)
  BY <1>1, <1>2, BumpedStamp, OwnInterval
<1>4. Incorporate(m.to, own, m.body.packets)
  BY <1>2 DEF HandleGrantWNI
<1>5. \E base, t : Gains(m.to, own, m.body.packets, base, t)
  BY <1>1, <1>3, <1>4, IncorporateGains DEF MemInv, Types
<1> QED BY <1>3, <1>5

(* So does handleGrantExitBarrierInfoMsg, *)
LEMMA ExitGains ==
  ASSUME MemInv, NEW m \in msgs, HandleExitBarrierInfo(m)
  PROVE \E own \in IntervalRecord : \E base, t :
          /\ own.noticed = {} /\ own.timestamp = m.body.timestamp /\ own # None
          /\ Gains(m.to, own, m.body.packets, base, t)
<1>1. /\ m.to \in Host
      /\ m.body.timestamp \in Stamp /\ m.body.packets \in Seq(PacketRecord)
      /\ \A i \in DOMAIN m.body.packets : m.body.packets[i].hostid # m.to
  BY InformedOf DEF HandleExitBarrierInfo
<1>2. PICK own : own = Interval(m.body.timestamp, TRUE)
  OBVIOUS
<1>3. /\ own \in IntervalRecord /\ own.noticed = {} /\ own # None
      /\ own.timestamp = m.body.timestamp
  BY <1>1, <1>2, OwnInterval
<1>4. Incorporate(m.to, own, m.body.packets)
  BY <1>2 DEF HandleExitBarrierInfo
<1>5. \E base, t : Gains(m.to, own, m.body.packets, base, t)
  BY <1>1, <1>3, <1>4, IncorporateGains DEF MemInv, Types
<1> QED BY <1>3, <1>5

(* and handleGrantEnterBarrierInfoMsg. *)
LEMMA EnterGains ==
  ASSUME Undisturbed, MemInv, NEW m \in msgs, HandleEnterBarrierInfo(m)
  PROVE m.to = 0 /\ \E base, t : Gains(0, None, m.body.packets, base, t)
<1>1. /\ m.to \in Host
      /\ m.body.timestamp \in Stamp /\ m.body.packets \in Seq(PacketRecord)
      /\ \A i \in DOMAIN m.body.packets : m.body.packets[i].hostid # m.to
      /\ Expected(m) /\ m.command = "GRANT_ENTER_BARRIER_INFO"
  BY InformedOf DEF HandleEnterBarrierInfo
<1>2. m.to = 0
  BY <1>1 DEF Expected
<1>3. Incorporate(0, None, m.body.packets)
  BY DEF HandleEnterBarrierInfo
<1>4. \E base, t : Gains(0, None, m.body.packets, base, t)
  BY <1>1, <1>2, <1>3, IncorporateGains DEF MemInv, Types
<1> QED BY <1>2, <1>4

(* Host 0 has every host's timestamp: then nothing is under way. *)
LEMMA AllEntered ==
  ASSUME MemInv, CompleteBarrier
  PROVE /\ msgs = {}
        /\ \A h \in Host : pc[h] = "barrier" /\ stamps[h] = now[h] /\ stamps[h] \in Stamp
<1>1. \A h \in Host : stamps[h] # None
  BY DEF CompleteBarrier
<1>2. \A m \in msgs : Client(m) \in Host /\ stamps[Client(m)] = None
  BY Letters DEF MemInv, Types, OneAtATime
<1>3. \A h \in Host : stamps[h] \in Stamp
  BY <1>1 DEF MemInv, Types, ThreadTypes
<1> QED BY <1>1, <1>2, <1>3 DEF MemInv, OneAtATime

(* The timestamp that completes a barrier. *)
BarrierStamp == [h \in Host |-> stamps[h][h] + 1]

(* returnAllBarrierInfo opens an interval and resets the locks. *)
LEMMA CompleteGains ==
  ASSUME MemInv, CompleteBarrier
  PROVE \E own \in IntervalRecord : \E base, t :
          /\ own.noticed = {} /\ own.timestamp = BarrierStamp /\ own # None
          /\ BarrierStamp \in Stamp
          /\ Gains(0, own, << >>, base, t)
<1>1. \A h \in Host : pc[h] = "barrier" /\ stamps[h] \in Stamp
  BY AllEntered
<1>2. BarrierStamp \in Stamp
  BY <1>1 DEF BarrierStamp, Stamp
<1>3. PICK own : own = Interval(BarrierStamp, TRUE)
  OBVIOUS
<1>4. own \in IntervalRecord /\ own.noticed = {} /\ own # None /\ own.timestamp = BarrierStamp
  BY <1>2, <1>3, OwnInterval
<1>5. Incorporate(0, own, << >>)
  BY <1>3 DEF CompleteBarrier, BarrierStamp
<1>6. 0 \in Host /\ pc[0] \notin FaultPoints
  BY <1>1, ZeroHost DEF FaultPoints
<1>7. PICK packets : packets = << >>
  OBVIOUS
<1>8. packets \in Seq(PacketRecord) /\ \A i \in DOMAIN packets : packets[i].hostid # 0
  BY <1>7
<1>9. Incorporate(0, own, packets)
  BY <1>5, <1>7
<1>10. \E base, t : Gains(0, own, packets, base, t)
  BY <1>4, <1>6, <1>8, <1>9, IncorporateGains DEF MemInv, Types
<1> QED BY <1>2, <1>4, <1>7, <1>10

-----------------------------------------------------------------------------

(* mi_barrier: the thread waits, and its notices go to host 0. *)
LEMMA EnterBarrierTypes ==
  ASSUME MemInv, NEW h \in Host, EnterBarrier(h)
  PROVE Types'
<1>0. Types /\ DataTypes /\ ThreadTypes /\ Working /\ msgs \subseteq Message
  BY DEF MemInv, Types
<1>1. DataTypes'
  BY <1>0, DataFramed DEF EnterBarrier
<1>2. ThreadTypes' /\ Working'
  <2>1. now[0] \in Stamp
    BY <1>0, ZeroHost DEF DataTypes
  <2>2. stamps' \in [Host -> Stamp \cup {None}]
    BY <1>0, <2>1 DEF EnterBarrier, ThreadTypes
  <2> QED BY <1>0, <2>2 DEF EnterBarrier, Running, ThreadTypes, Working, Point
<1>3. msgs' \subseteq Message
  <2>1. CASE h = 0
    BY <1>0, <2>1 DEF EnterBarrier
  <2>2. CASE h # 0
    <3>1. PICK body : body = [timestamp |-> now[h], packets |-> BarrierPackets(h)]
      OBVIOUS
    <3>2. body \in Info
      BY <1>0, <3>1, BarrierPacketsSent DEF Info, DataTypes
    <3>3. Msg("GRANT_ENTER_BARRIER_INFO", h, 0, body) \in Message
      BY <3>2, MsgIsMessage, ZeroHost
    <3> QED BY <1>0, <2>2, <3>1, <3>3 DEF EnterBarrier
  <2> QED BY <2>1, <2>2
<1> QED BY <1>1, <1>2, <1>3 DEF Types

(* handleGrantWNIMsg takes the packets in and the thread goes on. *)
LEMMA HandleGrantWNITypes ==
  ASSUME MemInv, NEW m \in msgs, HandleGrantWNI(m)
  PROVE Types'
<1>0. Types /\ DataTypes /\ ThreadTypes /\ Working /\ msgs \subseteq Message
  BY DEF MemInv, Types
<1>1. m.command = "GRANT_WN_I" /\ m.to \in Host /\ Expected(m)
  BY Handles DEF MemInv, HandleGrantWNI
<1>2. PICK own, base, t : own \in IntervalRecord /\ Gains(m.to, own, m.body.packets, base, t)
  BY GrantWNIGains
<1>3. memory' = memory
  BY DEF HandleGrantWNI
<1>4. DataTypes'
  BY <1>0, <1>1, <1>2, <1>3, DataGains
<1>5. pc[m.to] = "wni"
  BY <1>1 DEF Expected, Client, Request
<1>6. ThreadTypes' /\ Working'
  BY <1>0, <1>1, <1>5 DEF HandleGrantWNI, ThreadTypes, Working, Point
<1> QED BY <1>0, <1>4, <1>6 DEF Types, HandleGrantWNI

(* handleGrantEnterBarrierInfoMsg keeps the timestamp of the host that        *)
(* enters.                                                                    *)
LEMMA HandleEnterBarrierInfoTypes ==
  ASSUME Undisturbed, MemInv, NEW m \in msgs, HandleEnterBarrierInfo(m)
  PROVE Types'
<1>0. Types /\ DataTypes /\ ThreadTypes /\ Working /\ msgs \subseteq Message
  BY DEF MemInv, Types
<1>1. m.from \in Host /\ m.body.timestamp \in Stamp
  BY InformedOf DEF HandleEnterBarrierInfo
<1>2. PICK base, t : Gains(0, None, m.body.packets, base, t)
  BY EnterGains
<1>3. memory' = memory
  BY DEF HandleEnterBarrierInfo
<1>4. DataTypes'
  <2>1. PICK own : own = None
    OBVIOUS
  <2> QED BY <1>0, <1>2, <1>3, <2>1, DataGains, ZeroHost
<1>5. stamps' \in [Host -> Stamp \cup {None}]
  BY <1>0, <1>1 DEF HandleEnterBarrierInfo, ThreadTypes
<1>6. ThreadTypes' /\ Working'
  BY <1>0, <1>5 DEF HandleEnterBarrierInfo, ThreadTypes, Working
<1> QED BY <1>0, <1>4, <1>6 DEF Types, HandleEnterBarrierInfo

(* returnAllBarrierInfo: what goes to each host is a message. *)
LEMMA CompleteBarrierTypes ==
  ASSUME MemInv, CompleteBarrier
  PROVE Types'
<1>0. Types /\ DataTypes /\ ThreadTypes /\ Working /\ msgs \subseteq Message
  BY DEF MemInv, Types
<1>1. msgs = {} /\ \A h \in Host : pc[h] = "barrier" /\ stamps[h] \in Stamp
  BY AllEntered
<1>2. PICK own, base, t : own \in IntervalRecord /\ Gains(0, own, << >>, base, t) /\ BarrierStamp \in Stamp
  BY CompleteGains
<1>3. memory' = memory
  BY DEF CompleteBarrier
<1>4. DataTypes'
  <2>1. PICK packets : packets = << >>
    OBVIOUS
  <2> QED BY <1>0, <1>2, <1>3, <2>1, DataGains, ZeroHost
<1>5. phase[0] + 1 \in 0 .. MaxBarrier /\ 0 \in 0 .. MaxOps
  <2>1. phase[0] < MaxBarrier /\ phase[0] \in 0 .. MaxBarrier
    BY <1>0, <1>1, ZeroHost DEF Working, ThreadTypes
  <2> QED BY <2>1, BoundAssumption
<1>6. ThreadTypes' /\ Working'
  <2>1. stamps' \in [Host -> Stamp \cup {None}]
    BY DEF CompleteBarrier
  <2>2. last' \in [Lock -> Host \cup {NoHost}]
    BY <1>0 DEF CompleteBarrier, ThreadTypes
  <2>3. pc' \in [Host -> Point] /\ phase' \in [Host -> 0 .. MaxBarrier] /\ done' \in [Host -> 0 .. MaxOps]
    BY <1>0, <1>5 DEF CompleteBarrier, ThreadTypes, Point
  <2>4. ThreadTypes'
    BY <1>0, <2>1, <2>2, <2>3 DEF CompleteBarrier, ThreadTypes
  <2>5. Working'
    BY <1>0, <1>1 DEF CompleteBarrier, ThreadTypes, Working
  <2> QED BY <2>4, <2>5
<1>7. msgs' \subseteq Message
  <2>1. msgs' = msgs \cup {Msg("GRANT_EXIT_BARRIER_INFO", 0, h,
                     [timestamp |-> BarrierStamp, packets |-> Packets(0, stamps[h])]) : h \in Host \ {0}}
    BY DEF CompleteBarrier, BarrierStamp
  <2>2. ASSUME NEW h \in Host
        PROVE Msg("GRANT_EXIT_BARRIER_INFO", 0, h,
                     [timestamp |-> BarrierStamp, packets |-> Packets(0, stamps[h])]) \in Message
    <3>1. PICK s \in Seq(PacketRecord) : s = Packets(0, stamps[h])
      BY <1>0, ZeroHost, PacketsSent
    <3>2. PICK body \in Info : body = [timestamp |-> BarrierStamp, packets |-> s]
      BY <1>2 DEF Info
    <3>3. Msg("GRANT_EXIT_BARRIER_INFO", 0, h, body) \in Message
      BY ZeroHost, MsgIsMessage
    <3> QED BY <3>1, <3>2, <3>3
  <2> QED BY <1>1, <2>1, <2>2
<1> QED BY <1>4, <1>6, <1>7 DEF Types

(* handleGrantExitBarrierInfoMsg takes the packets in and the thread leaves.  *)
LEMMA HandleExitBarrierInfoTypes ==
  ASSUME MemInv, NEW m \in msgs, HandleExitBarrierInfo(m)
  PROVE Types'
<1>0. Types /\ DataTypes /\ ThreadTypes /\ Working /\ msgs \subseteq Message
  BY DEF MemInv, Types
<1>1. m.command = "GRANT_EXIT_BARRIER_INFO" /\ m.to \in Host /\ Expected(m)
  BY Handles DEF MemInv, HandleExitBarrierInfo
<1>2. PICK own, base, t : own \in IntervalRecord /\ Gains(m.to, own, m.body.packets, base, t)
  BY ExitGains
<1>3. memory' = memory
  BY DEF HandleExitBarrierInfo
<1>4. DataTypes'
  BY <1>0, <1>1, <1>2, <1>3, DataGains
<1>5. pc[m.to] = "barrier"
  BY <1>1 DEF Expected, Client, Request
<1>6. phase[m.to] + 1 \in 0 .. MaxBarrier /\ 0 \in 0 .. MaxOps
  <2>1. phase[m.to] < MaxBarrier /\ phase[m.to] \in 0 .. MaxBarrier
    BY <1>0, <1>1, <1>5 DEF Working, ThreadTypes
  <2> QED BY <2>1, BoundAssumption
<1>7. ThreadTypes' /\ Working'
  BY <1>0, <1>1, <1>5, <1>6 DEF HandleExitBarrierInfo, ThreadTypes, Working, Point
<1> QED BY <1>0, <1>4, <1>7 DEF Types, HandleExitBarrierInfo

(* No other step changes anything. *)
LEMMA StutterTypes == ASSUME MemInv, UNCHANGED vars PROVE MemInv'
BY DEF vars, mem, MemInv, Types, DataTypes, ThreadTypes, Working, OneAtATime, Expected, OwnNewest,
       NoneAhead, KnownAhead, ToldAhead, Twins, TwinsAt, Faulting, Bare, NotWriting, Protected, Guarded,
       Allowed, Cur

(* No step breaks a type. *)
LEMMA TypesStep ==
  ASSUME Undisturbed, MemInv, [Next]_vars
  PROVE Types'
<1>1. ASSUME NEW h \in Host, Begin(h) PROVE Types'
  BY <1>1, BeginTypes
<1>2. ASSUME NEW h \in Host, Main(h) PROVE Types'
  BY <1>2, FaultMissTypes, FaultPointTypes, ReadNoticesTypes, FetchDiffTypes, ResolvedTypes, FaultTwinTypes,
     FaultNoticeTypes, FaultWritableTypes, AccessTypes, EndTypes DEF Main
<1>3. ASSUME NEW h \in Host, EnterBarrier(h) PROVE Types'
  BY <1>3, EnterBarrierTypes
<1>4. ASSUME NEW m \in msgs, Dispatch(m) PROVE Types'
  BY <1>4, HandleFetchWNITypes, HandleFetchPageTypes, HandleFetchDiffTypes, HandleGrantWNITypes,
     HandleGrantPageTypes, HandleGrantDiffTypes, HandleEnterBarrierInfoTypes,
     HandleExitBarrierInfoTypes DEF Dispatch
<1>5. CASE CompleteBarrier
  BY <1>5, CompleteBarrierTypes
<1>6. CASE UNCHANGED vars
  BY <1>6, StutterTypes DEF MemInv
<1> QED BY <1>1, <1>2, <1>3, <1>4, <1>5, <1>6 DEF Next

(* Only host h's message and thread change. *)
OnlyAbout(h) ==
  /\ \A m \in msgs' : Client(m) # h => m \in msgs
  /\ \A g \in Host : g # h => pc'[g] = pc[g] /\ op'[g] = op[g] /\ now'[g] = now[g] /\ stamps'[g] = stamps[g]

(* A host whose message and thread change, and all others as they were. *)
LEMMA OneStep ==
  ASSUME Types, Types', OneAtATime, NEW h \in Host, OnlyAbout(h),
         \A m \in msgs' : Client(m) = h => Expected(m)' /\ stamps'[h] = None,
         \A m1, m2 \in msgs' : Client(m1) = h /\ Client(m2) = h => m1 = m2,
         stamps'[h] # None => pc'[h] = "barrier" /\ stamps'[h] = now'[h]
  PROVE OneAtATime'
<1>1. ASSUME NEW m \in msgs' PROVE Expected(m)' /\ stamps'[Client(m)] = None
  <2>1. CASE Client(m) = h
    BY <2>1
  <2>2. CASE Client(m) # h
    <3>1. PICK g \in Host : g = Client(m) /\ g # h
      BY <2>2, Letters DEF Types
    <3>2. Expected(m) /\ stamps[g] = None
      BY <2>2, <3>1 DEF OnlyAbout, OneAtATime
    <3>3. pc'[g] = pc[g] /\ op'[g] = op[g] /\ now'[g] = now[g] /\ stamps'[g] = stamps[g]
      BY <3>1 DEF OnlyAbout
    <3> QED BY <3>1, <3>2, <3>3 DEF Expected
  <2> QED BY <2>1, <2>2
<1>2. ASSUME NEW m1 \in msgs', NEW m2 \in msgs', Client(m1) = Client(m2) PROVE m1 = m2
  BY <1>2 DEF OnlyAbout, OneAtATime
<1>3. ASSUME NEW g \in Host, stamps'[g] # None PROVE pc'[g] = "barrier" /\ stamps'[g] = now'[g]
  BY <1>3 DEF OnlyAbout, OneAtATime
<1> QED BY <1>1, <1>2, <1>3 DEF OneAtATime, Client

(* A thread that waits for nothing has no message under way. *)
LEMMA NothingAsked ==
  ASSUME Types, OneAtATime, NEW h \in Host, pc[h] \notin {"wni", "page", "diffWait", "barrier"}
  PROVE /\ \A m \in msgs : Client(m) # h
        /\ stamps[h] = None
BY Letters DEF Types, OneAtATime, Expected, Command

(* A request is the message of its sender, *)
LEMMA ClientOfRequest ==
  ASSUME NEW command \in Request, NEW from, NEW to, NEW body, NEW m, m = Msg(command, from, to, body)
  PROVE Client(m) = from
BY MsgFields DEF Client

(* an answer that of its receiver. *)
LEMMA ClientOfAnswer ==
  ASSUME NEW command, command \notin Request, NEW from, NEW to, NEW body, NEW m,
         m = Msg(command, from, to, body)
  PROVE Client(m) = to
BY MsgFields DEF Client

(* A step of a thread that sends nothing. *)
LEMMA OneQuiet ==
  ASSUME Types, Types', OneAtATime, NEW h \in Host,
         pc[h] \notin {"wni", "page", "diffWait", "barrier"}, msgs' = msgs, stamps' = stamps,
         \A g \in Host : g # h => pc'[g] = pc[g] /\ op'[g] = op[g] /\ now'[g] = now[g]
  PROVE OneAtATime'
<1>1. (\A m \in msgs : Client(m) # h) /\ stamps[h] = None
  BY NothingAsked
<1>2. OnlyAbout(h)
  BY DEF OnlyAbout
<1> QED BY <1>1, <1>2, OneStep

(* A step of a thread that sends a request. *)
LEMMA OneAsked ==
  ASSUME Types, Types', OneAtATime, NEW h \in Host,
         pc[h] \notin {"wni", "page", "diffWait", "barrier"}, stamps' = stamps,
         NEW n, msgs' = msgs \cup {n}, Client(n) = h, Expected(n)',
         \A g \in Host : g # h => pc'[g] = pc[g] /\ op'[g] = op[g] /\ now'[g] = now[g]
  PROVE OneAtATime'
<1>1. (\A m \in msgs : Client(m) # h) /\ stamps[h] = None
  BY NothingAsked
<1>2. OnlyAbout(h)
  BY DEF OnlyAbout
<1>3. \A m \in msgs' : Client(m) = h => m = n
  BY <1>1
<1> QED BY <1>1, <1>2, <1>3, OneStep

(* A step that takes a message. *)
LEMMA OneTaken ==
  ASSUME Types, Types', OneAtATime, NEW m \in msgs, NEW h \in Host, h = Client(m),
         msgs' = msgs \ {m},
         \A g \in Host : g # h => pc'[g] = pc[g] /\ op'[g] = op[g] /\ now'[g] = now[g] /\ stamps'[g] = stamps[g],
         stamps'[h] # None => pc'[h] = "barrier" /\ stamps'[h] = now'[h]
  PROVE OneAtATime'
<1>1. \A n \in msgs' : Client(n) # h
  BY DEF OneAtATime
<1>2. OnlyAbout(h)
  BY DEF OnlyAbout
<1> QED BY <1>1, <1>2, OneStep

(* A step that answers a message. *)
LEMMA OneAnswered ==
  ASSUME Types, Types', OneAtATime, NEW m \in msgs, NEW h \in Host, h = Client(m),
         NEW n, msgs' = (msgs \ {m}) \cup {n}, Client(n) = h, Expected(n)',
         UNCHANGED <<pc, op, now, stamps>>
  PROVE OneAtATime'
<1>1. \A k \in msgs' : Client(k) = h => k = n
  BY DEF OneAtATime
<1>2. OnlyAbout(h)
  BY DEF OnlyAbout
<1>3. stamps[h] = None
  BY DEF OneAtATime
<1> QED BY <1>1, <1>2, <1>3, OneStep

-----------------------------------------------------------------------------

(* mi_lock, mi_unlock and the first access of an operation. *)
LEMMA BeginOne ==
  ASSUME MemInv, Types', NEW h \in Host, Begin(h)
  PROVE OneAtATime'
<1>0. Types /\ ThreadTypes /\ OneAtATime /\ OwnNewest /\ DataTypes /\ ThreadTypes'
  BY DEF MemInv, Types
<1>1. pc[h] = "app" /\ stamps' = stamps
  BY DEF Begin, Running
<1>2. \A g \in Host : g # h => pc'[g] = pc[g] /\ op'[g] = op[g] /\ now'[g] = now[g]
  <2>1. now' = now \/ addNewInterval(h)
    BY DEF Begin
  <2>2. \A g \in Host : g # h => now'[g] = now[g]
    BY <1>0, <2>1 DEF addNewInterval, DataTypes
  <2> QED BY <1>0, <2>2 DEF Begin, ThreadTypes
<1>3. CASE msgs' = msgs
  BY <1>0, <1>1, <1>2, <1>3, OneQuiet
<1>4. CASE \E l \in Lock : msgs' = msgs \cup {Msg("FETCH_WN_I", h, last[l], now[h])}
                           /\ pc'[h] = "wni" /\ now' = now
  <2>1. PICK l, n : l \in Lock /\ n = Msg("FETCH_WN_I", h, last[l], now[h]) /\ msgs' = msgs \cup {n}
    BY <1>4
  <2>2. Client(n) = h /\ n.command = "FETCH_WN_I" /\ n.body = now[h]
    BY <2>1, ClientOfRequest, MsgFields DEF Request
  <2>3. Expected(n)'
    BY <1>4, <2>2 DEF Expected, Client
  <2> QED BY <1>0, <1>1, <1>2, <2>1, <2>2, <2>3, OneAsked
<1>5. msgs' = msgs \/ \E l \in Lock : msgs' = msgs \cup {Msg("FETCH_WN_I", h, last[l], now[h])}
                           /\ pc'[h] = "wni" /\ now' = now
  <2>1. PICK o \in Program[h][phase[h]] :
          \/ msgs' = msgs
          \/ o.lock # NoLock /\ msgs' = msgs \cup {Msg("FETCH_WN_I", h, last[o.lock], now[h])}
             /\ pc' = [pc EXCEPT ![h] = "wni"] /\ now' = now
    BY DEF Begin
  <2>2. o \in Operation
    <3>1. phase[h] \in 0 .. MaxBarrier
      BY <1>0 DEF ThreadTypes
    <3>2. Program[h][phase[h]] \subseteq Operation
      BY <3>1, ProgramAssumption
    <3> QED BY <3>2
  <2> QED BY <1>0, <2>1, <2>2 DEF Operation, ThreadTypes
<1> QED BY <1>3, <1>4, <1>5

(* The steps of the thread. *)
LEMMA MainOne ==
  ASSUME MemInv, Types', NEW h \in Host, Main(h)
  PROVE OneAtATime'
<1>0. Types /\ ThreadTypes /\ OneAtATime /\ OwnNewest /\ DataTypes
  BY DEF MemInv, Types
<1>1. pc[h] \notin {"wni", "page", "diffWait", "barrier"} /\ stamps' = stamps
  BY DEF Main, FaultMiss, FaultInvalid, ReadNotices, FetchDiff, Resolved, FaultWrite, FaultTwin,
         FaultNotice, FaultWritable, FaultProtect, Access, End, Running
<1>2. \A g \in Host : g # h => pc'[g] = pc[g] /\ op'[g] = op[g] /\ now'[g] = now[g]
  <2>1. now' = now \/ addNewInterval(h)
    BY DEF Main, FaultMiss, FaultInvalid, ReadNotices, FetchDiff, Resolved, FaultWrite, FaultTwin,
         FaultNotice, FaultWritable, FaultProtect, Access, End, mem
  <2>2. \A g \in Host : g # h => now'[g] = now[g]
    BY <1>0, <2>1 DEF addNewInterval, DataTypes
  <2>3. \A g \in Host : g # h => pc'[g] = pc[g] /\ op'[g] = op[g]
    BY <1>0 DEF Main, FaultMiss, FaultInvalid, ReadNotices, FetchDiff, Resolved, FaultWrite,
         FaultTwin, FaultNotice, FaultWritable, FaultProtect, Access, End, ThreadTypes
  <2> QED BY <2>2, <2>3
<1>3. CASE FaultMiss(h)
  <2>1. PICK n : n = Msg("FETCH_PAGE", h, PageSource(h, op[h].page), op[h].page)
    OBVIOUS
  <2>2. msgs' = msgs \cup {n} /\ pc'[h] = "page" /\ op' = op
    BY <1>0, <1>3, <2>1 DEF FaultMiss, ThreadTypes
  <2>3. Client(n) = h /\ n.command = "FETCH_PAGE" /\ n.body = op[h].page
    BY <2>1, ClientOfRequest, MsgFields DEF Request
  <2>4. Expected(n)'
    BY <2>2, <2>3 DEF Expected, Client
  <2> QED BY <1>0, <1>1, <1>2, <2>2, <2>3, <2>4, OneAsked
<1>4. CASE FetchDiff(h)
  <2>1. PICK n : n = Msg("FETCH_DIFF", h, Head(todo[h]).hostid,
                            [page |-> op[h].page, timestamp |-> Head(todo[h]).timestamp])
    OBVIOUS
  <2>2. msgs' = msgs \cup {n} /\ pc'[h] = "diffWait" /\ op' = op
    BY <1>0, <1>4, <2>1 DEF FetchDiff, ThreadTypes
  <2>3. Client(n) = h /\ n.command = "FETCH_DIFF" /\ n.body.page = op[h].page
    BY <2>1, ClientOfRequest, MsgFields DEF Request
  <2>4. Expected(n)'
    BY <2>2, <2>3 DEF Expected, Client
  <2> QED BY <1>0, <1>1, <1>2, <2>2, <2>3, <2>4, OneAsked
<1>5. CASE ~FaultMiss(h) /\ ~FetchDiff(h)
  <2>1. msgs' = msgs
    BY <1>5 DEF Main, FaultInvalid, ReadNotices, Resolved, FaultWrite, FaultTwin, FaultNotice,
         FaultWritable, FaultProtect, Access, End
  <2> QED BY <1>0, <1>1, <1>2, <2>1, OneQuiet
<1> QED BY <1>3, <1>4, <1>5

(* mi_barrier. *)
LEMMA EnterBarrierOne ==
  ASSUME MemInv, Types', NEW h \in Host, EnterBarrier(h)
  PROVE OneAtATime'
<1>0. Types /\ ThreadTypes /\ OneAtATime /\ DataTypes
  BY DEF MemInv, Types
<1>1. pc[h] = "app" /\ pc' = [pc EXCEPT ![h] = "barrier"] /\ op' = op /\ now' = now
  BY DEF EnterBarrier, Running, mem
<1>2. pc'[h] = "barrier" /\ \A g \in Host : g # h => pc'[g] = pc[g] /\ op'[g] = op[g] /\ now'[g] = now[g]
  BY <1>0, <1>1 DEF ThreadTypes
<1>3. CASE h = 0
  <2>1. msgs' = msgs /\ stamps' = [stamps EXCEPT ![h] = now[h]]
    BY <1>3 DEF EnterBarrier
  <2>2. stamps'[h] = now'[h] /\ \A g \in Host : g # h => stamps'[g] = stamps[g]
    BY <1>0, <1>1, <2>1 DEF ThreadTypes
  <2>3. \A m \in msgs' : Client(m) # h
    BY <1>0, <1>1, <2>1, NothingAsked
  <2>4. OnlyAbout(h)
    BY <1>2, <2>1, <2>2 DEF OnlyAbout
  <2> QED BY <1>0, <1>2, <2>2, <2>3, <2>4, OneStep
<1>4. CASE h # 0
  <2>1. PICK n : n = Msg("GRANT_ENTER_BARRIER_INFO", h, 0,
                         [timestamp |-> now[h], packets |-> BarrierPackets(h)])
    OBVIOUS
  <2>2. msgs' = msgs \cup {n} /\ stamps' = stamps
    BY <1>4, <2>1 DEF EnterBarrier
  <2>3. Client(n) = h /\ n.command = "GRANT_ENTER_BARRIER_INFO" /\ n.to = 0
        /\ n.body.timestamp = now[h]
    BY <2>1, ClientOfRequest, MsgFields DEF Request
  <2>4. Expected(n)'
    BY <1>1, <1>2, <2>3 DEF Expected, Client
  <2> QED BY <1>0, <1>1, <1>2, <2>2, <2>3, <2>4, OneAsked
<1> QED BY <1>3, <1>4

(* All exits are sent at once, one to each host that waits. *)
LEMMA CompleteBarrierOne ==
  ASSUME MemInv, Types', CompleteBarrier
  PROVE OneAtATime'
<1>0. Types /\ ThreadTypes /\ OneAtATime /\ DataTypes
  BY DEF MemInv, Types
<1>1. msgs = {} /\ \A h \in Host : pc[h] = "barrier"
  BY AllEntered
<1>2. \A h \in Host : stamps'[h] = None
  BY DEF CompleteBarrier
<1>3. \A h \in Host : h # 0 => pc'[h] = "barrier"
  BY <1>0, <1>1 DEF CompleteBarrier, ThreadTypes
<1>4. msgs' = {Msg("GRANT_EXIT_BARRIER_INFO", 0, h,
                     [timestamp |-> BarrierStamp, packets |-> Packets(0, stamps[h])]) : h \in Host \ {0}}
  BY <1>1 DEF CompleteBarrier, BarrierStamp
<1>5. ASSUME NEW m \in msgs'
      PROVE /\ m.command = "GRANT_EXIT_BARRIER_INFO" /\ Client(m) \in Host \ {0}
            /\ m = Msg("GRANT_EXIT_BARRIER_INFO", 0, Client(m),
                     [timestamp |-> BarrierStamp, packets |-> Packets(0, stamps[Client(m)])])
  <2>1. PICK h \in Host \ {0} : m = Msg("GRANT_EXIT_BARRIER_INFO", 0, h,
                     [timestamp |-> BarrierStamp, packets |-> Packets(0, stamps[h])])
    BY <1>4
  <2>2. m.command = "GRANT_EXIT_BARRIER_INFO" /\ Client(m) = h
    BY <2>1, MsgFields, ClientOfAnswer DEF Request
  <2> QED BY <2>1, <2>2
<1>6. \A m \in msgs' : Expected(m)' /\ stamps'[Client(m)] = None
  <2> TAKE m \in msgs'
  <2>1. m.command = "GRANT_EXIT_BARRIER_INFO" /\ Client(m) \in Host \ {0}
    BY <1>5
  <2> QED BY <1>2, <1>3, <2>1 DEF Expected, Client
<1>7. \A m1, m2 \in msgs' : Client(m1) = Client(m2) => m1 = m2
  BY <1>5
<1> QED BY <1>2, <1>6, <1>7 DEF OneAtATime, Client

(* The handlers: each answers the message it takes. *)
LEMMA DispatchOne ==
  ASSUME Undisturbed, MemInv, Types', NEW m \in msgs, Dispatch(m)
  PROVE OneAtATime'
<1>0. Types /\ ThreadTypes /\ OneAtATime /\ DataTypes /\ m \in Message
  BY DEF MemInv, Types
<1>1. m.to \in Host /\ m.from \in Host /\ Expected(m) /\ stamps[Client(m)] = None
  BY <1>0, Letters DEF OneAtATime
<1>2. CASE HandleFetchWNI(m)
  <2>1. m.command = "FETCH_WN_I" /\ Client(m) = m.from /\ pc[m.from] = "wni"
    BY <1>1, <1>2 DEF HandleFetchWNI, Received, Client, Request, Expected
  <2>2. PICK n : n = Msg("GRANT_WN_I", m.to, m.from,
                         [timestamp |-> now[m.to], packets |-> Packets(m.to, m.body)])
    OBVIOUS
  <2>3. Client(n) = m.from /\ n.command = "GRANT_WN_I"
    BY <2>2, ClientOfAnswer, MsgFields DEF Request
  <2>4. msgs' = (msgs \ {m}) \cup {n} /\ UNCHANGED <<pc, op, now, stamps>>
    BY <1>2, <2>2 DEF HandleFetchWNI, mem
  <2>5. Expected(n)'
    BY <2>1, <2>3, <2>4 DEF Expected, Client
  <2> QED BY <1>0, <1>1, <2>1, <2>3, <2>4, <2>5, OneAnswered
<1>3. CASE HandleFetchPage(m)
  <2>1. m.command = "FETCH_PAGE" /\ Client(m) = m.from /\ pc[m.from] = "page"
    BY <1>1, <1>3 DEF HandleFetchPage, Received, Client, Request, Expected
  <2>2. UNCHANGED <<pc, op, now, stamps>>
    BY <1>3 DEF HandleFetchPage
  <2>3. CASE msgs' = msgs \ {m}
    BY <1>0, <1>1, <2>1, <2>2, <2>3, OneTaken
  <2>4. CASE msgs' # msgs \ {m}
    <3>1. PICK n : n = Msg("GRANT_PAGE", m.to, m.from, [page |-> m.body, data |-> pages[m.to][m.body].data])
      OBVIOUS
    <3>2. msgs' = (msgs \ {m}) \cup {n}
      BY <1>3, <2>4, <3>1, HandleFetchPageDoes
    <3>3. Client(n) = m.from /\ n.command = "GRANT_PAGE" /\ n.body.page = m.body
      BY <3>1, ClientOfAnswer, MsgFields DEF Request
    <3>4. m.body = op[m.from].page
      BY <1>1, <2>1 DEF Expected
    <3>5. Expected(n)'
      BY <2>1, <2>2, <3>3, <3>4 DEF Expected, Client
    <3> QED BY <1>0, <1>1, <2>1, <2>2, <3>2, <3>3, <3>5, OneAnswered
  <2> QED BY <2>3, <2>4
<1>4. CASE HandleFetchDiff(m)
  <2>1. m.command = "FETCH_DIFF" /\ Client(m) = m.from /\ pc[m.from] = "diffWait"
    BY <1>1, <1>4 DEF HandleFetchDiff, Received, Client, Request, Expected
  <2>2. UNCHANGED <<pc, op, now, stamps>>
    BY <1>4 DEF HandleFetchDiff
  <2>3. CASE NoDiff(m)
    BY <1>0, <1>1, <2>1, <2>2, <2>3, OneTaken DEF NoDiff
  <2>4. CASE \E at, d, next, v : GivesDiff(m, at, d, next, v)
    <3>1. PICK n, d : n = Msg("GRANT_DIFF", m.to, m.from,
                   [page |-> m.body.page, timestamp |-> m.body.timestamp, diff |-> d])
                  /\ msgs' = (msgs \ {m}) \cup {n}
      BY <2>4 DEF GivesDiff
    <3>2. Client(n) = m.from /\ n.command = "GRANT_DIFF" /\ n.body.page = m.body.page
      BY <3>1, ClientOfAnswer, MsgFields DEF Request
    <3>3. m.body.page = op[m.from].page
      BY <1>1, <2>1 DEF Expected
    <3>4. Expected(n)'
      BY <2>1, <2>2, <3>2, <3>3 DEF Expected, Client
    <3> QED BY <1>0, <1>1, <2>1, <2>2, <3>1, <3>2, <3>4, OneAnswered
  <2> QED BY <1>4, <2>3, <2>4, FetchDiffCases
<1>5. CASE HandleGrantWNI(m)
  <2>1. m.command = "GRANT_WN_I" /\ Client(m) = m.to /\ msgs' = msgs \ {m} /\ stamps' = stamps
        /\ op' = op /\ pc' = [pc EXCEPT ![m.to] = "access"]
    BY <1>5 DEF HandleGrantWNI, Received, Client, Request
  <2>2. \A g \in Host : g # m.to => now'[g] = now[g]
    BY <1>0, <1>1, <1>5 DEF HandleGrantWNI, Incorporate, DataTypes
  <2>3. \A g \in Host : g # m.to => pc'[g] = pc[g]
    BY <1>0, <2>1 DEF ThreadTypes
  <2> QED BY <1>0, <1>1, <2>1, <2>2, <2>3, OneTaken
<1>6. CASE HandleGrantPage(m)
  <2>1. m.command = "GRANT_PAGE" /\ Client(m) = m.to /\ msgs' = msgs \ {m} /\ stamps' = stamps
        /\ op' = op /\ now' = now /\ pc' = [pc EXCEPT ![m.to] = "pageGot"]
    BY <1>6 DEF HandleGrantPage, Received, Client, Request
  <2>2. \A g \in Host : g # m.to => pc'[g] = pc[g]
    BY <1>0, <2>1 DEF ThreadTypes
  <2> QED BY <1>0, <1>1, <2>1, <2>2, OneTaken
<1>7. CASE HandleGrantDiff(m)
  <2>1. m.command = "GRANT_DIFF" /\ Client(m) = m.to /\ msgs' = msgs \ {m} /\ stamps' = stamps
        /\ op' = op /\ now' = now /\ pc' = [pc EXCEPT ![m.to] = "diff"]
    BY <1>7 DEF HandleGrantDiff, Received, Client, Request
  <2>2. \A g \in Host : g # m.to => pc'[g] = pc[g]
    BY <1>0, <2>1 DEF ThreadTypes
  <2> QED BY <1>0, <1>1, <2>1, <2>2, OneTaken
<1>8. CASE HandleEnterBarrierInfo(m)
  <2>1. m.command = "GRANT_ENTER_BARRIER_INFO" /\ Client(m) = m.from /\ msgs' = msgs \ {m}
        /\ op' = op /\ pc' = pc
        /\ stamps' = [stamps EXCEPT ![m.from] = IF @ = None THEN m.body.timestamp ELSE @]
    BY <1>8 DEF HandleEnterBarrierInfo, Received, Client, Request
  <2>2. now' = now
    BY <1>0, <1>8 DEF HandleEnterBarrierInfo, Incorporate, DataTypes
  <2>3. pc[m.from] = "barrier" /\ m.body.timestamp = now[m.from]
    BY <1>1, <2>1 DEF Expected
  <2>4. stamps'[m.from] = now[m.from] /\ \A g \in Host : g # m.from => stamps'[g] = stamps[g]
    BY <1>0, <1>1, <2>1, <2>3 DEF ThreadTypes
  <2> QED BY <1>0, <1>1, <2>1, <2>2, <2>3, <2>4, OneTaken
<1>9. CASE HandleExitBarrierInfo(m)
  <2>1. m.command = "GRANT_EXIT_BARRIER_INFO" /\ Client(m) = m.to /\ msgs' = msgs \ {m} /\ stamps' = stamps
        /\ op' = op /\ pc' = [pc EXCEPT ![m.to] = "app"]
    BY <1>9 DEF HandleExitBarrierInfo, Received, Client, Request
  <2>2. \A g \in Host : g # m.to => now'[g] = now[g]
    BY <1>0, <1>1, <1>9 DEF HandleExitBarrierInfo, Incorporate, DataTypes
  <2>3. \A g \in Host : g # m.to => pc'[g] = pc[g]
    BY <1>0, <2>1 DEF ThreadTypes
  <2> QED BY <1>0, <1>1, <2>1, <2>2, <2>3, OneTaken
<1> QED BY <1>2, <1>3, <1>4, <1>5, <1>6, <1>7, <1>8, <1>9 DEF Dispatch

(* A host has one message under way in every state. *)
LEMMA OneAtATimeStep ==
  ASSUME Undisturbed, MemInv, [Next]_vars, Types'
  PROVE OneAtATime'
<1>1. CASE UNCHANGED vars
  BY <1>1, StutterTypes DEF MemInv
<1> QED BY <1>1, BeginOne, MainOne, EnterBarrierOne, DispatchOne, CompleteBarrierOne DEF Next

(* addNewInterval and createWriteNotice, for all hosts' lists. *)
LEMMA AddedLists ==
  ASSUME DataTypes, OwnNewest, NEW h \in Host, addNewInterval(h)
  PROVE \E v \in IntervalRecord :
          /\ v.noticed = {} /\ v.timestamp = now'[h] /\ now'[h] = Bumped(now[h], h)
          /\ \A g \in Host : g # h => now'[g] = now[g]
          /\ intervals'[h][h] # << >> /\ Head(intervals'[h][h]) = v
          /\ \A g, j \in Host : g # h \/ j # h => intervals'[g][j] = intervals[g][j]
          /\ \A i \in DOMAIN intervals'[h][h] :
               intervals'[h][h][i] = v \/ \E k \in DOMAIN intervals[h][h] : intervals'[h][h][i] = intervals[h][h][k]
<1>1. PICK v \in IntervalRecord, more \in Seq(IntervalRecord) :
          /\ v.noticed = {} /\ v.timestamp = Bumped(now[h], h) /\ more = <<v>> \o intervals[h][h]
          /\ intervals' = [intervals EXCEPT ![h][h] = more]
          /\ now' = [now EXCEPT ![h] = v.timestamp]
  BY NewIntervalIs, Zenon
<1>2. PICK list \in Seq(IntervalRecord) : list = intervals[h][h]
  BY DEF DataTypes
<1>3. more = <<v>> \o list
  BY <1>1, <1>2
<1>4. /\ more # << >> /\ Head(more) = v
      /\ \A k \in DOMAIN more : k # 1 => k - 1 \in DOMAIN list /\ more[k] = list[k - 1]
      /\ more[1] = v
  BY <1>3, SeqPrepend
<1>5. \A g \in Host, i \in Host : intervals'[g][i] = IF g = h /\ i = h THEN more ELSE intervals[g][i]
  <2>1. intervals' = [intervals EXCEPT ![h][h] = more]
    BY <1>1
  <2> QED BY <2>1, DataInterval
<1>6. now'[h] = v.timestamp /\ \A g \in Host : g # h => now'[g] = now[g]
  BY <1>1 DEF DataTypes
<1>7. \A i \in DOMAIN more : more[i] = v \/ \E k \in DOMAIN list : more[i] = list[k]
  BY <1>4
<1>8. intervals'[h][h] = more /\ \A g, j \in Host : g # h \/ j # h => intervals'[g][j] = intervals[g][j]
  BY <1>5
<1> QED BY <1>1, <1>2, <1>4, <1>6, <1>7, <1>8

(* createWriteNotice adds a page to the newest interval. *)
LEMMA NoticedLists ==
  ASSUME DataTypes, OwnNewest, NEW h \in Host, NEW p \in PageIndex, createWriteNotice(h, p)
  PROVE /\ \A g, j \in Host : g # h \/ j # h => intervals'[g][j] = intervals[g][j]
        /\ DOMAIN intervals'[h][h] = DOMAIN intervals[h][h]
        /\ intervals'[h][h] # << >>
        /\ Head(intervals'[h][h]).timestamp = Head(intervals[h][h]).timestamp
        /\ \A i \in DOMAIN intervals[h][h] :
             /\ intervals'[h][h][i].timestamp = intervals[h][h][i].timestamp
             /\ \/ intervals'[h][h][i].noticed = intervals[h][h][i].noticed
                \/ /\ intervals'[h][h][i].timestamp = now[h]
                   /\ intervals'[h][h][i].noticed = intervals[h][h][i].noticed \cup {p}
        /\ \E x \in NoticeRecord, more \in Seq(NoticeRecord) :
             /\ x.timestamp = now[h] /\ x.diff = None /\ more = <<x>> \o notices[h][p][h]
             /\ \A g \in Host, q \in PageIndex, j \in Host :
                  notices'[g][q][j] = IF g = h /\ q = p /\ j = h THEN more ELSE notices[g][q][j]
<1>1. PICK x \in NoticeRecord, more \in Seq(NoticeRecord), at \in DOMAIN intervals[h][h],
           next \in Seq(IntervalRecord) :
          /\ x.timestamp = now[h] /\ x.diff = None /\ more = <<x>> \o notices[h][p][h]
          /\ intervals[h][h][at].timestamp = now[h]
          /\ MoreNoticed(intervals[h][h], next, at, {p})
          /\ notices' = [notices EXCEPT ![h][p][h] = more]
          /\ intervals' = [intervals EXCEPT ![h][h] = next]
  BY NewNoticeIs, Zenon
<1>2. PICK list \in Seq(IntervalRecord) : list = intervals[h][h] /\ list # << >>
  BY DEF DataTypes, OwnNewest
<1>3. \A g \in Host, i \in Host : intervals'[g][i] = IF g = h /\ i = h THEN next ELSE intervals[g][i]
  BY <1>1, DataInterval
<1>4. intervals'[h][h] = next /\ \A g, j \in Host : g # h \/ j # h => intervals'[g][j] = intervals[g][j]
  BY <1>3
<1>5. /\ DOMAIN next = DOMAIN list
      /\ \A i \in DOMAIN list :
           /\ next[i].timestamp = list[i].timestamp
           /\ \/ next[i].noticed = list[i].noticed
              \/ next[i].timestamp = now[h] /\ next[i].noticed = list[i].noticed \cup {p}
  BY <1>1, <1>2 DEF MoreNoticed
<1>6. 1 \in DOMAIN list /\ Head(list) = list[1]
  BY <1>2
<1>7. next # << >> /\ Head(next) = next[1]
  BY <1>5, <1>6
<1>8. \A g \in Host, q \in PageIndex, j \in Host :
        notices'[g][q][j] = IF g = h /\ q = p /\ j = h THEN more ELSE notices[g][q][j]
  <2>1. notices' = [notices EXCEPT ![h][p][h] = more]
    BY <1>1
  <2>2. Put3(notices', notices, h, p, h, more, Host, PageIndex, Host, Seq(NoticeRecord))
    BY <2>1, NoticesPut, Zenon
  <2> QED BY <2>2 DEF Put3
<1>9. /\ DOMAIN intervals'[h][h] = DOMAIN intervals[h][h]
      /\ intervals'[h][h] # << >>
      /\ Head(intervals'[h][h]).timestamp = Head(intervals[h][h]).timestamp
  BY <1>2, <1>4, <1>5, <1>6, <1>7
<1>10. \A i \in DOMAIN intervals[h][h] :
             /\ intervals'[h][h][i].timestamp = intervals[h][h][i].timestamp
             /\ \/ intervals'[h][h][i].noticed = intervals[h][h][i].noticed
                \/ /\ intervals'[h][h][i].timestamp = now[h]
                   /\ intervals'[h][h][i].noticed = intervals[h][h][i].noticed \cup {p}
  BY <1>2, <1>4, <1>5
<1>11. x.timestamp = now[h] /\ x.diff = None /\ more = <<x>> \o notices[h][p][h]
  BY <1>1
<1> QED BY <1>4, <1>8, <1>9, <1>10, <1>11

(* Incorporate, for all hosts' lists. *)
LEMMA GainedLists ==
  ASSUME DataTypes, NEW h \in Host, NEW own, own = None \/ own \in IntervalRecord,
         NEW packets \in Seq(PacketRecord), NEW base, NEW t, Gains(h, own, packets, base, t),
         memory' = memory
  PROVE /\ \A g, j \in Host : g # h => intervals'[g][j] = intervals[g][j]
        /\ own = None => intervals'[h][h] = intervals[h][h]
        /\ own # None => intervals'[h][h] # << >> /\ Head(intervals'[h][h]) = own
        /\ now'[h] = IF own = None THEN now[h] ELSE own.timestamp
        /\ \A g \in Host : g # h => now'[g] = now[g]
        /\ \A j \in Host : \A i \in DOMAIN intervals'[h][j] :
             LET v == intervals'[h][j][i]
             IN /\ \/ Timed(intervals[h][j], v.timestamp)
                   \/ own # None /\ j = h /\ v.timestamp = own.timestamp
                   \/ Sent(PacketsGiven(packets), j, v.timestamp)
                /\ \A p \in v.noticed :
                     \/ Noted(intervals[h][j], v.timestamp, p)
                     \/ own # None /\ j = h /\ v.timestamp = own.timestamp /\ p \in own.noticed
                     \/ Told(PacketsGiven(packets), j, v.timestamp, p)
<1>1. /\ intervals'[h] = t.intervals
      /\ now'[h] = IF own = None THEN now[h] ELSE own.timestamp
      /\ \A g \in Host : g # h => intervals'[g] = intervals[g] /\ now'[g] = now[g]
  BY DataGains
<1>2. Based(h, own, base) /\ NewIntervals(h, base, t, PacketsGiven(packets))
  BY DEF Gains, Learned
<1>3. PICK f \in [Host -> Seq(IntervalRecord)] : f = intervals[h]
  BY DEF DataTypes
<1>4. CASE own = None
  <2>1. base.intervals = f
    BY <1>2, <1>3, <1>4 DEF Based
  <2>2. t.intervals[h] = f[h]
    BY <1>2, <2>1 DEF NewIntervals
  <2>3. ASSUME NEW j \in Host, NEW i \in DOMAIN t.intervals[j]
        PROVE /\ \/ Timed(f[j], t.intervals[j][i].timestamp)
                 \/ Sent(PacketsGiven(packets), j, t.intervals[j][i].timestamp)
              /\ \A p \in t.intervals[j][i].noticed :
                     \/ Noted(f[j], t.intervals[j][i].timestamp, p)
                     \/ Told(PacketsGiven(packets), j, t.intervals[j][i].timestamp, p)
    BY <1>2, <2>1 DEF NewIntervals
  <2> QED BY <1>1, <1>3, <1>4, <2>2, <2>3
<1>5. CASE own # None
  <2>1. PICK more : more = <<own>> \o f[h]
    OBVIOUS
  <2>2. /\ more \in Seq(IntervalRecord) /\ more # << >> /\ Head(more) = own /\ more[1] = own
        /\ \A k \in DOMAIN more : k # 1 => k - 1 \in DOMAIN f[h] /\ more[k] = f[h][k - 1]
    BY <1>5, <2>1, SeqPrepend
  <2>3. base.intervals = [f EXCEPT ![h] = more]
    BY <1>2, <1>3, <1>5, <2>1 DEF Based
  <2>4. base.intervals[h] = more /\ \A j \in Host : j # h => base.intervals[j] = f[j]
    BY <2>2, <2>3
  <2>5. t.intervals[h] = more
    BY <1>2, <2>4 DEF NewIntervals
  <2>6. ASSUME NEW ts, Timed(more, ts) PROVE Timed(f[h], ts) \/ ts = own.timestamp
    BY <2>2, <2>6 DEF Timed
  <2>7. ASSUME NEW ts, NEW p, Noted(more, ts, p)
        PROVE Noted(f[h], ts, p) \/ (ts = own.timestamp /\ p \in own.noticed)
    BY <2>2, <2>7 DEF Noted
  <2>8. ASSUME NEW j \in Host, NEW i \in DOMAIN t.intervals[j]
        PROVE /\ \/ Timed(base.intervals[j], t.intervals[j][i].timestamp)
                 \/ Sent(PacketsGiven(packets), j, t.intervals[j][i].timestamp)
              /\ \A p \in t.intervals[j][i].noticed :
                     \/ Noted(base.intervals[j], t.intervals[j][i].timestamp, p)
                     \/ Told(PacketsGiven(packets), j, t.intervals[j][i].timestamp, p)
    BY <1>2 DEF NewIntervals
  <2>9. ASSUME NEW j \in Host, NEW i \in DOMAIN t.intervals[j]
        PROVE /\ \/ Timed(f[j], t.intervals[j][i].timestamp)
                 \/ j = h /\ t.intervals[j][i].timestamp = own.timestamp
                 \/ Sent(PacketsGiven(packets), j, t.intervals[j][i].timestamp)
              /\ \A p \in t.intervals[j][i].noticed :
                     \/ Noted(f[j], t.intervals[j][i].timestamp, p)
                     \/ j = h /\ t.intervals[j][i].timestamp = own.timestamp /\ p \in own.noticed
                     \/ Told(PacketsGiven(packets), j, t.intervals[j][i].timestamp, p)
    <3> DEFINE ts == t.intervals[j][i].timestamp
    <3>1. Timed(base.intervals[j], ts) \/ Sent(PacketsGiven(packets), j, ts)
      BY <2>8
    <3>2. ASSUME NEW p \in t.intervals[j][i].noticed
          PROVE Noted(base.intervals[j], ts, p) \/ Told(PacketsGiven(packets), j, ts, p)
      BY <2>8
    <3> HIDE DEF ts
    <3>3. CASE j = h
      <4>1. base.intervals[j] = more /\ f[j] = f[h]
        BY <2>4, <3>3
      <4>2. Timed(f[j], ts) \/ ts = own.timestamp \/ Sent(PacketsGiven(packets), j, ts)
        BY <2>6, <3>1, <4>1
      <4>3. ASSUME NEW p \in t.intervals[j][i].noticed
            PROVE Noted(f[j], ts, p) \/ (ts = own.timestamp /\ p \in own.noticed)
                  \/ Told(PacketsGiven(packets), j, ts, p)
        BY <2>7, <3>2, <4>1
      <4> QED BY <3>3, <4>2, <4>3 DEF ts
    <3>4. CASE j # h
      <4>1. base.intervals[j] = f[j]
        BY <2>4, <3>4
      <4> QED BY <3>1, <3>2, <4>1 DEF ts
    <3> QED BY <3>3, <3>4
  <2> QED BY <1>1, <1>3, <1>5, <2>2, <2>5, <2>9
<1> QED BY <1>4, <1>5

-----------------------------------------------------------------------------

(* Steps that change no interval. *)
LEMMA SameIntervals ==
  ASSUME [Next]_vars
  PROVE \/ UNCHANGED <<intervals, now>>
        \/ \E h \in Host : Begin(h) /\ addNewInterval(h)
        \/ \E h \in Host : End(h) /\ addNewInterval(h)
        \/ \E h \in Host : FaultNotice(h) /\ createWriteNotice(h, op[h].page)
        \/ \E m \in msgs : HandleGrantWNI(m)
        \/ \E m \in msgs : HandleEnterBarrierInfo(m)
        \/ \E m \in msgs : HandleExitBarrierInfo(m)
        \/ CompleteBarrier
<1>1. ASSUME NEW h \in Host, Begin(h) PROVE UNCHANGED <<intervals, now>> \/ addNewInterval(h)
  BY <1>1 DEF Begin
<1>2. ASSUME NEW h \in Host, Main(h)
      PROVE \/ UNCHANGED <<intervals, now>> \/ (End(h) /\ addNewInterval(h))
            \/ (FaultNotice(h) /\ createWriteNotice(h, op[h].page))
  <2>1. End(h) => UNCHANGED <<intervals, now>> \/ (End(h) /\ addNewInterval(h))
    BY DEF End
  <2>2. FaultNotice(h) => UNCHANGED <<intervals, now>> \/ (FaultNotice(h) /\ createWriteNotice(h, op[h].page))
    BY DEF FaultNotice
  <2>3. ~End(h) /\ ~FaultNotice(h) => UNCHANGED <<intervals, now>>
    BY <1>2 DEF Main, FaultMiss, FaultInvalid, ReadNotices, FetchDiff, Resolved, FaultWrite, FaultTwin,
         FaultWritable, FaultProtect, Access, mem
  <2> QED BY <2>1, <2>2, <2>3
<1>3. ASSUME NEW h \in Host, EnterBarrier(h) PROVE UNCHANGED <<intervals, now>>
  BY <1>3 DEF EnterBarrier, mem
<1>4. ASSUME NEW m \in msgs, Dispatch(m)
      PROVE \/ UNCHANGED <<intervals, now>> \/ HandleGrantWNI(m) \/ HandleEnterBarrierInfo(m)
            \/ HandleExitBarrierInfo(m)
  BY <1>4 DEF Dispatch, HandleFetchWNI, HandleFetchPage, HandleFetchDiff, HandleGrantPage,
              HandleGrantDiff, mem
<1>5. CASE UNCHANGED vars
  BY <1>5 DEF vars, mem
<1> QED BY <1>1, <1>2, <1>3, <1>4, <1>5 DEF Next

(* Where the intervals that a host knows after a step come from: it knew      *)
(* them, or opened them, or was told of them by a message.                    *)
Learnt(g, h, ts) ==
  \/ Timed(intervals[g][h], ts)
  \/ g = h /\ ts = now'[h]
  \/ \E m \in msgs : /\ m.command \in {"GRANT_WN_I", "GRANT_ENTER_BARRIER_INFO", "GRANT_EXIT_BARRIER_INFO"}
                     /\ m.to = g /\ Sent(PacketsGiven(m.body.packets), h, ts)

(* A fault is at a page. *)
LEMMA NamedOp == ASSUME Types, NEW h \in Host, FaultNotice(h) PROVE op[h].page \in PageIndex
BY OpPage DEF FaultNotice, Running

(* How the lists change when a message or the barrier brings packets. *)
LEMMA GainsLearn ==
  ASSUME Types, NEW h \in Host, NEW own, own = None \/ own \in IntervalRecord,
         NEW packets \in Seq(PacketRecord), NEW base, NEW t, Gains(h, own, packets, base, t),
         memory' = memory, OwnNewest,
         packets = << >> \/ \E m \in msgs :
           /\ m.command \in {"GRANT_WN_I", "GRANT_ENTER_BARRIER_INFO", "GRANT_EXIT_BARRIER_INFO"}
           /\ m.to = h /\ packets = m.body.packets
  PROVE /\ OwnNewest'
        /\ \A g, j \in Host : \A i \in DOMAIN intervals'[g][j] : Learnt(g, j, intervals'[g][j][i].timestamp)
<1>0. DataTypes
  BY DEF Types
<1>1. /\ \A g, j \in Host : g # h => intervals'[g][j] = intervals[g][j]
      /\ own = None => intervals'[h][h] = intervals[h][h]
      /\ own # None => intervals'[h][h] # << >> /\ Head(intervals'[h][h]) = own
      /\ now'[h] = IF own = None THEN now[h] ELSE own.timestamp
      /\ \A g \in Host : g # h => now'[g] = now[g]
  BY <1>0, GainedLists
<1>2. OwnNewest'
  BY <1>1 DEF OwnNewest
<1>3. ASSUME NEW j \in Host, NEW i \in DOMAIN intervals'[h][j]
      PROVE Learnt(h, j, intervals'[h][j][i].timestamp)
  <2>1. PICK ts : ts = intervals'[h][j][i].timestamp
    OBVIOUS
  <2>2. \/ Timed(intervals[h][j], ts)
        \/ own # None /\ j = h /\ ts = own.timestamp
        \/ Sent(PacketsGiven(packets), j, ts)
    BY <1>0, <2>1, GainedLists
  <2>3. Sent(PacketsGiven(packets), j, ts) => packets # << >>
    BY DEF Sent, PacketsGiven
  <2>4. Learnt(h, j, ts)
    BY <1>1, <2>2, <2>3 DEF Learnt
  <2> QED BY <2>1, <2>4
<1>4. ASSUME NEW g \in Host, g # h, NEW j \in Host, NEW i \in DOMAIN intervals'[g][j]
      PROVE Learnt(g, j, intervals'[g][j][i].timestamp)
  BY <1>1, <1>4 DEF Learnt, Timed
<1> QED BY <1>2, <1>3, <1>4

(* All steps: where known intervals come from. *)
LEMMA ListsStep ==
  ASSUME Undisturbed, MemInv, [Next]_vars
  PROVE /\ OwnNewest'
        /\ \A g, h \in Host : \A i \in DOMAIN intervals'[g][h] : Learnt(g, h, intervals'[g][h][i].timestamp)
<1>0. Types /\ DataTypes /\ OwnNewest /\ 0 \in Host
  BY ZeroHost DEF MemInv, Types
<1>1. CASE UNCHANGED <<intervals, now>>
  BY <1>0, <1>1 DEF OwnNewest, Learnt, Timed
<1>2. ASSUME NEW h \in Host, addNewInterval(h)
      PROVE /\ OwnNewest'
            /\ \A g, j \in Host : \A i \in DOMAIN intervals'[g][j] : Learnt(g, j, intervals'[g][j][i].timestamp)
  <2>1. PICK v \in IntervalRecord :
          /\ v.noticed = {} /\ v.timestamp = now'[h] /\ now'[h] = Bumped(now[h], h)
          /\ \A g \in Host : g # h => now'[g] = now[g]
          /\ intervals'[h][h] # << >> /\ Head(intervals'[h][h]) = v
          /\ \A g, j \in Host : g # h \/ j # h => intervals'[g][j] = intervals[g][j]
          /\ \A i \in DOMAIN intervals'[h][h] :
               intervals'[h][h][i] = v \/ \E k \in DOMAIN intervals[h][h] : intervals'[h][h][i] = intervals[h][h][k]
    BY <1>0, <1>2, AddedLists
  <2>2. OwnNewest'
    BY <1>0, <2>1 DEF OwnNewest
  <2>3. ASSUME NEW g \in Host, NEW j \in Host, NEW i \in DOMAIN intervals'[g][j]
        PROVE Learnt(g, j, intervals'[g][j][i].timestamp)
    <3>1. CASE g # h \/ j # h
      BY <2>1, <3>1 DEF Learnt, Timed
    <3>2. CASE g = h /\ j = h
      BY <2>1, <3>2 DEF Learnt, Timed
    <3> QED BY <3>1, <3>2
  <2> QED BY <2>2, <2>3
<1>3. ASSUME NEW h \in Host, FaultNotice(h), createWriteNotice(h, op[h].page)
      PROVE /\ OwnNewest'
            /\ \A g, j \in Host : \A i \in DOMAIN intervals'[g][j] : Learnt(g, j, intervals'[g][j][i].timestamp)
  <2>1. op[h].page \in PageIndex
    BY <1>0, <1>3, NamedOp
  <2>2. /\ \A g, j \in Host : g # h \/ j # h => intervals'[g][j] = intervals[g][j]
        /\ DOMAIN intervals'[h][h] = DOMAIN intervals[h][h]
        /\ intervals'[h][h] # << >>
        /\ Head(intervals'[h][h]).timestamp = Head(intervals[h][h]).timestamp
        /\ \A i \in DOMAIN intervals[h][h] :
             intervals'[h][h][i].timestamp = intervals[h][h][i].timestamp
    BY <1>0, <1>3, <2>1, NoticedLists
  <2>3. now' = now
    BY <1>3 DEF FaultNotice
  <2>4. OwnNewest'
    BY <1>0, <2>2, <2>3 DEF OwnNewest
  <2>5. \A g, j \in Host : \A i \in DOMAIN intervals'[g][j] : Learnt(g, j, intervals'[g][j][i].timestamp)
    BY <2>2 DEF Learnt, Timed
  <2> QED BY <2>4, <2>5
<1>4. ASSUME NEW m \in msgs, HandleGrantWNI(m)
      PROVE /\ OwnNewest'
            /\ \A g, j \in Host : \A i \in DOMAIN intervals'[g][j] : Learnt(g, j, intervals'[g][j][i].timestamp)
  <2>1. PICK own, base, t : own \in IntervalRecord /\ Gains(m.to, own, m.body.packets, base, t)
    BY <1>4, GrantWNIGains
  <2>2. m.to \in Host /\ m.body.packets \in Seq(PacketRecord) /\ m.command = "GRANT_WN_I" /\ memory' = memory
    BY <1>4, InformedOf DEF HandleGrantWNI
  <2> QED BY <1>0, <2>1, <2>2, GainsLearn
<1>5. ASSUME NEW m \in msgs, HandleExitBarrierInfo(m)
      PROVE /\ OwnNewest'
            /\ \A g, j \in Host : \A i \in DOMAIN intervals'[g][j] : Learnt(g, j, intervals'[g][j][i].timestamp)
  <2>1. PICK own, base, t : own \in IntervalRecord /\ Gains(m.to, own, m.body.packets, base, t)
    BY <1>5, ExitGains
  <2>2. m.to \in Host /\ m.body.packets \in Seq(PacketRecord) /\ m.command = "GRANT_EXIT_BARRIER_INFO"
        /\ memory' = memory
    BY <1>5, InformedOf DEF HandleExitBarrierInfo
  <2> QED BY <1>0, <2>1, <2>2, GainsLearn
<1>6. ASSUME NEW m \in msgs, HandleEnterBarrierInfo(m)
      PROVE /\ OwnNewest'
            /\ \A g, j \in Host : \A i \in DOMAIN intervals'[g][j] : Learnt(g, j, intervals'[g][j][i].timestamp)
  <2>1. PICK base, t, own : own = None /\ Gains(0, own, m.body.packets, base, t)
    BY <1>6, EnterGains
  <2>2. m.to = 0 /\ m.body.packets \in Seq(PacketRecord) /\ m.command = "GRANT_ENTER_BARRIER_INFO"
        /\ memory' = memory
    BY <1>6, InformedOf, EnterGains DEF HandleEnterBarrierInfo
  <2> QED BY <1>0, <2>1, <2>2, GainsLearn
<1>7. CASE CompleteBarrier
  <2>1. PICK own, base, t, packets : own \in IntervalRecord /\
          packets = << >> /\ Gains(0, own, packets, base, t)
    BY <1>7, CompleteGains
  <2>2. packets \in Seq(PacketRecord) /\ memory' = memory
    BY <1>7, <2>1 DEF CompleteBarrier
  <2> QED BY <1>0, <2>1, <2>2, GainsLearn
<1> QED BY <1>1, <1>2, <1>3, <1>4, <1>5, <1>6, <1>7, SameIntervals

(* A known interval has a timestamp. *)
LEMMA KnownStamp ==
  ASSUME DataTypes, NEW g \in Host, NEW h \in Host, NEW i \in DOMAIN intervals[g][h]
  PROVE intervals[g][h][i] \in IntervalRecord /\ intervals[g][h][i].timestamp \in Stamp
<1>1. intervals[g][h] \in Seq(IntervalRecord)
  BY DEF DataTypes
<1>2. intervals[g][h][i] \in IntervalRecord
  BY <1>1
<1> QED BY <1>2 DEF IntervalRecord

(* Nobody knows an interval that its host has not opened. *)
LEMMA KnownAheadStep ==
  ASSUME Undisturbed, MemInv, [Next]_vars, Types', Advance
  PROVE KnownAhead'
<1>0. DataTypes /\ DataTypes' /\ KnownAhead /\ ToldAhead
  BY DEF MemInv, Types, NoneAhead
<1>1. ASSUME NEW g \in Host, NEW h \in Host, NEW i \in DOMAIN intervals'[g][h]
      PROVE ~isAfterInterval(intervals'[g][h][i].timestamp, now'[h])
  <2>1. PICK ts : ts = intervals'[g][h][i].timestamp
    OBVIOUS
  <2>2. Learnt(g, h, ts)
    BY <2>1, ListsStep
  <2>3. ts \in Stamp
    <3>1. intervals'[g][h] \in Seq(IntervalRecord)
      BY <1>0 DEF DataTypes
    <3>2. intervals'[g][h][i] \in IntervalRecord
      BY <3>1
    <3> QED BY <2>1, <3>2 DEF IntervalRecord
  <2>4. now[h] \in Stamp /\ now'[h] \in Stamp
    BY <1>0 DEF DataTypes
  <2>5. CASE ts = now'[h]
    BY <2>1, <2>4, <2>5, NotAfterItself
  <2>6. CASE ~isAfterInterval(ts, now[h])
    <3>1. now'[h] = now[h] \/ isAfterInterval(now'[h], now[h])
      BY DEF Advance
    <3>2. ~isAfterInterval(ts, now'[h])
      BY <2>3, <2>4, <2>6, <3>1, NotAfterLater
    <3> QED BY <2>1, <3>2
  <2>7. CASE Timed(intervals[g][h], ts)
    <3>1. ~isAfterInterval(ts, now[h])
      BY <1>0, <2>7 DEF KnownAhead, Timed
    <3> QED BY <2>6, <3>1
  <2>8. CASE \E m \in msgs :
          /\ m.command \in {"GRANT_WN_I", "GRANT_ENTER_BARRIER_INFO", "GRANT_EXIT_BARRIER_INFO"}
          /\ m.to = g /\ Sent(PacketsGiven(m.body.packets), h, ts)
    <3>1. PICK m \in msgs :
            /\ m.command \in {"GRANT_WN_I", "GRANT_ENTER_BARRIER_INFO", "GRANT_EXIT_BARRIER_INFO"}
            /\ \E k \in DOMAIN m.body.packets :
                 m.body.packets[k].hostid = h /\ m.body.packets[k].timestamp = ts
      BY <2>8 DEF Sent, PacketsGiven
    <3>2. ~isAfterInterval(ts, now[h])
      BY <1>0, <3>1 DEF ToldAhead
    <3> QED BY <2>6, <3>2
  <2> QED BY <2>2, <2>5, <2>7, <2>8 DEF Learnt
<1> QED BY <1>1 DEF KnownAhead

(* A packet of an interval of host j that some host knows. *)
KnownPacket(j, packet) ==
  \E g \in Host : \E n \in DOMAIN intervals[g][j] : packet = Packet(j, intervals[g][j][n])

(* Packets of intervals that h knows, sent to a host that knows its own. *)
ToldWell(m) ==
  \A i \in DOMAIN m.body.packets :
    /\ m.body.packets[i].hostid # m.to /\ m.body.packets[i] \in PacketRecord
    /\ ~isAfterInterval(m.body.packets[i].timestamp, now[m.body.packets[i].hostid])
    /\ KnownPacket(m.body.packets[i].hostid, m.body.packets[i])

(* A packet that is sent is of an interval its sender knows. *)
LEMMA SentWell ==
  ASSUME MemInv, NEW h \in Host, NEW g \in Host, NEW m, m.to = g,
         m.body.packets = Packets(h, now[g])
  PROVE ToldWell(m)
<1>0. DataTypes /\ KnownAhead
  BY DEF MemInv, Types, NoneAhead
<1>1. PICK s : s = Packets(h, now[g])
  OBVIOUS
<1>2. ASSUME NEW i \in DOMAIN s
      PROVE /\ s[i].hostid # g /\ s[i] \in PacketRecord
            /\ ~isAfterInterval(s[i].timestamp, now[s[i].hostid]) /\ KnownPacket(s[i].hostid, s[i])
  <2>0. PICK j \in Host : \E n \in DOMAIN intervals[h][j] :
             /\ s[i] = Packet(j, intervals[h][j][n])
             /\ isAfterInterval(intervals[h][j][n].timestamp, now[g])
    BY <1>0, <1>1, PacketsSent
  <2>1. PICK n \in DOMAIN intervals[h][j] :
             /\ s[i] = Packet(j, intervals[h][j][n])
             /\ isAfterInterval(intervals[h][j][n].timestamp, now[g])
    BY <2>0
  <2>2. s[i].hostid = j /\ s[i].timestamp = intervals[h][j][n].timestamp
    BY <2>1 DEF Packet
  <2>3. ~isAfterInterval(s[i].timestamp, now[j])
    BY <1>0, <2>2 DEF KnownAhead
  <2>4. s \in Seq(PacketRecord)
    BY <1>0, <1>1, PacketsSent
  <2>5. s[i] \in PacketRecord
    BY <2>4
  <2>6. KnownPacket(j, s[i])
    BY <2>1 DEF KnownPacket
  <2> QED BY <2>1, <2>2, <2>3, <2>5, <2>6
<1> QED BY <1>1, <1>2 DEF ToldWell

(* No message tells of an interval that its host has not opened. *)
LEMMA ToldAheadStep ==
  ASSUME Undisturbed, MemInv, [Next]_vars, Types', Advance,
         \A m \in msgs' : m \in msgs \/ ToldWell(m)
           \/ m.command \notin {"GRANT_WN_I", "GRANT_ENTER_BARRIER_INFO", "GRANT_EXIT_BARRIER_INFO"}
  PROVE ToldAhead'
<1>0. DataTypes /\ DataTypes' /\ ToldAhead /\ msgs' \subseteq Message
  BY DEF MemInv, Types, NoneAhead
<1>1. ASSUME NEW m \in msgs',
             m.command \in {"GRANT_WN_I", "GRANT_ENTER_BARRIER_INFO", "GRANT_EXIT_BARRIER_INFO"},
             NEW i \in DOMAIN m.body.packets
      PROVE /\ m.body.packets[i].hostid # m.to
            /\ ~isAfterInterval(m.body.packets[i].timestamp, now'[m.body.packets[i].hostid])
  <2>1. m.body.packets \in Seq(PacketRecord)
    BY <1>0, <1>1, Letters
  <2>2. m.body.packets[i] \in PacketRecord
    BY <2>1
  <2>3. PICK j, ts : j = m.body.packets[i].hostid /\ ts = m.body.packets[i].timestamp
    OBVIOUS
  <2>4. j \in Host /\ ts \in Stamp
    BY <2>2, <2>3 DEF PacketRecord
  <2>5. j # m.to /\ ~isAfterInterval(ts, now[j])
    BY <1>0, <1>1, <2>3 DEF ToldAhead, ToldWell
  <2>6. ~isAfterInterval(ts, now'[j])
    <3>1. now'[j] = now[j] \/ isAfterInterval(now'[j], now[j])
      BY <2>4 DEF Advance
    <3>2. now[j] \in Stamp /\ now'[j] \in Stamp
      BY <1>0, <2>4 DEF DataTypes
    <3> QED BY <2>4, <2>5, <3>1, <3>2, NotAfterLater
  <2> QED BY <2>3, <2>5, <2>6
<1> QED BY <1>1 DEF ToldAhead

(* What a host has been told was opened before. *)
LEMMA NewsTold ==
  ASSUME Undisturbed, MemInv, [Next]_vars
  PROVE \A m \in msgs' : m \in msgs \/ ToldWell(m)
           \/ m.command \notin {"GRANT_WN_I", "GRANT_ENTER_BARRIER_INFO", "GRANT_EXIT_BARRIER_INFO"}
<1>0. DataTypes /\ Types /\ KnownAhead /\ 0 \in Host
  BY ZeroHost DEF MemInv, Types, NoneAhead
<1> DEFINE Fine(m) == m \in msgs \/ ToldWell(m)
           \/ m.command \notin {"GRANT_WN_I", "GRANT_ENTER_BARRIER_INFO", "GRANT_EXIT_BARRIER_INFO"}
<1>1. ASSUME NEW h \in Host, Begin(h), NEW m \in msgs' PROVE Fine(m)
  <2>1. m \in msgs \/ \E l : m = Msg("FETCH_WN_I", h, l, now[h])
    BY <1>1 DEF Begin
  <2> QED BY <2>1, MsgFields
<1>2. ASSUME NEW h \in Host, Main(h), NEW m \in msgs' PROVE Fine(m)
  <2>1. m \in msgs \/ (\E l, b : m = Msg("FETCH_PAGE", h, l, b)) \/ \E l, b : m = Msg("FETCH_DIFF", h, l, b)
    <3>1. FaultMiss(h) => m \in msgs \/ \E l, b : m = Msg("FETCH_PAGE", h, l, b)
      BY <1>2 DEF FaultMiss
    <3>2. FetchDiff(h) => m \in msgs \/ \E l, b : m = Msg("FETCH_DIFF", h, l, b)
      BY <1>2 DEF FetchDiff
    <3>3. FaultInvalid(h) \/ ReadNotices(h) \/ Resolved(h) \/ FaultWrite(h) => msgs' = msgs
      BY DEF FaultInvalid, ReadNotices, Resolved, FaultWrite
    <3>4. FaultTwin(h) \/ FaultNotice(h) \/ FaultWritable(h) \/ FaultProtect(h) => msgs' = msgs
      BY DEF FaultTwin, FaultNotice, FaultWritable, FaultProtect
    <3>5. Access(h) \/ End(h) => msgs' = msgs
      BY DEF Access, End
    <3> QED BY <1>2, <3>1, <3>2, <3>3, <3>4, <3>5 DEF Main
  <2> QED BY <2>1, MsgFields
<1>3. ASSUME NEW h \in Host, EnterBarrier(h), NEW m \in msgs' PROVE Fine(m)
  <2>1. CASE m \in msgs
    BY <2>1
  <2>2. CASE m \notin msgs
    <3>1. h # 0 /\ m = Msg("GRANT_ENTER_BARRIER_INFO", h, 0,
                           [timestamp |-> now[h], packets |-> BarrierPackets(h)])
      BY <1>3, <2>2 DEF EnterBarrier
    <3>2. m.to = 0 /\ m.body.packets = BarrierPackets(h)
      BY <3>1, MsgFields
    <3>3. PICK s : s = BarrierPackets(h)
      OBVIOUS
    <3>4. ASSUME NEW i \in DOMAIN s
          PROVE /\ s[i].hostid # 0 /\ s[i] \in PacketRecord
                /\ ~isAfterInterval(s[i].timestamp, now[s[i].hostid]) /\ KnownPacket(s[i].hostid, s[i])
      <4>1. PICK n \in DOMAIN intervals[h][h] : s[i] = Packet(h, intervals[h][h][n])
        BY <1>0, <3>3, BarrierPacketsSent
      <4>2. s[i].hostid = h /\ s[i].timestamp = intervals[h][h][n].timestamp
        BY <4>1 DEF Packet
      <4>3. s \in Seq(PacketRecord)
        BY <1>0, <3>3, BarrierPacketsSent
      <4>4. s[i] \in PacketRecord
        BY <4>3
      <4>5. KnownPacket(h, s[i])
        BY <4>1 DEF KnownPacket
      <4> QED BY <1>0, <3>1, <4>2, <4>4, <4>5 DEF KnownAhead
    <3> QED BY <3>2, <3>3, <3>4 DEF ToldWell
  <2> QED BY <2>1, <2>2
<1>4. ASSUME NEW k \in msgs, Dispatch(k), NEW m \in msgs' PROVE Fine(m)
  <2>1. k.to \in Host /\ k.from \in Host
    BY <1>0, Letters DEF Types
  <2>2. CASE HandleFetchWNI(k) /\ m \notin msgs
    <3>1. m = Msg("GRANT_WN_I", k.to, k.from,
                  [timestamp |-> now[k.to], packets |-> Packets(k.to, k.body)])
      BY <2>2 DEF HandleFetchWNI
    <3>2. Expected(k) /\ k.command = "FETCH_WN_I"
      BY <2>2, Handles DEF MemInv, HandleFetchWNI
    <3>3. k.body = now[k.from]
      BY <3>2 DEF Expected, Client, Request
    <3>4. m.to = k.from /\ m.body.packets = Packets(k.to, now[k.from])
      BY <3>1, <3>3, MsgFields
    <3> QED BY <2>1, <3>4, SentWell
  <2>3. CASE HandleFetchPage(k) /\ m \notin msgs
    <3>1. PICK b : msgs' = msgs \ {k} \/ msgs' = (msgs \ {k}) \cup {Msg("GRANT_PAGE", k.to, k.from, b)}
      <4>1. \/ msgs' = msgs \ {k}
            \/ msgs' = (msgs \ {k}) \cup {Msg("GRANT_PAGE", k.to, k.from,
                              [page |-> k.body, data |-> pages[k.to][k.body].data])}
        BY <2>3, HandleFetchPageDoes, Zenon
      <4> QED BY <4>1, Zenon
    <3>2. m = Msg("GRANT_PAGE", k.to, k.from, b)
      BY <2>3, <1>4, <3>1
    <3> QED BY <3>2, MsgFields
  <2>4. CASE HandleFetchDiff(k) /\ m \notin msgs
    <3>1. \E b : m = Msg("GRANT_DIFF", k.to, k.from, b)
      BY <2>4 DEF HandleFetchDiff
    <3> QED BY <3>1, MsgFields
  <2>5. CASE ~HandleFetchWNI(k) /\ ~HandleFetchPage(k) /\ ~HandleFetchDiff(k)
    <3>1. msgs' = msgs \ {k}
      BY <1>4, <2>5 DEF Dispatch, HandleGrantWNI, HandleGrantPage, HandleGrantDiff,
                        HandleEnterBarrierInfo, HandleExitBarrierInfo
    <3> QED BY <1>4, <3>1
  <2> QED BY <2>2, <2>3, <2>4, <2>5
<1>5. ASSUME CompleteBarrier, NEW m \in msgs' PROVE Fine(m)
  <2>1. msgs = {} /\ \A h \in Host : stamps[h] = now[h]
    BY <1>5, AllEntered
  <2>2. PICK h \in Host : m = Msg("GRANT_EXIT_BARRIER_INFO", 0, h,
                     [timestamp |-> BarrierStamp, packets |-> Packets(0, stamps[h])])
    BY <1>5, <2>1 DEF CompleteBarrier, BarrierStamp
  <2>3. m.to = h /\ m.body.packets = Packets(0, now[h])
    BY <2>1, <2>2, MsgFields
  <2> QED BY <1>0, <2>3, SentWell
<1>6. CASE UNCHANGED vars
  BY <1>6 DEF vars
<1> HIDE DEF Fine
<1>7. SUFFICES ASSUME NEW m \in msgs' PROVE Fine(m)
  BY DEF Fine
<1>8. CASE Next
  <2>1. CASE \E h \in Host : Begin(h) \/ Main(h) \/ EnterBarrier(h)
    BY <1>1, <1>2, <1>3, <2>1
  <2>2. CASE \E k \in msgs : Dispatch(k)
    BY <1>4, <2>2
  <2>3. CASE CompleteBarrier
    BY <1>5, <2>3
  <2> QED BY <1>8, <2>1, <2>2, <2>3 DEF Next
<1> QED BY <1>6, <1>8 DEF Fine

-----------------------------------------------------------------------------
(* Twins and notices, host by host *)

Fetching == {"page", "pageGot", "diff", "diffWait"}

HostFine(h) == /\ \A p \in PageIndex : TwinsAt(h, p)
               /\ pc[h] \in Fetching => Cur(h).state # "WRITE"

(* The step leaves the pages, the notices and the thread of a host alone. *)
SamePages(h) == \A p \in PageIndex : pages'[h][p] = pages[h][p]
SameNotices(h) == \A p \in PageIndex, j \in Host : notices'[h][p][j] = notices[h][p][j]
SameThread(h) == pc'[h] = pc[h] /\ op'[h] = op[h]
Left(h) == SamePages(h) /\ SameNotices(h) /\ SameThread(h)

(* The invariant, host by host. *)
LEMMA AllFine == ASSUME MemInv PROVE \A h \in Host : HostFine(h)
BY DEF MemInv, Twins, NotWriting, HostFine, Fetching

(* A host that a step leaves alone. *)
LEMMA LeftFine ==
  ASSUME Types, NEW h \in Host, HostFine(h), Left(h)
  PROVE HostFine(h)'
<1>1. ASSUME NEW p \in PageIndex PROVE TwinsAt(h, p)'
  <2>1. TwinsAt(h, p) /\ pages'[h][p] = pages[h][p] /\ notices'[h][p][h] = notices[h][p][h]
        /\ pc'[h] = pc[h] /\ op'[h] = op[h]
    BY DEF HostFine, Left, SamePages, SameNotices, SameThread
  <2> QED BY <2>1 DEF TwinsAt, Faulting, Bare
<1>2. ASSUME pc'[h] \in Fetching PROVE Cur(h)'.state # "WRITE"
  <2>1. pc'[h] = pc[h] /\ op'[h] = op[h]
    BY DEF Left, SameThread
  <2>2. op[h].page \in PageIndex
    BY <1>2, <2>1, OpPage DEF Fetching
  <2>3. pages'[h][op[h].page] = pages[h][op[h].page]
    BY <2>2 DEF Left, SamePages
  <2> QED BY <1>2, <2>1, <2>3 DEF HostFine, Cur
<1> QED BY <1>1, <1>2 DEF HostFine, Cur

(* A step at one host. *)
LEMMA AtOneHost ==
  ASSUME MemInv, NEW h \in Host, \A g \in Host : g # h => Left(g), HostFine(h)'
  PROVE \A g \in Host : HostFine(g)'
<1> TAKE g \in Host
<1>1. CASE g = h
  BY <1>1
<1>2. CASE g # h
  BY <1>2, AllFine, LeftFine DEF MemInv
<1> QED BY <1>1, <1>2

(* Steps that touch neither pages nor notices nor threads. *)
LEMMA UntouchedFine ==
  ASSUME MemInv, UNCHANGED <<notices, pages, pc, op>>
  PROVE \A g \in Host : HostFine(g)'
BY AllFine, LeftFine DEF MemInv, Left, SamePages, SameNotices, SameThread

(* A step of the thread that leaves pages and notices alone. *)
LEMMA ThreadFine ==
  ASSUME MemInv, NEW h \in Host, UNCHANGED <<notices, pages>>,
         \A g \in Host : g # h => SameThread(g),
         pc[h] \notin {"twinned", "noticed"}, pc'[h] \notin {"twinned", "noticed"},
         pc'[h] \in Fetching => op'[h] = op[h] /\ Cur(h).state # "WRITE"
  PROVE \A g \in Host : HostFine(g)'
<1>1. \A g \in Host : g # h => Left(g)
  BY DEF Left, SamePages, SameNotices
<1>2. ASSUME NEW p \in PageIndex PROVE TwinsAt(h, p)'
  <2>1. TwinsAt(h, p)
    BY DEF MemInv, Twins
  <2> QED BY <2>1 DEF TwinsAt, Faulting, Bare
<1>3. HostFine(h)'
  BY <1>2 DEF HostFine, Cur
<1> QED BY <1>1, <1>3, AtOneHost

(* A step of host h at one page that leaves the notices alone. *)
LEMMA PageFine ==
  ASSUME MemInv, NEW h \in Host, NEW p \in PageIndex, NEW v \in PageRecord,
         pages' = [pages EXCEPT ![h][p] = v], notices' = notices,
         \A g \in Host : g # h => SameThread(g),
         p = op[h].page \/ pc'[h] = pc[h], op'[h] = op[h],
         LET faulting == pc'[h] \in {"twinned", "noticed"} /\ p = op[h].page
             bare == v.state = "WRITE" \/ (pc'[h] = "noticed" /\ p = op[h].page)
         IN /\ faulting => v.state = "RDONLY"
            /\ v.twin # None <=> (v.state = "WRITE" \/ faulting)
            /\ bare <=> Bare(h, p),
         pc'[h] \in Fetching => pc[h] \in Fetching /\ (v.state = "WRITE" => pages[h][p].state = "WRITE")
  PROVE \A g \in Host : HostFine(g)'
<1>0. DataTypes
  BY DEF MemInv, Types
<1>1. \A g \in Host, q \in PageIndex : pages'[g][q] = IF g = h /\ q = p THEN v ELSE pages[g][q]
  BY <1>0, DataPage
<1>2. \A g \in Host : g # h => Left(g)
  BY <1>1 DEF Left, SamePages, SameNotices
<1>3. ASSUME NEW q \in PageIndex PROVE TwinsAt(h, q)'
  <2>1. TwinsAt(h, q)
    BY DEF MemInv, Twins
  <2>2. CASE q # p
    <3>1. pages'[h][q] = pages[h][q]
      BY <1>1, <2>2
    <3>2. Faulting(h, q)' <=> Faulting(h, q)
      BY <2>2 DEF Faulting
    <3>3. Bare(h, q)' <=> Bare(h, q)
      BY <2>2, <3>1 DEF Bare
    <3> QED BY <2>1, <3>1, <3>2, <3>3 DEF TwinsAt
  <2>3. CASE q = p
    <3>1. pages'[h][q] = v
      BY <1>1, <2>3
    <3>2. Faulting(h, q)' <=> (pc'[h] \in {"twinned", "noticed"} /\ p = op[h].page)
      BY <2>3 DEF Faulting
    <3>3. Bare(h, q)' <=> (v.state = "WRITE" \/ (pc'[h] = "noticed" /\ p = op[h].page))
      BY <2>3, <3>1 DEF Bare
    <3> QED BY <2>1, <2>3, <3>1, <3>2, <3>3 DEF TwinsAt
  <2> QED BY <2>2, <2>3
<1>4. ASSUME pc'[h] \in Fetching PROVE Cur(h)'.state # "WRITE"
  <2>1. op[h].page \in PageIndex /\ pc[h] \in Fetching
    BY <1>4, OpPage DEF Fetching, MemInv
  <2>2. Cur(h).state # "WRITE"
    BY <2>1, AllFine DEF HostFine
  <2>3. pages'[h][op[h].page] = IF op[h].page = p THEN v ELSE pages[h][op[h].page]
    BY <1>1, <2>1
  <2> QED BY <1>4, <2>2, <2>3 DEF Cur
<1>5. HostFine(h)'
  BY <1>3, <1>4 DEF HostFine, Cur
<1> QED BY <1>2, <1>5, AtOneHost

-----------------------------------------------------------------------------
(* The steps of the threads *)

(* A step that changes the thread only. *)
LEMMA QuietFine ==
  ASSUME MemInv, NEW h \in Host,
         \/ Begin(h) \/ FaultMiss(h) \/ FaultInvalid(h) \/ ReadNotices(h) \/ FetchDiff(h)
         \/ FaultWrite(h) \/ FaultProtect(h) \/ End(h) \/ EnterBarrier(h)
  PROVE \A g \in Host : HostFine(g)'
<1>0. Types /\ ThreadTypes
  BY DEF MemInv, Types
<1>1. UNCHANGED <<notices, pages>>
  BY DEF Begin, FaultMiss, FaultInvalid, ReadNotices, FetchDiff, FaultWrite, FaultProtect, End,
         EnterBarrier, mem
<1>2. pc'[h] \notin {"twinned", "noticed"} /\ pc[h] \notin {"twinned", "noticed"}
  BY <1>0 DEF Begin, FaultMiss, FaultInvalid, ReadNotices, FetchDiff, FaultWrite, FaultProtect, End,
         EnterBarrier, Running, ThreadTypes
<1>3. \A g \in Host : g # h => SameThread(g)
  BY <1>0 DEF Begin, FaultMiss, FaultInvalid, ReadNotices, FetchDiff, FaultWrite, FaultProtect, End,
         EnterBarrier, ThreadTypes, SameThread
<1>4. ASSUME pc'[h] \in Fetching PROVE op'[h] = op[h] /\ Cur(h).state # "WRITE"
  <2>1. CASE FaultMiss(h) \/ FaultInvalid(h)
    BY <2>1 DEF FaultMiss, FaultInvalid
  <2>2. CASE FetchDiff(h) \/ ReadNotices(h)
    <3>1. pc[h] \in Fetching
      BY <2>2 DEF FetchDiff, ReadNotices, Running, Fetching
    <3> QED BY <2>2, <3>1, AllFine DEF FetchDiff, ReadNotices, HostFine
  <2>3. CASE Begin(h) \/ FaultWrite(h) \/ FaultProtect(h) \/ End(h) \/ EnterBarrier(h)
    BY <1>0, <1>4, <2>3 DEF Begin, FaultWrite, FaultProtect, End, EnterBarrier, Fetching, ThreadTypes
  <2> QED BY <2>1, <2>2, <2>3
<1> QED BY <1>1, <1>2, <1>3, <1>4, ThreadFine

(* The page, at the place of its fault. *)
LEMMA AtPage ==
  ASSUME MemInv, NEW h \in Host, pc[h] \notin {"app", "barrier"}
  PROVE \E p \in PageIndex : p = op[h].page /\ pages[h][p] \in PageRecord /\ Cur(h) = pages[h][p]
                             /\ TwinsAt(h, p)
<1>1. op[h].page \in PageIndex
  BY OpPage DEF MemInv
<1> QED BY <1>1 DEF MemInv, Types, DataTypes, Cur, Twins

(* A page that was fetched, or whose diffs were, becomes RDONLY. *)
LEMMA ResolvedFine ==
  ASSUME MemInv, NEW h \in Host, Resolved(h)
  PROVE \A g \in Host : HostFine(g)'
<1>0. ThreadTypes
  BY DEF MemInv, Types
<1>1. pc[h] \in Fetching /\ pc[h] # "twinned" /\ pc[h] # "noticed" /\ pc'[h] = "readable"
  BY <1>0 DEF Resolved, Running, Fetching, ThreadTypes
<1>2. PICK p \in PageIndex : p = op[h].page /\ pages[h][p] \in PageRecord /\ Cur(h) = pages[h][p]
                             /\ TwinsAt(h, p)
  BY <1>1, AtPage DEF Fetching
<1>3. PICK v : v = [pages[h][p] EXCEPT !.state = "RDONLY"]
  OBVIOUS
<1>4. v \in PageRecord /\ v.state = "RDONLY" /\ v.twin = pages[h][p].twin
  BY <1>2, <1>3 DEF PageRecord
<1>5. pages' = [pages EXCEPT ![h][p] = v] /\ notices' = notices /\ op' = op
  BY <1>2, <1>3 DEF Resolved
<1>6. pages[h][p].state # "WRITE"
  BY <1>1, <1>2, AllFine DEF HostFine
<1>7. ~Bare(h, p) /\ v.twin = None
  BY <1>1, <1>2, <1>4, <1>6 DEF Bare, TwinsAt, Faulting, FaultPoints
<1>8. \A g \in Host : g # h => SameThread(g)
  BY <1>0 DEF Resolved, ThreadTypes, SameThread
<1>9. pc'[h] \notin Fetching
  BY <1>1 DEF Fetching
<1> QED BY <1>1, <1>2, <1>4, <1>5, <1>7, <1>8, <1>9, PageFine

(* createTwinPage. *)
LEMMA FaultTwinFine ==
  ASSUME MemInv, NEW h \in Host, FaultTwin(h)
  PROVE \A g \in Host : HostFine(g)'
<1>0. ThreadTypes
  BY DEF MemInv, Types
<1>1. pc[h] = "tested" /\ pc'[h] = "twinned"
  BY <1>0 DEF FaultTwin, Running, ThreadTypes
<1>2. PICK p \in PageIndex : p = op[h].page /\ pages[h][p] \in PageRecord /\ Cur(h) = pages[h][p]
                             /\ TwinsAt(h, p)
  BY <1>1, AtPage
<1>3. pages[h][p].state = "RDONLY"
  BY <1>1, <1>2 DEF MemInv, Protected, Guarded
<1>4. PICK v : v = createTwinPage(pages[h][p])
  OBVIOUS
<1>5. pages[h][p].twin = None /\ ~Bare(h, p)
  BY <1>1, <1>2, <1>3 DEF TwinsAt, Faulting, FaultPoints, Bare
<1>6. v \in PageRecord /\ v.state = "RDONLY" /\ v.twin # None
  <2>1. v = [pages[h][p] EXCEPT !.twin = pages[h][p].data]
    BY <1>4, <1>5 DEF createTwinPage
  <2>2. pages[h][p].data \in Page
    BY <1>2 DEF PageRecord
  <2> QED BY <1>2, <1>3, <2>1, <2>2, PageIsSome DEF PageRecord
<1>7. pages' = [pages EXCEPT ![h][p] = v] /\ notices' = notices /\ op' = op
  BY <1>2, <1>4 DEF FaultTwin
<1>8. \A g \in Host : g # h => SameThread(g)
  BY <1>0 DEF FaultTwin, ThreadTypes, SameThread
<1>9. pc'[h] \notin Fetching
  BY <1>1 DEF Fetching
<1> QED BY <1>1, <1>2, <1>5, <1>6, <1>7, <1>8, <1>9, PageFine

(* The page of a write fault becomes WRITE. *)
LEMMA FaultWritableFine ==
  ASSUME MemInv, NEW h \in Host, FaultWritable(h)
  PROVE \A g \in Host : HostFine(g)'
<1>0. ThreadTypes
  BY DEF MemInv, Types
<1>1. pc[h] = "noticed" /\ pc'[h] = "written"
  BY <1>0 DEF FaultWritable, Running, ThreadTypes
<1>2. PICK p \in PageIndex : p = op[h].page /\ pages[h][p] \in PageRecord /\ Cur(h) = pages[h][p]
                             /\ TwinsAt(h, p)
  BY <1>1, AtPage
<1>3. PICK v : v = [pages[h][p] EXCEPT !.state = "WRITE"]
  OBVIOUS
<1>4. v \in PageRecord /\ v.state = "WRITE" /\ v.twin = pages[h][p].twin
  BY <1>2, <1>3 DEF PageRecord
<1>5. Bare(h, p) /\ v.twin # None
  BY <1>1, <1>2, <1>4 DEF TwinsAt, Faulting, FaultPoints, Bare
<1>6. pages' = [pages EXCEPT ![h][p] = v] /\ notices' = notices /\ op' = op
  BY <1>2, <1>3 DEF FaultWritable
<1>7. \A g \in Host : g # h => SameThread(g)
  BY <1>0 DEF FaultWritable, ThreadTypes, SameThread
<1>8. pc'[h] \notin Fetching
  BY <1>1 DEF Fetching
<1> QED BY <1>1, <1>2, <1>4, <1>5, <1>6, <1>7, <1>8, PageFine

(* A write keeps the twin. *)
LEMMA AccessFine ==
  ASSUME MemInv, NEW h \in Host, Access(h)
  PROVE \A g \in Host : HostFine(g)'
<1>0. ThreadTypes
  BY DEF MemInv, Types
<1>1. pc[h] = "access" /\ pc'[h] = "done"
  BY <1>0 DEF Access, Running, ThreadTypes
<1>2. PICK p \in PageIndex : p = op[h].page /\ pages[h][p] \in PageRecord /\ Cur(h) = pages[h][p]
                             /\ TwinsAt(h, p)
  BY <1>1, AtPage
<1>3. pc'[h] \notin {"twinned", "noticed"} /\ pc[h] \notin {"twinned", "noticed"}
      /\ pc'[h] \notin Fetching
  BY <1>1 DEF Fetching
<1>4. notices' = notices /\ op' = op /\ \A g \in Host : g # h => SameThread(g)
  BY <1>0 DEF Access, ThreadTypes, SameThread
<1>5. CASE ~op[h].inc
  <2>1. UNCHANGED <<notices, pages>>
    BY <1>5 DEF Access
  <2> QED BY <1>3, <1>4, <2>1, ThreadFine
<1>6. CASE op[h].inc
  <2>1. PICK c \in Cell : c = op[h].cell
    BY <1>1, OpPage DEF MemInv
  <2>2. PICK x : x = [pages[h][p].data EXCEPT ![c] = (@ + 1) % BYTE]
    OBVIOUS
  <2>3. x \in Page
    <3>1. pages[h][p].data \in Page
      BY <1>2 DEF PageRecord
    <3> QED BY <2>1, <2>2, <3>1, ByteOneMore
  <2>4. PICK v : v = [pages[h][p] EXCEPT !.data = x]
    OBVIOUS
  <2>5. v \in PageRecord /\ v.state = pages[h][p].state /\ v.twin = pages[h][p].twin
    BY <1>2, <2>3, <2>4 DEF PageRecord
  <2>6. pages' = [pages EXCEPT ![h][p] = v]
    <3>1. pages' = [pages EXCEPT ![h][p].data[c] = (@ + 1) % BYTE]
      BY <1>2, <1>6, <2>1 DEF Access
    <3> QED BY <2>2, <2>4, <3>1
  <2>7. v.twin # None <=> v.state = "WRITE"
    BY <1>2, <1>3, <2>5 DEF TwinsAt, Faulting
  <2>8. v.state = "WRITE" <=> Bare(h, p)
    BY <1>3, <2>5 DEF Bare
  <2> QED BY <1>2, <1>3, <1>4, <2>5, <2>6, <2>7, <2>8, PageFine
<1> QED BY <1>5, <1>6

(* createWriteNotice, inside the fault: a notice without a diff goes first. *)
LEMMA FaultNoticeFine ==
  ASSUME MemInv, NEW h \in Host, FaultNotice(h)
  PROVE \A g \in Host : HostFine(g)'
<1>0. ThreadTypes /\ DataTypes /\ OwnNewest
  BY DEF MemInv, Types
<1>1. pc[h] = "twinned" /\ pc'[h] = "noticed" /\ pages' = pages /\ op' = op
  BY <1>0 DEF FaultNotice, Running, ThreadTypes
<1>2. PICK p \in PageIndex : p = op[h].page /\ pages[h][p] \in PageRecord /\ Cur(h) = pages[h][p]
                             /\ TwinsAt(h, p)
  BY <1>1, AtPage
<1>3. pages[h][p].state = "RDONLY" /\ Faulting(h, p) /\ ~Bare(h, p)
  BY <1>1, <1>2 DEF TwinsAt, Faulting, FaultPoints, Bare
<1>4. createWriteNotice(h, p)
  BY <1>2, <1>3 DEF FaultNotice
<1>5. PICK x \in NoticeRecord, more \in Seq(NoticeRecord) :
             /\ x.timestamp = now[h] /\ x.diff = None /\ more = <<x>> \o notices[h][p][h]
             /\ \A g \in Host, q \in PageIndex, j \in Host :
                  notices'[g][q][j] = IF g = h /\ q = p /\ j = h THEN more ELSE notices[g][q][j]
  BY <1>0, <1>4, NoticedLists, Zenon
<1>6. \A g \in Host : g # h => Left(g)
  BY <1>0, <1>1, <1>5 DEF Left, SamePages, SameNotices, SameThread, FaultNotice, ThreadTypes
<1>7. ASSUME NEW q \in PageIndex PROVE TwinsAt(h, q)'
  <2>1. TwinsAt(h, q)
    BY DEF MemInv, Twins
  <2>2. CASE q # p
    <3>1. notices'[h][q][h] = notices[h][q][h]
      BY <1>5, <2>2
    <3> QED BY <1>1, <1>2, <2>1, <2>2, <3>1 DEF TwinsAt, Faulting, Bare
  <2>3. CASE q = p
    <3>1. PICK list \in Seq(NoticeRecord) : list = notices[h][p][h]
      BY <1>0 DEF DataTypes
    <3>2. notices'[h][p][h] = more /\ more = <<x>> \o list
      BY <1>5, <3>1
    <3>3. /\ more # << >> /\ more[1] = x
          /\ \A k \in DOMAIN more : k # 1 => k - 1 \in DOMAIN list /\ more[k] = list[k - 1]
      BY <3>2, SeqPrepend
    <3>4. \A i \in DOMAIN list : list[i].diff # None
      BY <1>2, <1>3, <3>1 DEF TwinsAt
    <3>5. \A i \in DOMAIN more : more[i].diff = None <=> i = 1
      BY <1>5, <3>3, <3>4
    <3>6. Bare(h, p)' /\ Faulting(h, p)'
      BY <1>1, <1>2 DEF Bare, Faulting, FaultPoints
    <3> QED BY <1>1, <1>2, <1>3, <2>3, <3>2, <3>3, <3>5, <3>6 DEF TwinsAt
  <2> QED BY <2>2, <2>3
<1>8. HostFine(h)'
  BY <1>1, <1>7 DEF HostFine, Fetching
<1> QED BY <1>6, <1>8, AtOneHost

-----------------------------------------------------------------------------
(* The handlers *)

(* handleFetchPageMsg makes the page read-only and keeps its twin. *)
LEMMA HandleFetchPageFine ==
  ASSUME MemInv, NEW m \in msgs, HandleFetchPage(m)
  PROVE \A g \in Host : HostFine(g)'
<1>1. PICK h \in Host, p \in PageIndex : h = m.to /\ p = m.body
  BY HandleFetchPageDoes
<1>2. PICK v \in PageRecord :
             /\ v.twin = pages[h][p].twin
             /\ v.state = pages[h][p].state \/ (v.state = "RDONLY" /\ pages[h][p].state = "INVALID")
             /\ pages' = [pages EXCEPT ![h][p] = v]
  BY <1>1, HandleFetchPageDoes
<1>3. notices' = notices /\ pc' = pc /\ op' = op
  BY DEF HandleFetchPage
<1>4. TwinsAt(h, p)
  BY DEF MemInv, Twins
<1>5. /\ Faulting(h, p) => v.state = "RDONLY"
      /\ v.twin # None <=> (v.state = "WRITE" \/ Faulting(h, p))
  BY <1>2, <1>4 DEF TwinsAt
<1>6. (v.state = "WRITE" \/ (pc[h] = "noticed" /\ p = op[h].page)) <=> Bare(h, p)
  BY <1>2 DEF Bare
<1>7. \A g \in Host : g # h => SameThread(g)
  BY <1>3 DEF SameThread
<1>8. v.state = "WRITE" => pages[h][p].state = "WRITE"
  BY <1>2
<1> QED BY <1>2, <1>3, <1>5, <1>6, <1>7, <1>8, PageFine DEF Faulting

(* A page with its new contents, or its diffs, stays in the state it has. *)
LEMMA HandleGrantPageFine ==
  ASSUME MemInv, NEW m \in msgs, HandleGrantPage(m)
  PROVE \A g \in Host : HostFine(g)'
<1>0. ThreadTypes /\ DataTypes
  BY DEF MemInv, Types
<1>1. m \in Message /\ m.command = "GRANT_PAGE" /\ m.to \in Host /\ Expected(m)
  BY Handles DEF MemInv, HandleGrantPage
<1>2. PICK h \in Host, p \in PageIndex, x \in Page : h = m.to /\ p = m.body.page /\ x = m.body.data
  BY <1>1, Letters
<1>3. pc[h] = "page" /\ op[h].page = p
  BY <1>1, <1>2 DEF Expected, Client, Request
<1>4. PICK ts \in Stamp : ts = now[h]
  BY <1>0 DEF DataTypes
<1>5. PICK pg \in PageRecord : pg = pages[h][p]
  BY <1>0 DEF DataTypes
<1>6. PICK v : v = [pg EXCEPT !.data = x, !.start = ts]
  OBVIOUS
<1>7. v \in PageRecord /\ v.state = pg.state /\ v.twin = pg.twin
  BY <1>6 DEF PageRecord
<1>8. pages' = [pages EXCEPT ![h][p] = v]
  <2>1. pages' = [pages EXCEPT ![h][p].data = x, ![h][p].start = ts]
    BY <1>2, <1>4 DEF HandleGrantPage
  <2> QED BY <1>0, <1>5, <1>6, <2>1 DEF DataTypes
<1>9. notices' = notices /\ op' = op /\ pc'[h] = "pageGot" /\ \A g \in Host : g # h => SameThread(g)
  BY <1>0, <1>2 DEF HandleGrantPage, ThreadTypes, SameThread
<1>10. TwinsAt(h, p)
  BY DEF MemInv, Twins
<1>11. v.twin # None <=> v.state = "WRITE"
  BY <1>3, <1>5, <1>7, <1>10 DEF TwinsAt, Faulting, FaultPoints
<1>12. v.state = "WRITE" <=> Bare(h, p)
  BY <1>3, <1>5, <1>7 DEF Bare
<1>13. pc[h] \in Fetching /\ pc[h] \notin FaultPoints /\ pc'[h] \notin FaultPoints /\ pc'[h] # "noticed"
  BY <1>3, <1>9 DEF Fetching, FaultPoints
<1> QED BY <1>3, <1>5, <1>7, <1>8, <1>9, <1>11, <1>12, <1>13, PageFine

(* A step of host h at one page and one list of its notices. *)
LEMMA PageAndNoticesFine ==
  ASSUME MemInv, NEW h \in Host, NEW p \in PageIndex, NEW j \in Host,
         NEW v \in PageRecord, NEW next \in Seq(NoticeRecord),
         pages' = [pages EXCEPT ![h][p] = v], notices' = [notices EXCEPT ![h][p][j] = next],
         \A g \in Host : g # h => SameThread(g), op' = op,
         ~Faulting(h, p),
         pc'[h] = pc[h] \/ (pc[h] \notin FaultPoints /\ pc'[h] \notin FaultPoints),
         v.twin # None <=> v.state = "WRITE",
         DOMAIN next = DOMAIN notices[h][p][j],
         next = << >> <=> notices[h][p][j] = << >>,
         v.state = "WRITE" => pages[h][p].state = "WRITE",
         j = h => \A i \in DOMAIN next : next[i].diff = None <=> (i = 1 /\ v.state = "WRITE"),
         j # h => v.state = pages[h][p].state,
         pc'[h] \in Fetching => pc[h] \in Fetching
  PROVE \A g \in Host : HostFine(g)'
<1>0. DataTypes
  BY DEF MemInv, Types
<1>1. \A g \in Host, q \in PageIndex : pages'[g][q] = IF g = h /\ q = p THEN v ELSE pages[g][q]
  BY <1>0, DataPage
<1>2. \A g \in Host, q \in PageIndex, i \in Host :
        notices'[g][q][i] = IF g = h /\ q = p /\ i = j THEN next ELSE notices[g][q][i]
  <2>1. Put3(notices', notices, h, p, j, next, Host, PageIndex, Host, Seq(NoticeRecord))
    BY <1>0, NoticesPut
  <2> QED BY <2>1 DEF Put3
<1>3. \A g \in Host : g # h => Left(g)
  BY <1>1, <1>2 DEF Left, SamePages, SameNotices
<1>4. \A q \in PageIndex : Faulting(h, q)' <=> Faulting(h, q)
  BY DEF Faulting, FaultPoints
<1>5. ASSUME NEW q \in PageIndex PROVE TwinsAt(h, q)'
  <2>1. TwinsAt(h, q)
    BY DEF MemInv, Twins
  <2>2. (Faulting(h, q)' <=> Faulting(h, q)) /\ (q = p => ~Faulting(h, q))
    BY <1>4
  <2>3. q = p => (Bare(h, q) <=> pages[h][q].state = "WRITE")
    BY DEF Bare, Faulting, FaultPoints
  <2>4. q = p => (Bare(h, q)' <=> pages'[h][q].state = "WRITE")
    BY <2>2 DEF Bare, Faulting, FaultPoints
  <2>5. CASE q # p
    <3>1. pages'[h][q] = pages[h][q] /\ notices'[h][q][h] = notices[h][q][h]
      BY <1>1, <1>2, <2>5
    <3>2. Bare(h, q)' <=> Bare(h, q)
      BY <3>1 DEF Bare, FaultPoints
    <3> QED BY <2>1, <2>2, <3>1, <3>2 DEF TwinsAt
  <2>6. CASE q = p /\ j # h
    <3>1. pages'[h][q] = v /\ notices'[h][q][h] = notices[h][q][h]
      BY <1>1, <1>2, <2>6
    <3> QED BY <2>1, <2>2, <2>3, <2>4, <2>6, <3>1 DEF TwinsAt
  <2>7. CASE q = p /\ j = h
    <3>1. pages'[h][q] = v /\ notices'[h][q][h] = next
      BY <1>1, <1>2, <2>7
    <3>2. v.state = "WRITE" => next # << >>
      BY <2>1, <2>3, <2>7 DEF TwinsAt
    <3> QED BY <2>2, <2>4, <2>7, <3>1, <3>2 DEF TwinsAt
  <2> QED BY <2>5, <2>6, <2>7
<1>6. ASSUME pc'[h] \in Fetching PROVE Cur(h)'.state # "WRITE"
  <2>1. op[h].page \in PageIndex /\ pc[h] \in Fetching
    BY <1>6, OpPage DEF Fetching, MemInv
  <2>2. Cur(h).state # "WRITE"
    BY <2>1, AllFine DEF HostFine
  <2>3. pages'[h][op[h].page] = IF op[h].page = p THEN v ELSE pages[h][op[h].page]
    BY <1>1, <2>1
  <2> QED BY <2>2, <2>3 DEF Cur
<1>7. HostFine(h)'
  BY <1>5, <1>6 DEF HostFine, Cur
<1> QED BY <1>3, <1>7, AtOneHost

(* A diff that finds no place. *)
LEMMA NothingDone ==
  ASSUME MemInv, NEW h \in Host, UNCHANGED <<notices, pages, op>>,
         \A g \in Host : g # h => SameThread(g),
         pc[h] \notin FaultPoints, pc'[h] \notin FaultPoints, pc'[h] \in Fetching => pc[h] \in Fetching
  PROVE \A g \in Host : HostFine(g)'
<1>1. pc'[h] \in Fetching => Cur(h).state # "WRITE"
  BY AllFine DEF HostFine
<1> QED BY <1>1, ThreadFine DEF FaultPoints

(* handleFetchDiffMsg frees the twin and fills the newest notice. *)
LEMMA HandleFetchDiffFine ==
  ASSUME Undisturbed, MemInv, NEW m \in msgs, HandleFetchDiff(m)
  PROVE \A g \in Host : HostFine(g)'
<1>0. DataTypes
  BY DEF MemInv, Types
<1>1. PICK h \in Host, p \in PageIndex : h = m.to /\ p = m.body.page
  BY FetchDiffCases
<1>2. pc' = pc /\ op' = op /\ \A g \in Host : g # h => SameThread(g)
  BY DEF HandleFetchDiff, SameThread
<1>3. CASE NoDiff(m)
  BY <1>2, <1>3, UntouchedFine DEF NoDiff
<1>4. ASSUME NEW at, NEW d, NEW next, NEW v, GivesDiff(m, at, d, next, v), ~Faulting(h, p)
      PROVE \A g \in Host : HostFine(g)'
  <2>1. PICK pg \in PageRecord : pg = pages[h][p]
    BY <1>0 DEF DataTypes
  <2>2. PICK list \in Seq(NoticeRecord) : list = notices[h][p][h]
    BY <1>0 DEF DataTypes
  <2>3. /\ at \in DOMAIN list /\ d \in Page /\ next \in Seq(NoticeRecord) /\ v \in PageRecord
        /\ v = IF list[at].diff = None THEN [pg EXCEPT !.twin = None, !.state = "RDONLY"] ELSE pg
        /\ d = IF list[at].diff = None THEN createLocalDiff(pg.data, pg.twin) ELSE list[at].diff
        /\ list[at].diff = None => pg.state = "WRITE" /\ at = 1
        /\ Filled(list, next, at, d)
        /\ notices' = [notices EXCEPT ![h][p][h] = next]
        /\ pages' = [pages EXCEPT ![h][p] = v]
    BY <1>1, <1>4, <2>1, <2>2 DEF GivesDiff
  <2>4. /\ pg.twin # None <=> pg.state = "WRITE"
        /\ \A i \in DOMAIN list : list[i].diff = None <=> (i = 1 /\ pg.state = "WRITE")
    <3>1. TwinsAt(h, p) /\ (Bare(h, p) <=> pages[h][p].state = "WRITE")
      BY <1>4 DEF MemInv, Twins, Bare, Faulting, FaultPoints
    <3> QED BY <1>4, <2>1, <2>2, <3>1 DEF TwinsAt
  <2>5. DOMAIN next = DOMAIN list /\ (next = << >> <=> list = << >>)
    BY <2>2, <2>3 DEF Filled
  <2>6. /\ v.twin # None <=> v.state = "WRITE"
        /\ v.state = "WRITE" => pg.state = "WRITE"
        /\ \A i \in DOMAIN next : next[i].diff = None <=> (i = 1 /\ v.state = "WRITE")
    <3>1. d # None
      BY <2>3, PageIsSome
    <3>2. CASE list[at].diff = None
      <4>1. v.twin = None /\ v.state = "RDONLY"
        BY <2>3, <3>2 DEF PageRecord
      <4>2. \A i \in DOMAIN next : next[i].diff # None
        BY <2>3, <2>4, <2>5, <3>1, <3>2 DEF Filled
      <4> QED BY <4>1, <4>2
    <3>3. CASE list[at].diff # None
      <4>1. v = pg /\ d = list[at].diff
        BY <2>3, <3>3
      <4>2. \A i \in DOMAIN next : next[i].diff = list[i].diff
        BY <2>3, <2>5, <4>1 DEF Filled
      <4> QED BY <2>4, <2>5, <4>1, <4>2
    <3> QED BY <3>2, <3>3
  <2>7. PICK j \in Host : j = h
    OBVIOUS
  <2>8. /\ DOMAIN next = DOMAIN notices[h][p][j] /\ (next = << >> <=> notices[h][p][j] = << >>)
        /\ v.state = "WRITE" => pages[h][p].state = "WRITE"
        /\ j # h => v.state = pages[h][p].state
    BY <2>1, <2>2, <2>5, <2>6, <2>7
  <2>9. pc'[h] = pc[h] /\ (pc'[h] \in Fetching => pc[h] \in Fetching)
    BY <1>2
  <2>10. v \in PageRecord /\ next \in Seq(NoticeRecord) /\ notices' = [notices EXCEPT ![h][p][j] = next]
         /\ pages' = [pages EXCEPT ![h][p] = v]
    BY <2>3, <2>7
  <2>11. /\ v.twin # None <=> v.state = "WRITE"
         /\ j = h => \A i \in DOMAIN next : next[i].diff = None <=> (i = 1 /\ v.state = "WRITE")
    BY <2>6
  <2>12. ~Faulting(h, p) /\ op' = op /\ \A g \in Host : g # h => SameThread(g)
    BY <1>2, <1>4
  <2> QED BY <2>8, <2>9, <2>10, <2>11, <2>12, PageAndNoticesFine
<1>5. ASSUME NEW at, NEW d, NEW next, NEW v, GivesDiff(m, at, d, next, v), Faulting(h, p)
      PROVE \A g \in Host : HostFine(g)'
  <2>1. pages'[h][p] = pages[h][p] /\ notices'[h][p] = notices[h][p]
    BY <1>2, <1>5 DEF Undisturbed, Faulting, FaultPoints
  <2>2. PICK next2 \in Seq(NoticeRecord), v2 \in PageRecord :
          notices' = [notices EXCEPT ![h][p][h] = next2] /\ pages' = [pages EXCEPT ![h][p] = v2]
    BY <1>1, <1>5 DEF GivesDiff
  <2>3. \A g \in Host, q \in PageIndex : pages'[g][q] = pages[g][q]
    BY <1>0, <2>1, <2>2, DataPage
  <2>4. \A g \in Host, q \in PageIndex, j \in Host : notices'[g][q][j] = notices[g][q][j]
    <3>1. Put3(notices', notices, h, p, h, next2, Host, PageIndex, Host, Seq(NoticeRecord))
      BY <1>0, <2>2, NoticesPut
    <3> QED BY <2>1, <3>1 DEF Put3
  <2> QED BY <1>2, <2>3, <2>4, AllFine, LeftFine DEF MemInv, Left, SamePages, SameNotices, SameThread
<1> QED BY <1>3, <1>4, <1>5, FetchDiffCases

(* handleGrantDiffMsg. *)
LEMMA HandleGrantDiffFine ==
  ASSUME MemInv, NEW m \in msgs, HandleGrantDiff(m)
  PROVE \A g \in Host : HostFine(g)'
<1>0. DataTypes /\ ThreadTypes
  BY DEF MemInv, Types
<1>1. PICK h \in Host, p \in PageIndex, j \in Host :
        h = m.to /\ p = m.body.page /\ j = m.from /\ pc[h] = "diffWait" /\ p = op[h].page
  BY GrantDiffCases
<1>2. pc'[h] = "diff" /\ op' = op /\ \A g \in Host : g # h => SameThread(g)
  BY <1>0, <1>1 DEF HandleGrantDiff, SameThread, ThreadTypes
<1>3. pc[h] \notin FaultPoints /\ pc'[h] \notin FaultPoints /\ pc[h] \in Fetching
  BY <1>1, <1>2 DEF FaultPoints, Fetching
<1>4. CASE NoPlace(m)
  BY <1>2, <1>3, <1>4, NothingDone DEF NoPlace
<1>5. ASSUME NEW at, NEW d, NEW next, NEW v, TakesDiff(m, at, d, next, v)
      PROVE \A g \in Host : HostFine(g)'
  <2>1. PICK pg \in PageRecord : pg = pages[h][p]
    BY <1>0 DEF DataTypes
  <2>2. PICK list \in Seq(NoticeRecord) : list = notices[h][p][j]
    BY <1>0 DEF DataTypes
  <2>3. /\ at \in DOMAIN list /\ next \in Seq(NoticeRecord) /\ v \in PageRecord
        /\ d = IF list[at].diff = None THEN m.body.diff ELSE list[at].diff
        /\ Filled(list, next, at, d)
        /\ v.state = pg.state /\ v.twin = pg.twin
        /\ notices' = [notices EXCEPT ![h][p][j] = next]
        /\ pages' = [pages EXCEPT ![h][p] = v]
    BY <1>1, <1>5, <2>1, <2>2 DEF TakesDiff
  <2>4. TwinsAt(h, p) /\ ~Faulting(h, p) /\ ~Bare(h, p) /\ pg.state # "WRITE"
    <3>1. pg.state # "WRITE"
      BY <1>1, <1>3, <2>1, AllFine DEF HostFine, Cur
    <3> QED BY <1>1, <1>3, <2>1, <3>1 DEF MemInv, Twins, Faulting, FaultPoints, Bare
  <2>5. DOMAIN next = DOMAIN list /\ (next = << >> <=> list = << >>)
    BY <2>2, <2>3 DEF Filled
  <2>6. v.twin # None <=> v.state = "WRITE"
    BY <2>1, <2>3, <2>4 DEF TwinsAt
  <2>7. j = h => \A i \in DOMAIN next : next[i].diff = None <=> (i = 1 /\ v.state = "WRITE")
    <3>1. j = h => \A i \in DOMAIN list : list[i].diff # None
      BY <2>2, <2>4 DEF TwinsAt
    <3>2. j = h => \A i \in DOMAIN list : next[i].diff = list[i].diff
      BY <2>3, <3>1 DEF Filled
    <3> QED BY <2>3, <2>4, <2>5, <3>1, <3>2
  <2> QED BY <1>2, <1>3, <2>1, <2>2, <2>3, <2>4, <2>5, <2>6, <2>7, PageAndNoticesFine
<1> QED BY <1>4, <1>5, GrantDiffCases

(* What Twinned says is what TwinsAt says outside a write fault. *)
LEMMA GainsFine ==
  ASSUME MemInv, NEW h \in Host, NEW own, own = None \/ own \in IntervalRecord,
         NEW packets, NEW base, NEW t, Gains(h, own, packets, base, t), memory' = memory,
         \A g \in Host : g # h => SameThread(g), op' = op,
         pc[h] \notin FaultPoints, pc'[h] \notin FaultPoints, pc'[h] \notin Fetching
  PROVE \A g \in Host : HostFine(g)'
<1>0. DataTypes
  BY DEF MemInv, Types
<1>1. /\ notices'[h] = t.notices /\ pages'[h] = t.pages
      /\ \A g \in Host : g # h => notices'[g] = notices[g] /\ pages'[g] = pages[g]
  BY <1>0, DataGains
<1>2. \A g \in Host : g # h => Left(g)
  BY <1>1 DEF Left, SamePages, SameNotices
<1>3. ASSUME NEW p \in PageIndex PROVE TwinsAt(h, p)'
  <2>1. /\ t.pages[p].twin # None <=> t.pages[p].state = "WRITE"
        /\ \A i \in DOMAIN t.notices[p][h] :
             t.notices[p][h][i].diff = None <=> (i = 1 /\ t.pages[p].state = "WRITE")
        /\ t.pages[p].state = "WRITE" => t.notices[p][h] # << >>
    BY DEF Gains, Twinned, Faulting, FaultPoints
  <2>2. ~Faulting(h, p)' /\ (Bare(h, p)' <=> pages'[h][p].state = "WRITE")
    BY DEF Faulting, Bare, FaultPoints
  <2> QED BY <1>1, <2>1, <2>2 DEF TwinsAt
<1>4. HostFine(h)'
  BY <1>3 DEF HostFine
<1> QED BY <1>2, <1>4, AtOneHost

(* The handlers of messages with packets. *)
LEMMA InformedFine ==
  ASSUME Undisturbed, MemInv, NEW m \in msgs,
         HandleGrantWNI(m) \/ HandleEnterBarrierInfo(m) \/ HandleExitBarrierInfo(m)
  PROVE \A g \in Host : HostFine(g)'
<1>0. ThreadTypes
  BY DEF MemInv, Types
<1>1. CASE HandleGrantWNI(m)
  <2>1. PICK own, base, t : own \in IntervalRecord /\ Gains(m.to, own, m.body.packets, base, t)
    BY <1>1, GrantWNIGains
  <2>2. m.to \in Host /\ memory' = memory /\ op' = op /\ pc[m.to] \notin FaultPoints
    BY <1>1, InformedOf DEF HandleGrantWNI
  <2>3. pc'[m.to] \notin FaultPoints /\ pc'[m.to] \notin Fetching /\ \A g \in Host : g # m.to => SameThread(g)
    BY <1>0, <1>1, <2>2 DEF HandleGrantWNI, ThreadTypes, SameThread, Fetching, FaultPoints
  <2> QED BY <2>1, <2>2, <2>3, GainsFine
<1>2. CASE HandleExitBarrierInfo(m)
  <2>1. PICK own, base, t : own \in IntervalRecord /\ Gains(m.to, own, m.body.packets, base, t)
    BY <1>2, ExitGains
  <2>2. m.to \in Host /\ memory' = memory /\ op' = op /\ pc[m.to] \notin FaultPoints
    BY <1>2, InformedOf DEF HandleExitBarrierInfo
  <2>3. pc'[m.to] \notin FaultPoints /\ pc'[m.to] \notin Fetching /\ \A g \in Host : g # m.to => SameThread(g)
    BY <1>0, <1>2, <2>2 DEF HandleExitBarrierInfo, ThreadTypes, SameThread, Fetching, FaultPoints
  <2> QED BY <2>1, <2>2, <2>3, GainsFine
<1>3. CASE HandleEnterBarrierInfo(m)
  <2>1. PICK base, t, own : own = None /\ Gains(m.to, own, m.body.packets, base, t)
    BY <1>3, EnterGains
  <2>2. m.to \in Host /\ memory' = memory /\ op' = op /\ pc' = pc
    BY <1>3, InformedOf DEF HandleEnterBarrierInfo
  <2>3. notices'[m.to] = t.notices /\ pages'[m.to] = t.pages
    <3>1. DataTypes
      BY DEF MemInv, Types
    <3> QED BY <2>1, <2>2, <3>1, DataGains
  <2>4. \A g \in Host : g # m.to => Left(g)
    BY <2>1, <2>2, DataGains DEF MemInv, Types, Left, SamePages, SameNotices, SameThread
  <2>5. ASSUME NEW p \in PageIndex PROVE TwinsAt(m.to, p)'
    <3>1. TwinsAt(m.to, p)
      BY <2>2 DEF MemInv, Twins
    <3>2. (Faulting(m.to, p)' <=> Faulting(m.to, p)) /\ op'[m.to] = op[m.to] /\ pc'[m.to] = pc[m.to]
      BY <2>2 DEF Faulting
    <3>3. CASE Faulting(m.to, p)
      <4>1. pages'[m.to][p] = pages[m.to][p] /\ notices'[m.to][p] = notices[m.to][p]
        BY <2>2, <3>3 DEF Undisturbed, Faulting, FaultPoints
      <4> QED BY <3>1, <3>2, <4>1 DEF TwinsAt, Bare
    <3>4. CASE ~Faulting(m.to, p)
      <4>1. /\ t.pages[p].twin # None <=> t.pages[p].state = "WRITE"
            /\ \A i \in DOMAIN t.notices[p][m.to] :
                 t.notices[p][m.to][i].diff = None <=> (i = 1 /\ t.pages[p].state = "WRITE")
            /\ t.pages[p].state = "WRITE" => t.notices[p][m.to] # << >>
        BY <2>1, <3>4 DEF Gains, Twinned
      <4>2. Bare(m.to, p)' <=> pages'[m.to][p].state = "WRITE"
        BY <2>2, <3>4 DEF Faulting, Bare, FaultPoints
      <4> QED BY <2>3, <3>2, <3>4, <4>1, <4>2 DEF TwinsAt
    <3> QED BY <3>3, <3>4
  <2>6. ASSUME pc'[m.to] \in Fetching PROVE Cur(m.to)'.state # "WRITE"
    <3>1. op[m.to].page \in PageIndex /\ Cur(m.to).state # "WRITE"
      BY <2>2, <2>6, OpPage, AllFine DEF HostFine, MemInv, Fetching
    <3>2. t.pages[op[m.to].page].state = "WRITE" => base.pages[op[m.to].page].state = "WRITE"
      BY <2>1, <3>1 DEF Gains, Learned, NewPages
    <3>3. base.pages = pages[m.to]
      BY <2>1 DEF Gains, Based
    <3> QED BY <2>2, <2>3, <3>1, <3>2, <3>3 DEF Cur
  <2>7. HostFine(m.to)'
    BY <2>5, <2>6 DEF HostFine, Cur
  <2> QED BY <2>2, <2>4, <2>7, AtOneHost
<1> QED BY <1>1, <1>2, <1>3

(* The end of a barrier at host 0. *)
LEMMA CompleteBarrierFine ==
  ASSUME MemInv, CompleteBarrier
  PROVE \A g \in Host : HostFine(g)'
<1>0. ThreadTypes /\ 0 \in Host
  BY ZeroHost DEF MemInv, Types
<1>1. PICK own, base, t, packets : own \in IntervalRecord /\ Gains(0, own, packets, base, t)
  BY CompleteGains
<1>2. memory' = memory /\ op' = op
  BY DEF CompleteBarrier
<1>3. pc[0] \notin FaultPoints /\ pc'[0] \notin FaultPoints /\ pc'[0] \notin Fetching /\ \A g \in Host : g # 0 => SameThread(g)
  BY <1>0, AllEntered DEF CompleteBarrier, ThreadTypes, SameThread, Fetching, FaultPoints
<1> QED BY <1>0, <1>1, <1>2, <1>3, GainsFine

(* No step breaks Twins. *)
LEMMA TwinsStep ==
  ASSUME Undisturbed, MemInv, [Next]_vars
  PROVE Twins' /\ NotWriting'
<1> DEFINE Fine == \A g \in Host : HostFine(g)'
<1>1. ASSUME NEW h \in Host, Begin(h) \/ EnterBarrier(h) PROVE Fine
  BY <1>1, QuietFine
<1>2. ASSUME NEW h \in Host, Main(h) PROVE Fine
  BY <1>2, QuietFine, ResolvedFine, FaultTwinFine, FaultNoticeFine, FaultWritableFine, AccessFine DEF Main
<1>3. ASSUME NEW m \in msgs, Dispatch(m) PROVE Fine
  <2>1. CASE HandleFetchWNI(m)
    BY <2>1, UntouchedFine DEF HandleFetchWNI, mem
  <2> QED BY <1>3, <2>1, HandleFetchPageFine, HandleGrantPageFine, HandleFetchDiffFine,
             HandleGrantDiffFine, InformedFine DEF Dispatch
<1>4. ASSUME CompleteBarrier PROVE Fine
  BY <1>4, CompleteBarrierFine
<1>5. ASSUME UNCHANGED vars PROVE Fine
  BY <1>5, UntouchedFine DEF vars
<1>6. Fine
  <2> HIDE DEF Fine
  <2>1. CASE Next
    BY <1>1, <1>2, <1>3, <1>4, <2>1 DEF Next
  <2> QED BY <1>5, <2>1
<1> QED BY <1>6 DEF HostFine, Twins, NotWriting, Fetching

-----------------------------------------------------------------------------
(* Protection: what the program may do with a page is what its state says.   *)

(* A host whose pages, rights and thread a step leaves alone. *)
LEMMA LeftGuarded ==
  ASSUME MemInv, NEW g \in Host, SamePages(g), SameThread(g), prot'[g] = prot[g]
  PROVE Guarded(g)'
<1>1. Guarded(g) /\ Types
  BY DEF MemInv, Protected
<1>2. pc'[g] = pc[g] /\ op'[g] = op[g]
  BY DEF SameThread
<1>3. \A p \in PageIndex : Allowed(g, p)' <=> Allowed(g, p)
  BY DEF Allowed, SamePages
<1>4. pc[g] \in {"tested", "readable", "written"} => Cur(g)' = Cur(g)
  <2>1. pc[g] \in {"tested", "readable", "written"} => op[g].page \in PageIndex
    BY <1>1, OpPage
  <2> QED BY <1>2, <2>1 DEF SamePages, Cur
<1> QED BY <1>1, <1>2, <1>3, <1>4 DEF Guarded

(* A step of the thread that leaves pages and rights alone. *)
LEMMA ThreadGuarded ==
  ASSUME MemInv, NEW h \in Host, UNCHANGED <<pages, prot>>, turn' \in [Host -> Nat],
         \A g \in Host : g # h => SameThread(g),
         pc[h] \in OnItsWay => pc'[h] \in OnItsWay /\ op'[h] = op[h],
         pc'[h] \notin {"readable", "written"},
         pc'[h] = "tested" => Cur(h)'.state = "RDONLY"
  PROVE Protected'
<1>1. prot \in [Host -> [PageIndex -> Rights]] /\ Guarded(h)
  BY DEF MemInv, Protected
<1>2. \A g \in Host : g # h => Guarded(g)'
  BY LeftGuarded DEF SamePages
<1>3. \A p \in PageIndex : Allowed(h, p)' <=> Allowed(h, p)
  BY DEF Allowed
<1>4. Guarded(h)'
  BY <1>1, <1>3 DEF Guarded
<1> QED BY <1>1, <1>2, <1>4 DEF Protected

(* A step of host h puts v and the rights q at one page, in keeping with its  *)
(* thread.                                                                   *)
Puts(h, p, v, q) ==
  /\ v \in PageRecord /\ q \in Rights
  /\ pages' = [pages EXCEPT ![h][p] = v] /\ prot' = [prot EXCEPT ![h][p] = q]

InKeeping(h, p, v, q) ==
  /\ turn' \in [Host -> Nat] /\ op'[h] = op[h]
  /\ \A g \in Host : g # h => SameThread(g)
  /\ p = op[h].page \/ pc'[h] = pc[h]
  /\ p = op[h].page => /\ pc'[h] \in {"tested", "readable"} => v.state = "RDONLY"
                       /\ pc'[h] = "written" => v.state = "WRITE"
  /\ \/ p = op[h].page /\ pc'[h] \in OnItsWay
     \/ /\ q = "WRITE" => v.state = "WRITE"
        /\ q = "READ" => v.state \in {"RDONLY", "WRITE"}

(* Such a step keeps Protected. *)
LEMMA PageGuarded ==
  ASSUME MemInv, NEW h \in Host, NEW p \in PageIndex, NEW v, NEW q,
         Puts(h, p, v, q), InKeeping(h, p, v, q)
  PROVE Protected'
<1> USE DEF Puts, InKeeping
<1>0. DataTypes /\ Types /\ prot \in [Host -> [PageIndex -> Rights]] /\ Guarded(h)
  BY DEF MemInv, Types, Protected
<1>1. \A g \in Host, r \in PageIndex : pages'[g][r] = IF g = h /\ r = p THEN v ELSE pages[g][r]
  BY <1>0, DataPage
<1>2. /\ prot' \in [Host -> [PageIndex -> Rights]]
      /\ \A g \in Host, r \in PageIndex : prot'[g][r] = IF g = h /\ r = p THEN q ELSE prot[g][r]
  BY <1>0, Update2, Zenon
<1>3. \A g \in Host : g # h => Guarded(g)'
  <2> TAKE g \in Host
  <2>1. g # h => prot'[g] = prot[g]
    BY <1>0
  <2>2. g # h => SamePages(g)
    BY <1>1 DEF SamePages
  <2> QED BY <2>1, <2>2, LeftGuarded
<1>4. \A r \in PageIndex : Allowed(h, r)' \/ (r = op'[h].page /\ pc'[h] \in OnItsWay)
  <2> TAKE r \in PageIndex
  <2>1. CASE r = p
    <3>1. pages'[h][r] = v /\ prot'[h][r] = q
      BY <1>1, <1>2, <2>1
    <3> QED BY <2>1, <3>1 DEF Allowed
  <2>2. CASE r # p
    <3>1. pages'[h][r] = pages[h][r] /\ prot'[h][r] = prot[h][r]
      BY <1>1, <1>2, <2>2
    <3>2. Allowed(h, r)' <=> Allowed(h, r)
      BY <3>1 DEF Allowed
    <3> QED BY <1>0, <2>2, <3>2 DEF Guarded
  <2> QED BY <2>1, <2>2
<1>5. ASSUME pc'[h] \in {"tested", "readable", "written"}
      PROVE Cur(h)'.state = IF pc'[h] = "written" THEN "WRITE" ELSE "RDONLY"
  <2>1. CASE p = op[h].page
    BY <1>1, <1>5, <2>1 DEF Cur
  <2>2. CASE p # op[h].page
    <3>1. op[h].page \in PageIndex
      BY <1>0, <1>5, <2>2, OpPage
    <3>2. pages'[h][op[h].page] = pages[h][op[h].page]
      BY <1>1, <2>2, <3>1
    <3> QED BY <1>0, <1>5, <2>2, <3>2 DEF Guarded, Cur
  <2> QED BY <2>1, <2>2
<1>6. Guarded(h)'
  BY <1>4, <1>5 DEF Guarded
<1> QED BY <1>2, <1>3, <1>6 DEF Protected

(* The steps of the threads. *)
LEMMA MainProtected ==
  ASSUME MemInv, Types', NEW h \in Host, Begin(h) \/ Main(h) \/ EnterBarrier(h)
  PROVE Protected'
<1>0. ThreadTypes /\ DataTypes /\ turn \in [Host -> Nat] /\ prot \in [Host -> [PageIndex -> Rights]]
      /\ Guarded(h)
  BY DEF MemInv, Types, Protected
<1>1. CASE \/ Begin(h) \/ EnterBarrier(h) \/ FaultMiss(h) \/ FaultInvalid(h) \/ ReadNotices(h)
           \/ FetchDiff(h) \/ FaultWrite(h) \/ FaultNotice(h) \/ End(h)
  <2>0. UNCHANGED <<pages, prot>>
    BY <1>1 DEF Begin, EnterBarrier, FaultMiss, FaultInvalid, ReadNotices, FetchDiff, FaultWrite,
         FaultNotice, End, mem
  <2>5. turn' \in [Host -> Nat]
    <3>1. turn' = turn \/ turn' = [turn EXCEPT ![h] = @ + 1]
      BY <1>1 DEF Begin, EnterBarrier, FaultMiss, FaultInvalid, ReadNotices, FetchDiff, FaultWrite,
           FaultNotice, End
    <3> QED BY <1>0, <3>1
  <2>6. \A g \in Host : g # h => SameThread(g)
    BY <1>0, <1>1 DEF Begin, EnterBarrier, FaultMiss, FaultInvalid, ReadNotices, FetchDiff, FaultWrite,
         FaultNotice, End, ThreadTypes, SameThread
  <2>1. UNCHANGED <<pages, prot>> /\ turn' \in [Host -> Nat] /\ \A g \in Host : g # h => SameThread(g)
    BY <2>0, <2>5, <2>6
  <2>2. pc[h] \in OnItsWay => pc'[h] \in OnItsWay /\ op'[h] = op[h]
    BY <1>0, <1>1 DEF Begin, EnterBarrier, FaultMiss, FaultInvalid, ReadNotices, FetchDiff, FaultWrite,
         FaultNotice, End, Running, ThreadTypes, OnItsWay
  <2>3. pc'[h] \notin {"readable", "written"} /\ (pc'[h] = "tested" => FaultWrite(h))
    BY <1>0, <1>1 DEF Begin, EnterBarrier, FaultMiss, FaultInvalid, ReadNotices, FetchDiff,
         FaultNotice, FaultWrite, End, Running, ThreadTypes
  <2>4. pc'[h] = "tested" => Cur(h)'.state = "RDONLY"
    BY <2>1, <2>3 DEF FaultWrite, Cur
  <2> QED BY <2>1, <2>2, <2>3, <2>4, ThreadGuarded
<1>2. CASE \/ Resolved(h) \/ FaultTwin(h) \/ FaultWritable(h) \/ FaultProtect(h) \/ Access(h)
  <2>0. pc[h] \notin {"app", "barrier"}
    BY <1>2 DEF Resolved, FaultTwin, FaultWritable, FaultProtect, Access, Running
  <2>1. PICK p \in PageIndex : p = op[h].page /\ pages[h][p] \in PageRecord /\ Cur(h) = pages[h][p]
    BY <2>0, AtPage
  <2>2. PICK pg \in PageRecord : pg = pages[h][p]
    BY <2>1
  <2>3. op' = op /\ turn' \in [Host -> Nat] /\ \A g \in Host : g # h => SameThread(g)
    <3>1. op' = op /\ (turn' = turn \/ turn' = [turn EXCEPT ![h] = 0])
      BY <1>2 DEF Resolved, FaultTwin, FaultWritable, FaultProtect, Access
    <3>2. \A g \in Host : g # h => pc'[g] = pc[g]
      BY <1>0, <1>2 DEF Resolved, FaultTwin, FaultWritable, FaultProtect, Access, ThreadTypes
    <3> QED BY <1>0, <3>1, <3>2 DEF SameThread
  <2>4. prot[h][p] \in Rights
    BY <1>0
  <2>5. prot' = prot => prot' = [prot EXCEPT ![h][p] = prot[h][p]]
    BY <1>0
  <2>6. pages' \in [Host -> [PageIndex -> PageRecord]]
    BY DEF Types, DataTypes
  <2>7. CASE Resolved(h)
    <3>1. PICK v : v = [pg EXCEPT !.state = "RDONLY"]
      OBVIOUS
    <3>2. v \in PageRecord /\ v.state = "RDONLY"
      BY <3>1 DEF PageRecord
    <3>3. pages' = [pages EXCEPT ![h][p] = v] /\ prot' = prot /\ pc'[h] = "readable"
      BY <1>0, <2>1, <2>2, <2>7, <3>1 DEF Resolved, ThreadTypes
    <3>4. Puts(h, p, v, prot[h][p])
      BY <2>4, <2>5, <3>2, <3>3 DEF Puts
    <3>5. InKeeping(h, p, v, prot[h][p])
      BY <2>1, <2>3, <3>2, <3>3 DEF OnItsWay, InKeeping
    <3> QED BY <3>4, <3>5, PageGuarded
  <2>8. CASE FaultTwin(h)
    <3>1. PICK v : v = createTwinPage(pg)
      OBVIOUS
    <3>2. v \in PageRecord /\ v.state = pg.state
      BY <3>1 DEF PageRecord, createTwinPage
    <3>3. /\ pages' = [pages EXCEPT ![h][p] = v] /\ prot' = prot /\ pc[h] = "tested"
          /\ pc'[h] = "twinned"
      BY <1>0, <2>1, <2>2, <2>8, <3>1 DEF FaultTwin, Running, ThreadTypes
    <3>4. Allowed(h, p)
      BY <1>0, <3>3 DEF Guarded, OnItsWay
    <3>5. Puts(h, p, v, prot[h][p])
      BY <2>4, <2>5, <3>2, <3>3 DEF Puts
    <3>6. InKeeping(h, p, v, prot[h][p])
      BY <2>1, <2>2, <2>3, <3>2, <3>3, <3>4 DEF Allowed, InKeeping
    <3> QED BY <3>5, <3>6, PageGuarded
  <2>9. CASE FaultWritable(h)
    <3>1. PICK v : v = [pg EXCEPT !.state = "WRITE"]
      OBVIOUS
    <3>2. v \in PageRecord /\ v.state = "WRITE"
      BY <3>1 DEF PageRecord
    <3>3. pages' = [pages EXCEPT ![h][p] = v] /\ prot' = prot /\ pc'[h] = "written"
      BY <1>0, <2>1, <2>2, <2>9, <3>1 DEF FaultWritable, ThreadTypes
    <3>4. Puts(h, p, v, prot[h][p])
      BY <2>4, <2>5, <3>2, <3>3 DEF Puts
    <3>5. InKeeping(h, p, v, prot[h][p])
      BY <2>1, <2>3, <3>2, <3>3 DEF OnItsWay, InKeeping
    <3> QED BY <3>4, <3>5, PageGuarded
  <2>10. CASE FaultProtect(h)
    <3>1. PICK q \in Rights : q = IF pc[h] = "readable" THEN "READ" ELSE "WRITE"
      BY DEF Rights
    <3>2. /\ pages' = [pages EXCEPT ![h][p] = pg] /\ prot' = [prot EXCEPT ![h][p] = q]
          /\ pc[h] \in {"readable", "written"} /\ pc'[h] = "access"
      BY <1>0, <2>1, <2>2, <2>10, <3>1 DEF FaultProtect, Running, ThreadTypes, DataTypes
    <3>3. (q = "WRITE" => pg.state = "WRITE") /\ (q = "READ" => pg.state = "RDONLY")
      BY <1>0, <2>1, <2>2, <3>1, <3>2 DEF Guarded
    <3>4. Puts(h, p, pg, q)
      BY <3>2 DEF Puts
    <3>5. InKeeping(h, p, pg, q)
      BY <2>1, <2>3, <3>2, <3>3 DEF InKeeping
    <3> QED BY <3>4, <3>5, PageGuarded
  <2>11. CASE Access(h)
    <3>1. prot' = prot /\ pc[h] = "access" /\ pc'[h] = "done"
      BY <1>0, <2>11 DEF Access, Running, ThreadTypes
    <3>2. \E v : v.state = pg.state /\ pages' = [pages EXCEPT ![h][p] = v]
      <4>1. CASE op[h].inc
        <5>1. PICK v : v = [pg EXCEPT !.data[op[h].cell] = (@ + 1) % BYTE]
          OBVIOUS
        <5>2. v.state = pg.state
          BY <5>1 DEF PageRecord
        <5>3. pages' = [pages EXCEPT ![h][p].data[op[h].cell] = (@ + 1) % BYTE]
          BY <2>1, <2>11, <4>1 DEF Access
        <5>4. pages' = [pages EXCEPT ![h][p] = v]
          BY <2>2, <5>1, <5>3
        <5> QED BY <5>2, <5>4
      <4>2. CASE ~op[h].inc
        <5>1. pages' = pages
          BY <2>11, <4>2 DEF Access
        <5>2. pages' = [pages EXCEPT ![h][p] = pg]
          BY <1>0, <2>2, <5>1 DEF DataTypes
        <5> QED BY <5>2
      <4> QED BY <4>1, <4>2
    <3>3. PICK v : v.state = pg.state /\ pages' = [pages EXCEPT ![h][p] = v]
      BY <3>2
    <3>4. v \in PageRecord
      BY <1>0, <2>6, <3>3 DEF DataTypes
    <3>5. Allowed(h, p)
      BY <1>0, <3>1 DEF Guarded, OnItsWay
    <3>6. Puts(h, p, v, prot[h][p])
      BY <2>4, <2>5, <3>1, <3>3, <3>4 DEF Puts
    <3>7. InKeeping(h, p, v, prot[h][p])
      BY <2>1, <2>2, <2>3, <3>1, <3>3, <3>5 DEF Allowed, InKeeping
    <3> QED BY <3>6, <3>7, PageGuarded
  <2> QED BY <1>2, <2>7, <2>8, <2>9, <2>10, <2>11
<1> QED BY <1>1, <1>2 DEF Main

(* The handlers for pages and diffs. *)
LEMMA PageHandlersProtected ==
  ASSUME Undisturbed, MemInv, Types', NEW m \in msgs,
         HandleFetchPage(m) \/ HandleFetchDiff(m) \/ HandleGrantPage(m) \/ HandleGrantDiff(m)
  PROVE Protected'
<1>0. ThreadTypes /\ DataTypes /\ turn \in [Host -> Nat] /\ prot \in [Host -> [PageIndex -> Rights]]
      /\ Types /\ m.to \in Host /\ Guarded(m.to)
  BY Letters DEF MemInv, Types, Protected
<1>1. op' = op /\ turn' = turn
  BY DEF HandleFetchPage, HandleFetchDiff, HandleGrantPage, HandleGrantDiff
<1>2. CASE HandleFetchPage(m)
  <2>1. PICK h \in Host, p \in PageIndex : h = m.to /\ p = m.body
    BY <1>2, HandleFetchPageDoes
  <2>2. PICK v \in PageRecord :
           /\ v.state = pages[h][p].state \/ (v.state = "RDONLY" /\ pages[h][p].state = "INVALID")
           /\ pages' = [pages EXCEPT ![h][p] = v]
           /\ prot' = [prot EXCEPT ![h][p] = IF v.state = pages[h][p].state THEN @ ELSE "READ"]
    BY <1>2, <2>1, HandleFetchPageDoes
  <2>3. PICK q : q = IF v.state = pages[h][p].state THEN prot[h][p] ELSE "READ"
    OBVIOUS
  <2>4. q \in Rights /\ prot' = [prot EXCEPT ![h][p] = q]
    BY <1>0, <2>2, <2>3 DEF Rights
  <2>5. pc' = pc /\ \A g \in Host : SameThread(g)
    BY <1>1, <1>2 DEF HandleFetchPage, SameThread
  <2>6. p = op[h].page => /\ pc[h] \in {"tested", "readable"} => v.state = "RDONLY"
                          /\ pc[h] = "written" => v.state = "WRITE"
    BY <1>0, <2>1, <2>2 DEF Guarded, Cur
  <2>7. \/ p = op[h].page /\ pc[h] \in OnItsWay
        \/ /\ q = "WRITE" => v.state = "WRITE"
           /\ q = "READ" => v.state \in {"RDONLY", "WRITE"}
    BY <1>0, <2>1, <2>2, <2>3 DEF Guarded, Allowed
  <2>8. Puts(h, p, v, q)
    BY <2>2, <2>4 DEF Puts
  <2>9. InKeeping(h, p, v, q)
    BY <1>0, <1>1, <2>5, <2>6, <2>7 DEF InKeeping
  <2> QED BY <2>8, <2>9, PageGuarded
<1>3. CASE HandleFetchDiff(m)
  <2>1. PICK h \in Host, p \in PageIndex : h = m.to /\ p = m.body.page
    BY <1>3, FetchDiffCases
  <2>2. pc' = pc /\ \A g \in Host : SameThread(g)
    BY <1>1, <1>3 DEF HandleFetchDiff, SameThread
  <2>3. PICK pg \in PageRecord : pg = pages[h][p]
    BY <1>0 DEF DataTypes
  <2>4. \E v \in PageRecord, q \in Rights :
          /\ pages' = [pages EXCEPT ![h][p] = v] /\ prot' = [prot EXCEPT ![h][p] = q]
          /\ \/ v = pg /\ q = prot[h][p]
             \/ v.state = "RDONLY" /\ pg.state = "WRITE" /\ q = "READ"
    <3>1. CASE NoDiff(m)
      <4>1. pages' = [pages EXCEPT ![h][p] = pg] /\ prot' = [prot EXCEPT ![h][p] = prot[h][p]]
        BY <1>0, <2>3, <3>1 DEF NoDiff, DataTypes
      <4> QED BY <1>0, <4>1
    <3>2. CASE \E at, d, next, v : GivesDiff(m, at, d, next, v)
      <4>1. PICK at, d, next, v : GivesDiff(m, at, d, next, v)
        BY <3>2
      <4>2. PICK x : x = notices[h][p][h][at].diff
        OBVIOUS
      <4>3. /\ v \in PageRecord /\ v = IF x = None THEN [pg EXCEPT !.twin = None, !.state = "RDONLY"] ELSE pg
            /\ x = None => pg.state = "WRITE"
            /\ pages' = [pages EXCEPT ![h][p] = v]
            /\ prot' = [prot EXCEPT ![h][p] = IF x = None THEN "READ" ELSE @]
        BY <2>1, <2>3, <4>1, <4>2 DEF GivesDiff
      <4>4. PICK q \in Rights : q = IF x = None THEN "READ" ELSE prot[h][p]
        BY <1>0 DEF Rights
      <4>5. prot' = [prot EXCEPT ![h][p] = q]
        BY <1>0, <4>3, <4>4
      <4>6. x = None => v.state = "RDONLY"
        BY <4>3 DEF PageRecord
      <4> QED BY <4>3, <4>4, <4>5, <4>6
    <3> QED BY <1>3, <3>1, <3>2, FetchDiffCases
  <2>5. PICK v \in PageRecord, q \in Rights :
          /\ pages' = [pages EXCEPT ![h][p] = v] /\ prot' = [prot EXCEPT ![h][p] = q]
          /\ \/ v = pg /\ q = prot[h][p]
             \/ v.state = "RDONLY" /\ pg.state = "WRITE" /\ q = "READ"
    BY <2>4
  <2>6. p = op[h].page /\ pc[h] \in FaultPoints => v = pg
    <3>1. pages'[h][p] = v
      BY <1>0, <2>5 DEF DataTypes
    <3> QED BY <2>2, <2>3, <3>1 DEF Undisturbed
  <2>7. p = op[h].page => /\ pc[h] \in {"tested", "readable"} => v.state = "RDONLY"
                          /\ pc[h] = "written" => v.state = "WRITE"
    BY <1>0, <2>1, <2>3, <2>6 DEF Guarded, Cur, FaultPoints
  <2>8. \/ p = op[h].page /\ pc[h] \in OnItsWay
        \/ /\ q = "WRITE" => v.state = "WRITE"
           /\ q = "READ" => v.state \in {"RDONLY", "WRITE"}
    BY <1>0, <2>1, <2>3, <2>5 DEF Guarded, Allowed
  <2>9. Puts(h, p, v, q)
    BY <2>5 DEF Puts
  <2>10. InKeeping(h, p, v, q)
    BY <1>0, <1>1, <2>2, <2>7, <2>8 DEF InKeeping
  <2> QED BY <2>9, <2>10, PageGuarded
<1>4. CASE HandleGrantPage(m)
  <2>1. m \in Message /\ m.command = "GRANT_PAGE" /\ Expected(m)
    BY <1>4, Handles DEF MemInv, HandleGrantPage
  <2>2. PICK h \in Host, p \in PageIndex, x \in Page : h = m.to /\ p = m.body.page /\ x = m.body.data
    BY <1>0, <2>1, Letters
  <2>3. op[h].page = p /\ pc'[h] = "pageGot" /\ \A g \in Host : g # h => SameThread(g)
    BY <1>0, <1>4, <2>1, <2>2 DEF Expected, Client, Request, HandleGrantPage, ThreadTypes, SameThread
  <2>4. PICK ts \in Stamp : ts = now[h]
    BY <1>0 DEF DataTypes
  <2>5. PICK pg \in PageRecord : pg = pages[h][p]
    BY <1>0 DEF DataTypes
  <2>6. PICK v : v = [pg EXCEPT !.data = x, !.start = ts]
    OBVIOUS
  <2>7. v \in PageRecord
    BY <2>6 DEF PageRecord
  <2>8. pages' = [pages EXCEPT ![h][p] = v]
    <3>1. pages' = [pages EXCEPT ![h][p].data = x, ![h][p].start = ts]
      BY <1>4, <2>2, <2>4 DEF HandleGrantPage
    <3> QED BY <1>0, <2>5, <2>6, <3>1 DEF DataTypes
  <2>9. PICK q \in Rights : q = "WRITE" /\ prot' = [prot EXCEPT ![h][p] = q]
    BY <1>4, <2>2 DEF HandleGrantPage, Rights
  <2>10. Puts(h, p, v, q)
    BY <2>7, <2>8, <2>9 DEF Puts
  <2>11. InKeeping(h, p, v, q)
    BY <1>0, <1>1, <2>3 DEF OnItsWay, InKeeping
  <2> QED BY <2>10, <2>11, PageGuarded
<1>5. CASE HandleGrantDiff(m)
  <2>1. m \in Message /\ m.command = "GRANT_DIFF" /\ Expected(m)
    BY <1>5, Handles DEF MemInv, HandleGrantDiff
  <2>2. PICK h \in Host, p \in PageIndex : h = m.to /\ p = m.body.page
    BY <1>0, <2>1, Letters
  <2>3. op[h].page = p /\ pc'[h] = "diff" /\ \A g \in Host : g # h => SameThread(g)
    BY <1>0, <1>5, <2>1, <2>2 DEF Expected, Client, Request, HandleGrantDiff, ThreadTypes, SameThread
  <2>4. \E q \in Rights : prot' = [prot EXCEPT ![h][p] = q]
    <3>1. prot' = prot \/ prot' = [prot EXCEPT ![h][p] = "NONE"]
      BY <1>5, <2>2 DEF HandleGrantDiff
    <3>2. prot' = prot => prot' = [prot EXCEPT ![h][p] = prot[h][p]]
      BY <1>0
    <3> QED BY <1>0, <3>1, <3>2 DEF Rights
  <2>5. \E v \in PageRecord : pages' = [pages EXCEPT ![h][p] = v]
    <3>1. CASE NoPlace(m)
      <4>1. PICK pg \in PageRecord : pg = pages[h][p]
        BY <1>0, <2>2 DEF DataTypes
      <4>2. pages' = [pages EXCEPT ![h][p] = pg]
        BY <1>0, <3>1, <4>1 DEF NoPlace, DataTypes
      <4> QED BY <4>2
    <3>2. CASE \E at, d, next, v : TakesDiff(m, at, d, next, v)
      BY <2>2, <3>2 DEF TakesDiff
    <3>3. DataTypes
      BY <1>0
    <3> QED BY <1>5, <2>1, <3>1, <3>2, <3>3, HandleGrantDiffDoes
  <2>6. PICK v, q : Puts(h, p, v, q)
    BY <2>4, <2>5 DEF Puts
  <2>7. InKeeping(h, p, v, q)
    BY <1>0, <1>1, <2>3 DEF OnItsWay, InKeeping
  <2> QED BY <2>6, <2>7, PageGuarded
<1> QED BY <1>2, <1>3, <1>4, <1>5

(* A host that takes notices in protects the pages they name. *)
LEMMA GainsGuarded ==
  ASSUME MemInv, NEW h \in Host, NEW own, own = None \/ own \in IntervalRecord,
         NEW packets, NEW base, NEW t, Gains(h, own, packets, base, t), memory' = memory,
         turn' = turn, op' = op, \A g \in Host : g # h => SameThread(g),
         pc[h] \in OnItsWay => pc'[h] \in OnItsWay,
         pc'[h] \in {"tested", "readable", "written"} => pc'[h] = pc[h] /\ Cur(h)' = Cur(h)
  PROVE Protected'
<1>0. DataTypes /\ prot \in [Host -> [PageIndex -> Rights]] /\ turn \in [Host -> Nat] /\ Guarded(h)
  BY DEF MemInv, Types, Protected
<1>1. pages'[h] = t.pages /\ \A g \in Host : g # h => pages'[g] = pages[g]
  <2>1. DataTypes
    BY <1>0
  <2> QED BY <2>1, DataGains
<1>2. PICK f : f = ProtectedAs(h, t.pages)
  OBVIOUS
<1>3. /\ f \in [PageIndex -> Rights]
      /\ \A p \in PageIndex :
           f[p] = IF t.pages[p].state = "INVALID" /\ pages[h][p].state # "INVALID" THEN "NONE" ELSE prot[h][p]
  BY <1>0, <1>2 DEF ProtectedAs, Rights
<1>4. prot' = [prot EXCEPT ![h] = f]
  BY <1>2 DEF Gains
<1>5. prot' \in [Host -> [PageIndex -> Rights]] /\ prot'[h] = f
      /\ \A g \in Host : g # h => prot'[g] = prot[g]
  BY <1>0, <1>3, <1>4
<1>6. \A p \in PageIndex : t.pages[p].state \in {pages[h][p].state, "INVALID"}
  BY DEF Gains, Based, Learned, NewPages
<1>7. ASSUME NEW p \in PageIndex, Allowed(h, p) PROVE Allowed(h, p)'
  <2>1. pages'[h][p] = t.pages[p] /\ prot'[h][p] = f[p]
    BY <1>1, <1>5
  <2> QED BY <1>3, <1>6, <1>7, <2>1 DEF Allowed
<1>8. Guarded(h)'
  BY <1>0, <1>7 DEF Guarded
<1>9. \A g \in Host : g # h => Guarded(g)'
  BY <1>1, <1>5, LeftGuarded DEF SamePages
<1> QED BY <1>0, <1>5, <1>8, <1>9 DEF Protected

(* The handlers of messages with packets, and the end of a barrier at host 0. *)
LEMMA InformedProtected ==
  ASSUME Undisturbed, MemInv, NEW m,
         \/ m \in msgs /\ (HandleGrantWNI(m) \/ HandleEnterBarrierInfo(m) \/ HandleExitBarrierInfo(m))
         \/ CompleteBarrier
  PROVE Protected'
<1>0. ThreadTypes /\ Types
  BY DEF MemInv, Types
<1>1. ASSUME m \in msgs, HandleGrantWNI(m) PROVE Protected'
  <2>1. PICK own, base, t : own \in IntervalRecord /\ Gains(m.to, own, m.body.packets, base, t)
    BY <1>1, GrantWNIGains
  <2>2. m.to \in Host /\ memory' = memory /\ op' = op /\ turn' = turn /\ pc[m.to] = "wni"
        /\ pc'[m.to] = "access"
    BY <1>0, <1>1, InformedOf DEF HandleGrantWNI, Expected, Client, Request, ThreadTypes
  <2>3. \A g \in Host : g # m.to => SameThread(g)
    BY <1>0, <1>1, <2>2 DEF HandleGrantWNI, ThreadTypes, SameThread
  <2> QED BY <2>1, <2>2, <2>3, GainsGuarded DEF OnItsWay
<1>2. ASSUME m \in msgs, HandleExitBarrierInfo(m) PROVE Protected'
  <2>1. PICK own, base, t : own \in IntervalRecord /\ Gains(m.to, own, m.body.packets, base, t)
    BY <1>2, ExitGains
  <2>2. m.to \in Host /\ memory' = memory /\ op' = op /\ turn' = turn /\ pc[m.to] = "barrier"
        /\ pc'[m.to] = "app"
    BY <1>0, <1>2, InformedOf DEF HandleExitBarrierInfo, Expected, Client, Request, ThreadTypes
  <2>3. \A g \in Host : g # m.to => SameThread(g)
    BY <1>0, <1>2, <2>2 DEF HandleExitBarrierInfo, ThreadTypes, SameThread
  <2> QED BY <2>1, <2>2, <2>3, GainsGuarded DEF OnItsWay
<1>3. ASSUME m \in msgs, HandleEnterBarrierInfo(m) PROVE Protected'
  <2>1. PICK base, t, own : own = None /\ Gains(m.to, own, m.body.packets, base, t)
    BY <1>3, EnterGains
  <2>2. m.to \in Host /\ memory' = memory /\ op' = op /\ turn' = turn /\ pc' = pc
    BY <1>3, InformedOf DEF HandleEnterBarrierInfo
  <2>3. pc[m.to] \in {"tested", "readable", "written"} => Cur(m.to)' = Cur(m.to)
    BY <2>2 DEF Undisturbed, FaultPoints, Cur
  <2>4. \A g \in Host : g # m.to => SameThread(g)
    BY <2>2 DEF SameThread
  <2> QED BY <2>1, <2>2, <2>3, <2>4, GainsGuarded
<1>4. ASSUME CompleteBarrier PROVE Protected'
  <2>1. PICK own, base, t, packets : own \in IntervalRecord /\ Gains(0, own, packets, base, t)
    BY <1>4, CompleteGains
  <2>2. 0 \in Host /\ memory' = memory /\ op' = op /\ turn' = turn /\ pc[0] = "barrier" /\ pc'[0] = "app"
    BY <1>0, <1>4, ZeroHost, AllEntered DEF CompleteBarrier, ThreadTypes
  <2>3. \A g \in Host : g # 0 => SameThread(g)
    BY <1>0, <1>4, <2>2 DEF CompleteBarrier, ThreadTypes, SameThread
  <2> QED BY <2>1, <2>2, <2>3, GainsGuarded DEF OnItsWay
<1> QED BY <1>1, <1>2, <1>3, <1>4

(* No step breaks Protected. *)
LEMMA ProtectedStep ==
  ASSUME Undisturbed, MemInv, Types', [Next]_vars
  PROVE Protected'
<1>1. ASSUME NEW h \in Host, Begin(h) \/ Main(h) \/ EnterBarrier(h) PROVE Protected'
  BY <1>1, MainProtected
<1>2. ASSUME NEW m \in msgs, Dispatch(m) PROVE Protected'
  <2>1. CASE HandleFetchWNI(m)
    <3>1. UNCHANGED <<pages, prot, turn, pc, op>>
      BY <2>1 DEF HandleFetchWNI, mem
    <3> QED BY <3>1 DEF MemInv, Protected, Guarded, Allowed, Cur
  <2> QED BY <1>2, <2>1, PageHandlersProtected, InformedProtected DEF Dispatch
<1>3. ASSUME CompleteBarrier PROVE Protected'
  BY <1>3, InformedProtected
<1>4. ASSUME UNCHANGED vars PROVE Protected'
  BY <1>4, StutterTypes DEF MemInv
<1> QED BY <1>1, <1>2, <1>3, <1>4 DEF Next

-----------------------------------------------------------------------------
(* The inductive step, on steps on which no timestamp goes back. *)

(* No step breaks MemInv. *)
LEMMA MemStep ==
  ASSUME Undisturbed, MemInv, [Next]_vars, Advance
  PROVE MemInv'
<1>1. Types'
  BY TypesStep
<1>2. OneAtATime'
  BY <1>1, OneAtATimeStep
<1>3. OwnNewest'
  BY ListsStep
<1>4. KnownAhead'
  BY <1>1, KnownAheadStep
<1>5. ToldAhead'
  BY <1>1, NewsTold, ToldAheadStep
<1>6. Twins' /\ NotWriting'
  BY TwinsStep
<1>7. Protected'
  BY <1>1, ProtectedStep
<1> QED BY <1>1, <1>2, <1>3, <1>4, <1>5, <1>6, <1>7 DEF MemInv, NoneAhead

(* initmem establishes MemInv. *)
LEMMA MemInit == ASSUME Init PROVE MemInv
<1>0. ZeroStamp \in Stamp /\ 0 \in Host /\ Host \subseteq Int
  BY ZeroHost DEF ZeroStamp, Stamp
<1>1. PICK own : own = Interval(ZeroStamp, TRUE)
  OBVIOUS
<1>2. own \in IntervalRecord /\ own.timestamp = ZeroStamp
  BY <1>0, <1>1, OwnInterval
<1>3. \A g, h \in Host : intervals[g][h] = IF g = h THEN <<own>> ELSE << >>
  BY <1>1 DEF Init
<1>4. \A g, h \in Host : intervals[g][h] \in Seq(IntervalRecord)
  <2>1. PICK one : one = <<own>>
    OBVIOUS
  <2>2. one \in Seq(IntervalRecord) /\ << >> \in Seq(IntervalRecord)
    BY <1>2, <2>1
  <2>3. \A g, h \in Host : intervals[g][h] = IF g = h THEN one ELSE << >>
    BY <1>3, <2>1, Zenon
  <2> QED BY <2>2, <2>3
<1>5. intervals \in [Host -> [Host -> Seq(IntervalRecord)]]
  BY <1>4 DEF Init
<1>6. ZeroPage \in Page
  BY ByteAssumption DEF ZeroPage, Page
<1>7. \A h \in Host, p \in PageIndex :
        /\ pages[h][p] \in PageRecord /\ pages[h][p].twin = None /\ pages[h][p].state # "WRITE"
        /\ \A j \in Host : notices[h][p][j] = << >>
  BY <1>6 DEF Init, PageRecord
<1>8. /\ pages \in [Host -> [PageIndex -> PageRecord]]
      /\ notices \in [Host -> [PageIndex -> [Host -> Seq(NoticeRecord)]]]
      /\ memory \in [PageIndex -> Page]
      /\ now \in [Host -> Stamp]
  BY <1>0, <1>6, <1>7 DEF Init
<1>9. DataTypes
  BY <1>5, <1>8 DEF DataTypes
<1>10. ThreadTypes /\ Working /\ msgs \subseteq Message
  BY BoundAssumption DEF Init, ThreadTypes, Working, Point
<1>11. OneAtATime
  BY DEF Init, OneAtATime
<1>12. OwnNewest
  <2>1. Head(<<own>>) = own /\ <<own>> # << >>
    OBVIOUS
  <2> QED BY <1>2, <1>3, <2>1 DEF OwnNewest, Init
<1>13. NoneAhead
  <2>1. KnownAhead
    <3>1. ASSUME NEW g \in Host, NEW h \in Host, NEW i \in DOMAIN intervals[g][h]
          PROVE intervals[g][h][i].timestamp = ZeroStamp
      <4>1. PICK list : list = intervals[g][h]
        OBVIOUS
      <4>2. list = <<own>> \/ list = << >>
        BY <1>3, <4>1, Zenon
      <4>3. i \in DOMAIN list
        BY <4>1
      <4>4. list[i] = own
        BY <4>2, <4>3
      <4> QED BY <1>2, <4>1, <4>4
    <3>2. ~isAfterInterval(ZeroStamp, ZeroStamp)
      BY <1>0, NotAfterItself
    <3>3. \A h \in Host : now[h] = ZeroStamp
      BY DEF Init
    <3> QED BY <3>1, <3>2, <3>3 DEF KnownAhead
  <2>2. ToldAhead
    BY DEF ToldAhead, Init
  <2> QED BY <2>1, <2>2 DEF NoneAhead
<1>14. Twins /\ NotWriting
  <2>1. \A h \in Host : pc[h] = "app"
    BY DEF Init
  <2> QED BY <1>7, <2>1 DEF Twins, TwinsAt, Faulting, Bare, NotWriting, FaultPoints
<1>15. Protected
  <2>1. /\ prot \in [Host -> [PageIndex -> Rights]] /\ turn \in [Host -> Nat]
        /\ \A h \in Host, p \in PageIndex : prot[h][p] = IF pages[h][p].state = "RDONLY" THEN "READ" ELSE "NONE"
        /\ \A h \in Host : pc[h] = "app"
    BY DEF Init, Rights
  <2> QED BY <2>1 DEF Protected, Guarded, Allowed
<1> QED BY <1>9, <1>10, <1>11, <1>12, <1>13, <1>14, <1>15 DEF MemInv, Types

-----------------------------------------------------------------------------
(* What the hosts wrote *)

Wrote(list, pg, c) == InDiffs(list, c) + SinceTwin(pg, c)

(* What a host wrote is an integer. *)
LEMMA WroteType ==
  ASSUME NEW list \in Seq(NoticeRecord), NEW pg \in PageRecord, NEW c \in Cell
  PROVE Wrote(list, pg, c) \in Int /\ InDiffs(list, c) \in Int /\ SinceTwin(pg, c) \in Int
<1>1. InDiffs(list, c) \in Int
  BY InDiffsType
<1>2. SinceTwin(pg, c) \in Int
  <2>1. CASE pg.twin = None
    BY <2>1 DEF SinceTwin
  <2>2. CASE pg.twin # None
    <3>1. pg.data \in Page /\ pg.twin \in Page
      BY <2>2 DEF PageRecord
    <3>2. pg.data[c] \in Int /\ pg.twin[c] \in Int
      BY <3>1, PageIsSome
    <3> QED BY <2>2, <3>2 DEF SinceTwin
  <2> QED BY <2>1, <2>2
<1> QED BY <1>1, <1>2 DEF Wrote

(* The step adds d, modulo BYTE, to what host h changed in a cell. *)
Adds(h, p, c, d) == Residue(Wrote(notices'[h][p][h], pages'[h][p], c))
                    = Residue(Wrote(notices[h][p][h], pages[h][p], c) + d)

SameWrites(h) == \A p \in PageIndex, c \in Cell : Adds(h, p, c, 0)

(* A sum of which one term grows. *)
LEMMA OneCell ==
  ASSUME DataTypes, DataTypes', NEW p \in PageIndex, NEW c \in Cell, NEW k \in Int, NEW d \in Int,
         \A h \in Host : Adds(h, p, c, IF h + 1 = k THEN d ELSE 0),
         memory[p][c] = Sum([i \in 1 .. hostnum |-> Written(i - 1, p, c)], hostnum) % BYTE,
         memory'[p][c] = (memory[p][c] + (IF k \in 1 .. hostnum THEN d ELSE 0)) % BYTE
  PROVE memory'[p][c] = Sum([i \in 1 .. hostnum |-> Written(i - 1, p, c)'], hostnum) % BYTE
<1>1. PICK n \in Nat : n = hostnum
  BY HostNumAssumption
<1>2. PICK f : f = [i \in 1 .. n |-> Wrote(notices[i - 1][p][i - 1], pages[i - 1][p], c)]
  OBVIOUS
<1>3. PICK g : g = [i \in 1 .. n |-> Wrote(notices'[i - 1][p][i - 1], pages'[i - 1][p], c)]
  OBVIOUS
<1>4. \A i \in 1 .. n : i - 1 \in Host /\ (i - 1) + 1 = i
  BY <1>1 DEF Host
<1>5. f \in [1 .. n -> Int]
  <2>1. ASSUME NEW i \in 1 .. n PROVE Wrote(notices[i - 1][p][i - 1], pages[i - 1][p], c) \in Int
    <3>1. notices[i - 1][p][i - 1] \in Seq(NoticeRecord) /\ pages[i - 1][p] \in PageRecord
      BY <1>4 DEF DataTypes
    <3> QED BY <3>1, WroteType
  <2> QED BY <1>2, <2>1
<1>6. g \in [1 .. n -> Int]
  <2>1. ASSUME NEW i \in 1 .. n PROVE Wrote(notices'[i - 1][p][i - 1], pages'[i - 1][p], c) \in Int
    <3>1. notices'[i - 1][p][i - 1] \in Seq(NoticeRecord) /\ pages'[i - 1][p] \in PageRecord
      BY <1>4 DEF DataTypes
    <3> QED BY <3>1, WroteType
  <2> QED BY <1>3, <2>1
<1>7. Shifted(f, g, n, k, d)
  <2>1. ASSUME NEW i \in 1 .. n
        PROVE Residue(g[i]) = Residue(f[i] + (IF i = k THEN d ELSE 0))
    <3>1. Adds(i - 1, p, c, IF (i - 1) + 1 = k THEN d ELSE 0)
      BY <1>4
    <3>2. Adds(i - 1, p, c, IF i = k THEN d ELSE 0)
      BY <1>4, <3>1
    <3> QED BY <1>2, <1>3, <3>2 DEF Adds
  <2> QED BY <2>1 DEF Shifted
<1>8. PICK x \in Int, y \in Int, e \in Int :
        x = Sum(f, n) /\ y = Sum(g, n) /\ e = (IF k \in 1 .. n THEN d ELSE 0)
        /\ Residue(y) = Residue(x + e)
  <2>1. /\ Sum(f, n) \in Int /\ Sum(g, n) \in Int
        /\ Residue(Sum(g, n)) = Residue(Sum(f, n) + (IF k \in 1 .. n THEN d ELSE 0))
    BY <1>5, <1>6, <1>7, SumShift, Zenon
  <2>2. PICK e \in Int : e = (IF k \in 1 .. n THEN d ELSE 0)
    OBVIOUS
  <2> QED BY <2>1, <2>2
<1>9. Residue(e + (x % BYTE)) = Residue(e + x)
  BY ResidueOfResidue
<1>10. memory[p][c] = x % BYTE
  <2>1. f = [i \in 1 .. hostnum |-> Written(i - 1, p, c)]
    BY <1>1, <1>2 DEF Wrote, Written
  <2> QED BY <1>1, <1>8, <2>1
<1>11. memory'[p][c] = ((x % BYTE) + e) % BYTE
  BY <1>1, <1>8, <1>10
<1>12. (x % BYTE) + e = e + (x % BYTE) /\ x + e = e + x
  BY ModRange, ByteAssumption
<1>13. memory'[p][c] = y % BYTE
  BY <1>8, <1>9, <1>11, <1>12 DEF Residue
<1>14. g = [i \in 1 .. hostnum |-> Written(i - 1, p, c)']
  BY <1>1, <1>3 DEF Wrote, Written
<1> QED BY <1>1, <1>8, <1>13, <1>14

(* A cell of memory is a byte. *)
LEMMA MemoryByte ==
  ASSUME DataTypes, NEW p \in PageIndex, NEW c \in Cell
  PROVE memory[p][c] \in 0 .. (BYTE - 1) /\ (memory[p][c] + 0) % BYTE = memory[p][c]
<1>1. PICK n \in Nat \ {0} : n = BYTE
  BY ByteAssumption
<1>2. PICK x \in Int : x = memory[p][c] /\ x \in 0 .. (n - 1)
  BY <1>1 DEF DataTypes, Page
<1>3. x % n = x
  <2>1. PICK q \in Int, r \in 0 .. (n - 1) : x = n * q + r /\ x % n = r
    BY ModDef
  <2>2. n * 0 = 0 /\ n * q \in Int
    BY Dist
  <2>3. n * 0 + x = n * q + r
    BY <2>1, <2>2
  <2>4. x = r
    BY <1>2, <2>3, ModUnique
  <2> QED BY <2>1, <2>4
<1> QED BY <1>1, <1>2, <1>3

(* A step that adds nothing for any host keeps WrittenOnce. *)
LEMMA NothingWritten ==
  ASSUME DataTypes, DataTypes', WrittenOnce, memory' = memory, \A h \in Host : SameWrites(h)
  PROVE WrittenOnce'
<1>1. ASSUME NEW p \in PageIndex, NEW c \in Cell
      PROVE memory'[p][c] = Sum([i \in 1 .. hostnum |-> Written(i - 1, p, c)'], hostnum) % BYTE
  <2>1. PICK k \in Int, d \in Int : k = 0 /\ d = 0
    OBVIOUS
  <2>2. \A h \in Host : Adds(h, p, c, IF h + 1 = k THEN d ELSE 0)
    BY <2>1 DEF SameWrites
  <2>3. memory[p][c] = Sum([i \in 1 .. hostnum |-> Written(i - 1, p, c)], hostnum) % BYTE
    BY DEF WrittenOnce
  <2>4. memory'[p][c] = (memory[p][c] + (IF k \in 1 .. hostnum THEN d ELSE 0)) % BYTE
    BY <2>1, MemoryByte
  <2> QED BY <2>2, <2>3, <2>4, OneCell
<1> QED BY <1>1 DEF WrittenOnce

-----------------------------------------------------------------------------
(* Steps that leave what a host wrote as it is *)

(* Adding nothing, from equal sums. *)
LEMMA AddsNothing ==
  ASSUME DataTypes, NEW h \in Host, NEW p \in PageIndex, NEW c \in Cell,
         Residue(Wrote(notices'[h][p][h], pages'[h][p], c)) = Residue(Wrote(notices[h][p][h], pages[h][p], c))
  PROVE Adds(h, p, c, 0)
<1>1. notices[h][p][h] \in Seq(NoticeRecord) /\ pages[h][p] \in PageRecord
  BY DEF DataTypes
<1>2. PICK x \in Int : x = Wrote(notices[h][p][h], pages[h][p], c)
  BY <1>1, WroteType
<1>3. x + 0 = x
  OBVIOUS
<1> QED BY <1>2, <1>3 DEF Adds

(* The twin, and the contents if there is one, are as before. *)
LEMMA SameSinceTwin ==
  ASSUME DataTypes, NEW h \in Host, NEW p \in PageIndex,
         notices'[h][p][h] = notices[h][p][h],
         \/ pages'[h][p].twin = pages[h][p].twin /\ pages'[h][p].data = pages[h][p].data
         \/ pages'[h][p].twin = None /\ pages[h][p].twin = None
  PROVE \A c \in Cell : Adds(h, p, c, 0)
<1> TAKE c \in Cell
<1>1. Wrote(notices'[h][p][h], pages'[h][p], c) = Wrote(notices[h][p][h], pages[h][p], c)
  BY DEF Wrote, SinceTwin
<1> QED BY <1>1, AddsNothing

(* A host that a step leaves alone. *)
LEMMA LeftWrites ==
  ASSUME DataTypes, NEW h \in Host, SamePages(h), SameNotices(h)
  PROVE SameWrites(h)
<1> SUFFICES ASSUME NEW p \in PageIndex PROVE \A c \in Cell : Adds(h, p, c, 0)
  BY DEF SameWrites
<1>1. notices'[h][p][h] = notices[h][p][h] /\ pages'[h][p] = pages[h][p]
  BY DEF SamePages, SameNotices
<1> QED BY <1>1, SameSinceTwin

(* A step at one page. *)
LEMMA PageWrites ==
  ASSUME DataTypes, NEW h \in Host, NEW p \in PageIndex, NEW v \in PageRecord,
         pages' = [pages EXCEPT ![h][p] = v], notices' = notices,
         \/ v.twin = pages[h][p].twin /\ v.data = pages[h][p].data
         \/ v.twin = None /\ pages[h][p].twin = None
  PROVE \A g \in Host : SameWrites(g)
<1>1. \A g \in Host, q \in PageIndex : pages'[g][q] = IF g = h /\ q = p THEN v ELSE pages[g][q]
  BY DataPage
<1> TAKE g \in Host
<1>2. ASSUME NEW q \in PageIndex PROVE \A c \in Cell : Adds(g, q, c, 0)
  <2>1. CASE g = h /\ q = p
    <3>1. pages'[g][q] = v
      BY <1>1, <2>1
    <3> QED BY <2>1, <3>1, SameSinceTwin
  <2>2. CASE ~(g = h /\ q = p)
    <3>1. pages'[g][q] = pages[g][q]
      BY <1>1, <2>2
    <3> QED BY <3>1, SameSinceTwin
  <2> QED BY <2>1, <2>2
<1> QED BY <1>2 DEF SameWrites

(* The steps of a fault that change the state of a page only. *)
LEMMA ResolvedWrites ==
  ASSUME MemInv, NEW h \in Host, Resolved(h) \/ FaultWritable(h) \/ FaultTwin(h)
  PROVE \A g \in Host : SameWrites(g)
<1>0. DataTypes
  BY DEF MemInv, Types
<1>1. pc[h] \notin {"app", "barrier"} /\ notices' = notices
  BY DEF Resolved, FaultWritable, FaultTwin, Running
<1>2. PICK p \in PageIndex : p = op[h].page /\ pages[h][p] \in PageRecord /\ Cur(h) = pages[h][p]
                             /\ TwinsAt(h, p)
  BY <1>1, AtPage
<1>3. CASE Resolved(h) \/ FaultWritable(h)
  <2>1. PICK s \in {"RDONLY", "WRITE"} : pages' = [pages EXCEPT ![h][p].state = s]
    BY <1>2, <1>3 DEF Resolved, FaultWritable
  <2>2. PICK v : v = [pages[h][p] EXCEPT !.state = s]
    OBVIOUS
  <2>3. v \in PageRecord /\ v.twin = pages[h][p].twin /\ v.data = pages[h][p].data
    BY <1>2, <2>2 DEF PageRecord
  <2>4. pages' = [pages EXCEPT ![h][p] = v]
    BY <2>1, <2>2
  <2> QED BY <1>0, <1>1, <2>3, <2>4, PageWrites
<1>4. CASE FaultTwin(h)
  <2>0. pc[h] = "tested"
    BY <1>4 DEF FaultTwin, Running
  <2>1. pages[h][p].state = "RDONLY" /\ pc[h] = "tested"
    BY <1>2, <2>0 DEF MemInv, Protected, Guarded
  <2>2. pages[h][p].twin = None
    BY <1>2, <2>1 DEF TwinsAt, Faulting, FaultPoints
  <2>3. PICK v : v = createTwinPage(pages[h][p])
    OBVIOUS
  <2>4. v \in PageRecord /\ v.twin = pages[h][p].data /\ v.data = pages[h][p].data
        /\ pages[h][p].data \in Page
    BY <1>2, <2>2, <2>3 DEF createTwinPage, PageRecord
  <2>5. pages' = [pages EXCEPT ![h][p] = v]
    BY <1>2, <1>4, <2>3 DEF FaultTwin
  <2>6. \A g \in Host, q \in PageIndex : pages'[g][q] = IF g = h /\ q = p THEN v ELSE pages[g][q]
    BY <1>0, <2>4, <2>5, DataPage
  <2>7. ASSUME NEW c \in Cell PROVE SinceTwin(v, c) = 0 /\ SinceTwin(pages[h][p], c) = 0
    <3>1. v.twin # None
      BY <2>4, PageIsSome
    <3>2. PICK x \in Int : x = pages[h][p].data[c]
      BY <2>4, PageIsSome
    <3>3. SinceTwin(v, c) = x - x
      BY <2>4, <3>1, <3>2 DEF SinceTwin
    <3> QED BY <2>2, <3>3 DEF SinceTwin
  <2> SUFFICES ASSUME NEW g \in Host, NEW q \in PageIndex, NEW c \in Cell PROVE Adds(g, q, c, 0)
    BY DEF SameWrites
  <2>8. CASE g = h /\ q = p
    <3>1. pages'[g][q] = v
      BY <2>6, <2>8
    <3>2. Wrote(notices'[g][q][g], pages'[g][q], c) = Wrote(notices[g][q][g], pages[g][q], c)
      BY <1>1, <2>7, <2>8, <3>1 DEF Wrote
    <3> QED BY <1>0, <3>2, AddsNothing
  <2>9. CASE ~(g = h /\ q = p)
    <3>1. pages'[g][q] = pages[g][q]
      BY <2>6, <2>9
    <3> QED BY <1>0, <1>1, <3>1, SameSinceTwin
  <2> QED BY <2>8, <2>9
<1> QED BY <1>3, <1>4

(* A notice without a diff in front of a list. *)
LEMMA BareNotice ==
  ASSUME NEW list \in Seq(NoticeRecord), NEW x \in NoticeRecord, x.diff = None, NEW c \in Cell,
         NEW more, more = <<x>> \o list
  PROVE InDiffs(more, c) = InDiffs(list, c)
<1>1. PICK ts \in Stamp : ts = x.timestamp
  BY DEF NoticeRecord
<1>2. x = Notice(ts)
  BY <1>1 DEF NoticeRecord, Notice
<1> QED BY <1>2, InDiffsNotice

(* createWriteNotice adds a notice without a diff. *)
LEMMA FaultNoticeWrites ==
  ASSUME MemInv, NEW h \in Host, FaultNotice(h)
  PROVE \A g \in Host : SameWrites(g)
<1>0. DataTypes /\ OwnNewest
  BY DEF MemInv, Types
<1>1. pc[h] \notin {"app", "barrier"} /\ pages' = pages
  BY DEF FaultNotice, Running
<1>2. PICK p \in PageIndex : p = op[h].page
  BY <1>1, AtPage
<1>3. CASE UNCHANGED notices
  BY <1>0, <1>1, <1>3, LeftWrites DEF SamePages, SameNotices
<1>4. CASE createWriteNotice(h, p)
  <2>1. PICK x \in NoticeRecord, more \in Seq(NoticeRecord) :
             /\ x.timestamp = now[h] /\ x.diff = None /\ more = <<x>> \o notices[h][p][h]
             /\ \A g \in Host, q \in PageIndex, j \in Host :
                  notices'[g][q][j] = IF g = h /\ q = p /\ j = h THEN more ELSE notices[g][q][j]
    BY <1>0, <1>4, NoticedLists, Zenon
  <2> SUFFICES ASSUME NEW g \in Host, NEW q \in PageIndex, NEW c \in Cell PROVE Adds(g, q, c, 0)
    BY DEF SameWrites
  <2>2. CASE g = h /\ q = p
    <3>1. PICK list \in Seq(NoticeRecord) : list = notices[h][p][h]
      BY <1>0 DEF DataTypes
    <3>2. InDiffs(more, c) = InDiffs(list, c)
      <4>1. x.diff = None /\ more = <<x>> \o list
        BY <2>1, <3>1
      <4> QED BY <4>1, BareNotice
    <3>3. notices'[g][q][g] = more
      BY <2>1, <2>2
    <3>4. Wrote(notices'[g][q][g], pages'[g][q], c) = Wrote(notices[g][q][g], pages[g][q], c)
      BY <1>1, <2>2, <3>1, <3>2, <3>3 DEF Wrote
    <3> QED BY <1>0, <3>4, AddsNothing
  <2>3. CASE ~(g = h /\ q = p)
    <3>1. notices'[g][q][g] = notices[g][q][g]
      BY <2>1, <2>3
    <3> QED BY <1>0, <1>1, <3>1, SameSinceTwin
  <2> QED BY <2>2, <2>3
<1> QED BY <1>2, <1>3, <1>4 DEF FaultNotice

(* handleFetchPageMsg. *)
LEMMA HandleFetchPageWrites ==
  ASSUME MemInv, NEW m \in msgs, HandleFetchPage(m)
  PROVE \A g \in Host : SameWrites(g)
<1>0. DataTypes
  BY DEF MemInv, Types
<1>1. PICK h \in Host, p \in PageIndex : h = m.to /\ p = m.body
  BY HandleFetchPageDoes
<1>2. PICK v \in PageRecord :
             /\ v.data = pages[h][p].data /\ v.twin = pages[h][p].twin
             /\ pages' = [pages EXCEPT ![h][p] = v]
  BY <1>1, HandleFetchPageDoes
<1>3. notices' = notices
  BY DEF HandleFetchPage
<1> QED BY <1>0, <1>2, <1>3, PageWrites

(* handleGrantPageMsg: the page has no twin. *)
LEMMA HandleGrantPageWrites ==
  ASSUME MemInv, NEW m \in msgs, HandleGrantPage(m)
  PROVE \A g \in Host : SameWrites(g)
<1>0. DataTypes
  BY DEF MemInv, Types
<1>1. m \in Message /\ m.command = "GRANT_PAGE" /\ m.to \in Host /\ Expected(m)
  BY Handles DEF MemInv, HandleGrantPage
<1>2. PICK h \in Host, p \in PageIndex, x \in Page : h = m.to /\ p = m.body.page /\ x = m.body.data
  BY <1>1, Letters
<1>3. pc[h] = "page" /\ op[h].page = p
  BY <1>1, <1>2 DEF Expected, Client, Request
<1>4. PICK ts \in Stamp : ts = now[h]
  BY <1>0 DEF DataTypes
<1>5. PICK pg \in PageRecord : pg = pages[h][p]
  BY <1>0 DEF DataTypes
<1>6. PICK v : v = [pg EXCEPT !.data = x, !.start = ts]
  OBVIOUS
<1>7. v \in PageRecord /\ v.twin = pg.twin
  BY <1>6 DEF PageRecord
<1>8. pages' = [pages EXCEPT ![h][p] = v] /\ notices' = notices
  <2>1. pages' = [pages EXCEPT ![h][p].data = x, ![h][p].start = ts]
    BY <1>2, <1>4 DEF HandleGrantPage
  <2> QED BY <1>0, <1>5, <1>6, <2>1 DEF DataTypes, HandleGrantPage
<1>9. pg.twin = None
  <2>1. TwinsAt(h, p) /\ pg.state # "WRITE"
    BY <1>3, <1>5, AllFine DEF HostFine, Cur, Fetching
  <2> QED BY <1>3, <1>5, <2>1 DEF TwinsAt, Faulting, FaultPoints
<1> QED BY <1>0, <1>5, <1>7, <1>8, <1>9, PageWrites

(* A step of host h at one page and one list of its notices. *)
PageAndNotices(h, p, j, v, next) ==
  /\ v \in PageRecord /\ next \in Seq(NoticeRecord)
  /\ pages' = [pages EXCEPT ![h][p] = v]
  /\ notices' = [notices EXCEPT ![h][p][j] = next]
  /\ \A c \in Cell : Residue(Wrote(IF j = h THEN next ELSE notices[h][p][h], v, c))
                     = Residue(Wrote(notices[h][p][h], pages[h][p], c))

(* A page and the notices of another host change. *)
LEMMA PageAndNoticesWrites ==
  ASSUME MemInv, NEW h \in Host, NEW p \in PageIndex, NEW j \in Host, NEW v, NEW next,
         PageAndNotices(h, p, j, v, next)
  PROVE \A g \in Host : SameWrites(g)
<1>0. /\ DataTypes /\ v \in PageRecord /\ next \in Seq(NoticeRecord)
      /\ pages' = [pages EXCEPT ![h][p] = v]
      /\ notices' = [notices EXCEPT ![h][p][j] = next]
      /\ \A c \in Cell : Residue(Wrote(IF j = h THEN next ELSE notices[h][p][h], v, c))
                         = Residue(Wrote(notices[h][p][h], pages[h][p], c))
  BY DEF MemInv, Types, PageAndNotices
<1>1. \A g \in Host, q \in PageIndex : pages'[g][q] = IF g = h /\ q = p THEN v ELSE pages[g][q]
  BY <1>0, DataPage
<1>2. \A g \in Host, q \in PageIndex, i \in Host :
        notices'[g][q][i] = IF g = h /\ q = p /\ i = j THEN next ELSE notices[g][q][i]
  <2>1. Put3(notices', notices, h, p, j, next, Host, PageIndex, Host, Seq(NoticeRecord))
    BY <1>0, NoticesPut
  <2> QED BY <2>1 DEF Put3
<1> SUFFICES ASSUME NEW g \in Host, NEW q \in PageIndex, NEW c \in Cell PROVE Adds(g, q, c, 0)
  BY DEF SameWrites
<1>3. CASE g = h /\ q = p
  <2>1. pages'[g][q] = v /\ notices'[g][q][g] = IF j = h THEN next ELSE notices[h][p][h]
    BY <1>1, <1>2, <1>3
  <2>2. Residue(Wrote(notices'[g][q][g], pages'[g][q], c)) = Residue(Wrote(notices[g][q][g], pages[g][q], c))
    BY <1>0, <1>3, <2>1
  <2> QED BY <1>0, <2>2, AddsNothing
<1>4. CASE ~(g = h /\ q = p)
  <2>1. pages'[g][q] = pages[g][q] /\ notices'[g][q][g] = notices[g][q][g]
    BY <1>1, <1>2, <1>4
  <2> QED BY <1>0, <2>1, SameSinceTwin
<1> QED BY <1>3, <1>4

(* grantDiff: the changes since the twin go into the diff. *)
LEMMA HandleFetchDiffWrites ==
  ASSUME Undisturbed, MemInv, NEW m \in msgs, HandleFetchDiff(m)
  PROVE \A g \in Host : SameWrites(g)
<1>0. DataTypes
  BY DEF MemInv, Types
<1>1. PICK h \in Host, p \in PageIndex : h = m.to /\ p = m.body.page
  BY FetchDiffCases
<1>2. CASE NoDiff(m)
  BY <1>0, <1>2, LeftWrites DEF NoDiff, SamePages, SameNotices
<1>3. ASSUME NEW at, NEW d, NEW next, NEW v, GivesDiff(m, at, d, next, v)
      PROVE \A g \in Host : SameWrites(g)
  <2>1. PICK pg \in PageRecord : pg = pages[h][p]
    BY <1>0 DEF DataTypes
  <2>2. PICK list \in Seq(NoticeRecord) : list = notices[h][p][h]
    BY <1>0 DEF DataTypes
  <2>3. /\ at \in DOMAIN list /\ d \in Page /\ next \in Seq(NoticeRecord) /\ v \in PageRecord
        /\ v = IF list[at].diff = None THEN [pg EXCEPT !.twin = None, !.state = "RDONLY"] ELSE pg
        /\ d = IF list[at].diff = None THEN createLocalDiff(pg.data, pg.twin) ELSE list[at].diff
        /\ list[at].diff = None => pg.twin \in Page
        /\ Filled(list, next, at, d)
        /\ notices' = [notices EXCEPT ![h][p][h] = next]
        /\ pages' = [pages EXCEPT ![h][p] = v]
    BY <1>1, <1>3, <2>1, <2>2 DEF GivesDiff
  <2>4. ASSUME NEW c \in Cell PROVE Residue(Wrote(next, v, c)) = Residue(Wrote(list, pg, c))
    <3>1. CASE list[at].diff # None
      <4>1. v = pg /\ \A k \in DOMAIN list : next[k].diff = list[k].diff
        BY <2>3, <3>1 DEF Filled
      <4>2. DOMAIN next = DOMAIN list
        BY <2>3 DEF Filled
      <4>3. InDiffs(next, c) = InDiffs(list, c)
        BY <2>3, <4>1, <4>2, InDiffsSame
      <4> QED BY <4>1, <4>3 DEF Wrote
    <3>2. CASE list[at].diff = None
      <4>1. /\ DOMAIN next = DOMAIN list /\ next[at].diff = d
            /\ \A k \in DOMAIN list : k # at => next[k].diff = list[k].diff
        BY <2>3 DEF Filled
      <4>2. Residue(InDiffs(next, c)) = Residue(InDiffs(list, c) + d[c])
        BY <2>3, <3>2, <4>1, InDiffsMade
      <4>3. PICK x \in Int, y \in Int, z \in Int :
              x = InDiffs(list, c) /\ y = pg.data[c] - pg.twin[c] /\ z = InDiffs(next, c)
        <5>1. pg.data \in Page /\ pg.twin \in Page
          BY <2>3, <3>2 DEF PageRecord
        <5>2. pg.data[c] \in Int /\ pg.twin[c] \in Int
          BY <5>1, PageIsSome
        <5>3. InDiffs(list, c) \in Int /\ InDiffs(next, c) \in Int
          BY <2>3, InDiffsType
        <5> QED BY <5>2, <5>3
      <4>4. d[c] = y % BYTE
        BY <2>3, <3>2, <4>3 DEF createLocalDiff
      <4>5. Residue(x + (y % BYTE)) = Residue(x + y)
        BY ResidueOfResidue
      <4>6. SinceTwin(v, c) = 0 /\ SinceTwin(pg, c) = y
        <5>1. v.twin = None
          BY <2>3, <3>2 DEF PageRecord
        <5>2. pg.twin # None
          BY <2>3, <3>2, PageIsSome
        <5> QED BY <4>3, <5>1, <5>2 DEF SinceTwin
      <4>7. Wrote(next, v, c) = z /\ Wrote(list, pg, c) = x + y
        BY <4>3, <4>6 DEF Wrote
      <4> QED BY <4>2, <4>3, <4>4, <4>5, <4>7
    <3> QED BY <3>1, <3>2
  <2>5. PICK j \in Host : j = h
    OBVIOUS
  <2>6. \A c \in Cell : Residue(Wrote(IF j = h THEN next ELSE notices[h][p][h], v, c))
                         = Residue(Wrote(notices[h][p][h], pages[h][p], c))
    BY <2>1, <2>2, <2>4, <2>5
  <2>7. v \in PageRecord /\ next \in Seq(NoticeRecord) /\ pages' = [pages EXCEPT ![h][p] = v]
        /\ notices' = [notices EXCEPT ![h][p][j] = next]
    BY <2>3, <2>5
  <2>8. PageAndNotices(h, p, j, v, next)
    BY <2>6, <2>7 DEF PageAndNotices
  <2> QED BY <2>8, PageAndNoticesWrites
<1> QED BY <1>2, <1>3, FetchDiffCases

(* handleGrantDiffMsg fills a notice of another host. *)
LEMMA HandleGrantDiffWrites ==
  ASSUME MemInv, NEW m \in msgs, HandleGrantDiff(m)
  PROVE \A g \in Host : SameWrites(g)
<1>0. DataTypes
  BY DEF MemInv, Types
<1>1. PICK h \in Host, p \in PageIndex, j \in Host :
        h = m.to /\ p = m.body.page /\ j = m.from /\ pc[h] = "diffWait" /\ p = op[h].page
  BY GrantDiffCases
<1>2. CASE NoPlace(m)
  BY <1>0, <1>2, LeftWrites DEF NoPlace, SamePages, SameNotices
<1>3. ASSUME NEW at, NEW d, NEW next, NEW v, TakesDiff(m, at, d, next, v)
      PROVE \A g \in Host : SameWrites(g)
  <2>1. PICK pg \in PageRecord : pg = pages[h][p]
    BY <1>0 DEF DataTypes
  <2>2. PICK list \in Seq(NoticeRecord) : list = notices[h][p][j]
    BY <1>0 DEF DataTypes
  <2>3. /\ at \in DOMAIN list /\ next \in Seq(NoticeRecord) /\ v \in PageRecord
        /\ d = IF list[at].diff = None THEN m.body.diff ELSE list[at].diff
        /\ Filled(list, next, at, d)
        /\ v.twin = pg.twin
        /\ notices' = [notices EXCEPT ![h][p][j] = next]
        /\ pages' = [pages EXCEPT ![h][p] = v]
    BY <1>1, <1>3, <2>1, <2>2 DEF TakesDiff
  <2>4. TwinsAt(h, p) /\ ~Faulting(h, p) /\ ~Bare(h, p) /\ pg.state # "WRITE"
    <3>1. pg.state # "WRITE" /\ TwinsAt(h, p)
      BY <1>1, <2>1, AllFine DEF HostFine, Cur, Fetching
    <3> QED BY <1>1, <2>1, <3>1 DEF Faulting, FaultPoints, Bare
  <2>5. pg.twin = None /\ v.twin = None
    BY <2>1, <2>3, <2>4 DEF TwinsAt
  <2>6. ASSUME NEW c \in Cell, j = h PROVE InDiffs(next, c) = InDiffs(list, c)
    <3>1. \A i \in DOMAIN list : list[i].diff # None
      BY <2>2, <2>4, <2>6 DEF TwinsAt
    <3>2. DOMAIN next = DOMAIN list /\ \A i \in DOMAIN list : next[i].diff = list[i].diff
      BY <2>3, <3>1 DEF Filled
    <3> QED BY <2>3, <3>2, InDiffsSame
  <2>7. \A c \in Cell : Residue(Wrote(IF j = h THEN next ELSE notices[h][p][h], v, c))
                        = Residue(Wrote(notices[h][p][h], pages[h][p], c))
    <3> TAKE c \in Cell
    <3>1. SinceTwin(v, c) = 0 /\ SinceTwin(pages[h][p], c) = 0
      BY <2>1, <2>5 DEF SinceTwin
    <3>2. InDiffs(IF j = h THEN next ELSE notices[h][p][h], c) = InDiffs(notices[h][p][h], c)
      BY <2>2, <2>6
    <3> QED BY <3>1, <3>2 DEF Wrote
  <2>8. v \in PageRecord /\ next \in Seq(NoticeRecord) /\ pages' = [pages EXCEPT ![h][p] = v]
        /\ notices' = [notices EXCEPT ![h][p][j] = next]
    BY <2>3
  <2>9. PageAndNotices(h, p, j, v, next)
    BY <2>7, <2>8 DEF PageAndNotices
  <2> QED BY <2>9, PageAndNoticesWrites
<1> QED BY <1>2, <1>3, GrantDiffCases

(* Taking in packets moves what was written from the twin to the diff. *)
LEMMA GainsWrites ==
  ASSUME MemInv, NEW h \in Host, NEW own, own = None \/ own \in IntervalRecord,
         NEW packets, NEW base, NEW t, Gains(h, own, packets, base, t), memory' = memory,
         \A p \in PageIndex : Faulting(h, p) =>
           pages'[h][p] = pages[h][p] /\ notices'[h][p] = notices[h][p]
  PROVE \A g \in Host : SameWrites(g)
<1>0. DataTypes
  BY DEF MemInv, Types
<1>1. /\ notices'[h] = t.notices /\ pages'[h] = t.pages
      /\ \A g \in Host : g # h => notices'[g] = notices[g] /\ pages'[g] = pages[g]
  BY <1>0, DataGains
<1>2. SameWrites(h)
  <2> SUFFICES ASSUME NEW p \in PageIndex, NEW c \in Cell PROVE Adds(h, p, c, 0)
    BY DEF SameWrites
  <2>1. ~Faulting(h, p) => Residue(WrittenIn(h, t, p, c)) = Residue(WrittenIn(h, base, p, c))
    BY DEF Gains, Learned, SameWritten
  <2>2. base.notices = notices[h] /\ base.pages = pages[h]
    BY DEF Gains, Based
  <2>3. Residue(Wrote(notices'[h][p][h], pages'[h][p], c)) = Residue(Wrote(notices[h][p][h], pages[h][p], c))
    <3>1. CASE Faulting(h, p)
      BY <3>1
    <3>2. CASE ~Faulting(h, p)
      BY <1>1, <2>1, <2>2, <3>2 DEF WrittenIn, Wrote
    <3> QED BY <3>1, <3>2
  <2> QED BY <1>0, <2>3, AddsNothing
<1>3. ASSUME NEW g \in Host, g # h PROVE SameWrites(g)
  BY <1>0, <1>1, <1>3, LeftWrites DEF SamePages, SameNotices
<1> QED BY <1>2, <1>3

(* The handlers of messages with packets. *)
LEMMA InformedWrites ==
  ASSUME Undisturbed, MemInv, NEW m \in msgs,
         HandleGrantWNI(m) \/ HandleEnterBarrierInfo(m) \/ HandleExitBarrierInfo(m)
  PROVE \A g \in Host : SameWrites(g)
<1>1. CASE HandleGrantWNI(m)
  <2>1. PICK own, base, t : own \in IntervalRecord /\ Gains(m.to, own, m.body.packets, base, t)
    BY <1>1, GrantWNIGains
  <2>2. m.to \in Host /\ memory' = memory /\ \A p \in PageIndex : ~Faulting(m.to, p)
    BY <1>1, InformedOf DEF HandleGrantWNI, Faulting, FaultPoints
  <2> QED BY <2>1, <2>2, GainsWrites
<1>2. CASE HandleExitBarrierInfo(m)
  <2>1. PICK own, base, t : own \in IntervalRecord /\ Gains(m.to, own, m.body.packets, base, t)
    BY <1>2, ExitGains
  <2>2. m.to \in Host /\ memory' = memory /\ \A p \in PageIndex : ~Faulting(m.to, p)
    BY <1>2, InformedOf DEF HandleExitBarrierInfo, Faulting, FaultPoints
  <2> QED BY <2>1, <2>2, GainsWrites
<1>3. CASE HandleEnterBarrierInfo(m)
  <2>1. PICK base, t, own : own = None /\ Gains(m.to, own, m.body.packets, base, t)
    BY <1>3, EnterGains
  <2>2. m.to \in Host /\ memory' = memory /\ pc' = pc
    BY <1>3, InformedOf DEF HandleEnterBarrierInfo
  <2>3. \A p \in PageIndex : Faulting(m.to, p) =>
          pages'[m.to][p] = pages[m.to][p] /\ notices'[m.to][p] = notices[m.to][p]
    BY <2>2 DEF Undisturbed, Faulting, FaultPoints
  <2> QED BY <2>1, <2>2, <2>3, GainsWrites
<1> QED BY <1>1, <1>2, <1>3

(* The end of a barrier at host 0. *)
LEMMA CompleteBarrierWrites ==
  ASSUME MemInv, CompleteBarrier
  PROVE \A g \in Host : SameWrites(g)
<1>1. PICK own, base, t, packets : own \in IntervalRecord /\ Gains(0, own, packets, base, t)
  BY CompleteGains
<1>2. memory' = memory /\ 0 \in Host /\ \A p \in PageIndex : ~Faulting(0, p)
  BY ZeroHost, AllEntered DEF CompleteBarrier, Faulting, FaultPoints
<1> QED BY <1>1, <1>2, GainsWrites

-----------------------------------------------------------------------------
(* The write itself *)

(* One more, modulo the size of a char. *)
LEMMA OneMoreByte ==
  ASSUME NEW a \in Int, NEW x \in Int, NEW y \in Int
  PROVE Residue(a + (((x + 1) % BYTE) - y)) = Residue((a + (x - y)) + 1)
<1>1. PICK b \in Int, z \in Int, r \in Int : b = a - y /\ z = x + 1 /\ r = z % BYTE
  BY ModRange, ByteAssumption
<1>2. Residue(b + (z % BYTE)) = Residue(b + z)
  BY ResidueOfResidue
<1>3. a + (((x + 1) % BYTE) - y) = b + (z % BYTE)
  <2>1. a + (r - y) = b + r
    BY <1>1
  <2> QED BY <1>1, <2>1
<1>4. (a + (x - y)) + 1 = b + z
  BY <1>1
<1> QED BY <1>2, <1>3, <1>4

(* A write adds one to what its host has written, *)
LEMMA AccessAdds ==
  ASSUME MemInv, NEW h \in Host, Access(h), op[h].inc
  PROVE \A g \in Host, p \in PageIndex, c \in Cell :
          Adds(g, p, c, IF g = h /\ p = op[h].page /\ c = op[h].cell THEN 1 ELSE 0)
<1>0. DataTypes
  BY DEF MemInv, Types
<1>1. pc[h] = "access"
  BY DEF Access, Running
<1>2. PICK p \in PageIndex : p = op[h].page /\ pages[h][p] \in PageRecord /\ Cur(h) = pages[h][p]
                             /\ TwinsAt(h, p)
  BY <1>1, AtPage
<1>3. PICK c \in Cell : c = op[h].cell
  BY <1>1, OpPage DEF MemInv
<1>4. PICK pg \in PageRecord : pg = pages[h][p]
  BY <1>2
<1>5. pg.twin \in Page /\ pg.data \in Page /\ pg.twin # None
  <2>0. prot[h][p] = "WRITE" /\ Allowed(h, p)
    BY <1>1, <1>2 DEF Access, Faults, CurProt, MemInv, Protected, Guarded, OnItsWay
  <2>1. pg.state = "WRITE"
    BY <1>4, <2>0 DEF Allowed
  <2> QED BY <1>2, <1>4, <2>1 DEF TwinsAt, PageRecord
<1>6. PICK x : x = [pg.data EXCEPT ![c] = (@ + 1) % BYTE]
  OBVIOUS
<1>7. x \in Page
  BY <1>5, <1>6, ByteOneMore
<1>8. PICK v : v = [pg EXCEPT !.data = x]
  OBVIOUS
<1>9. v \in PageRecord /\ v.data = x /\ v.twin = pg.twin
  BY <1>7, <1>8 DEF PageRecord
<1>10. pages' = [pages EXCEPT ![h][p] = v] /\ notices' = notices
  <2>1. pages' = [pages EXCEPT ![h][p].data[c] = (@ + 1) % BYTE] /\ notices' = notices
    BY <1>2, <1>3 DEF Access
  <2> QED BY <1>4, <1>6, <1>8, <2>1
<1>11. \A g \in Host, q \in PageIndex : pages'[g][q] = IF g = h /\ q = p THEN v ELSE pages[g][q]
  BY <1>0, <1>9, <1>10, DataPage
<1>12. PICK list \in Seq(NoticeRecord) : list = notices[h][p][h]
  BY <1>0 DEF DataTypes
<1>13. ASSUME NEW e \in Cell
       PROVE Residue(Wrote(list, v, e)) = Residue(Wrote(list, pg, e) + (IF e = c THEN 1 ELSE 0))
  <2>1. PICK a \in Int, d \in Int, u \in Int : a = InDiffs(list, e) /\ d = pg.data[e] /\ u = pg.twin[e]
    BY <1>5, InDiffsType, PageIsSome
  <2>2. SinceTwin(pg, e) = d - u
    BY <1>5, <2>1 DEF SinceTwin
  <2>3. SinceTwin(v, e) = x[e] - u
    BY <1>5, <1>9, <2>1 DEF SinceTwin
  <2>4. CASE e = c
    <3>1. x[e] = (d + 1) % BYTE
      BY <1>5, <1>6, <2>1, <2>4 DEF Page
    <3>2. Residue(a + (((d + 1) % BYTE) - u)) = Residue((a + (d - u)) + 1)
      BY OneMoreByte
    <3> QED BY <2>1, <2>2, <2>3, <2>4, <3>1, <3>2 DEF Wrote
  <2>5. CASE e # c
    <3>1. x[e] = d
      BY <1>5, <1>6, <2>1, <2>5 DEF Page
    <3>2. (a + (d - u)) + 0 = a + (d - u)
      OBVIOUS
    <3> QED BY <2>1, <2>2, <2>3, <2>5, <3>1, <3>2 DEF Wrote
  <2> QED BY <2>4, <2>5
<1> SUFFICES ASSUME NEW g \in Host, NEW q \in PageIndex, NEW e \in Cell
             PROVE Adds(g, q, e, IF g = h /\ q = p /\ e = c THEN 1 ELSE 0)
  BY <1>2, <1>3
<1>14. CASE g = h /\ q = p
  <2>1. pages'[g][q] = v /\ notices'[g][q][g] = list
    BY <1>10, <1>11, <1>12, <1>14
  <2>2. Adds(h, p, e, IF e = c THEN 1 ELSE 0)
    BY <1>4, <1>12, <1>13, <1>14, <2>1 DEF Adds
  <2> QED BY <1>14, <2>2
<1>15. CASE ~(g = h /\ q = p)
  <2>1. pages'[g][q] = pages[g][q]
    BY <1>11, <1>15
  <2>2. Adds(g, q, e, 0)
    BY <1>0, <1>10, <2>1, SameSinceTwin
  <2> QED BY <1>15, <2>2
<1> QED BY <1>14, <1>15

(* and one to memory. *)
LEMMA AccessWrites ==
  ASSUME MemInv, Types', WrittenOnce, NEW h \in Host, Access(h)
  PROVE WrittenOnce'
<1>0. DataTypes /\ DataTypes'
  BY DEF MemInv, Types
<1>1. CASE ~op[h].inc
  <2>1. memory' = memory /\ \A g \in Host : SamePages(g) /\ SameNotices(g)
    BY <1>1 DEF Access, SamePages, SameNotices
  <2>2. \A g \in Host : SameWrites(g)
    BY <1>0, <2>1, LeftWrites
  <2> QED BY <1>0, <2>1, <2>2, NothingWritten
<1>2. CASE op[h].inc
  <2>0. PICK p \in PageIndex, c \in Cell : p = op[h].page /\ c = op[h].cell
    BY OpPage DEF MemInv, Access, Running
  <2>1. memory' = [memory EXCEPT ![p][c] = (@ + 1) % BYTE]
    BY <1>2, <2>0 DEF Access
  <2>2. \A q \in PageIndex, e \in Cell :
          memory'[q][e] = IF q = p /\ e = c THEN (memory[q][e] + 1) % BYTE ELSE memory[q][e]
    BY <1>0, <2>1 DEF DataTypes, Page
  <2>3. ASSUME NEW q \in PageIndex, NEW e \in Cell
        PROVE memory'[q][e] = Sum([i \in 1 .. hostnum |-> Written(i - 1, q, e)'], hostnum) % BYTE
    <3>1. PICK k \in Int, d \in Int : k = h + 1 /\ d = IF q = p /\ e = c THEN 1 ELSE 0
      BY ZeroHost
    <3>2. \A g \in Host : Adds(g, q, e, IF g + 1 = k THEN d ELSE 0)
      <4> TAKE g \in Host
      <4>1. Adds(g, q, e, IF g = h /\ q = p /\ e = c THEN 1 ELSE 0)
        BY <1>2, <2>0, AccessAdds
      <4>2. g + 1 = k <=> g = h
        BY <3>1, ZeroHost
      <4>3. (IF g = h /\ q = p /\ e = c THEN 1 ELSE 0) = (IF g + 1 = k THEN d ELSE 0)
        BY <3>1, <4>2
      <4> QED BY <4>1, <4>3
    <3>3. memory[q][e] = Sum([i \in 1 .. hostnum |-> Written(i - 1, q, e)], hostnum) % BYTE
      BY DEF WrittenOnce
    <3>4. memory'[q][e] = (memory[q][e] + (IF k \in 1 .. hostnum THEN d ELSE 0)) % BYTE
      <4>1. k \in 1 .. hostnum
        BY <3>1, HostNumAssumption DEF Host
      <4>2. (memory[q][e] + 0) % BYTE = memory[q][e]
        BY <1>0, MemoryByte
      <4> QED BY <2>2, <3>1, <4>1, <4>2
    <3> QED BY <1>0, <3>2, <3>3, <3>4, OneCell
  <2> QED BY <2>3 DEF WrittenOnce
<1> QED BY <1>1, <1>2

(* No step breaks WrittenOnce. *)
LEMMA WrittenStep ==
  ASSUME Undisturbed, MemInv, [Next]_vars, Types', WrittenOnce
  PROVE WrittenOnce'
<1>0. DataTypes /\ DataTypes'
  BY DEF MemInv, Types
<1>1. ASSUME UNCHANGED <<notices, pages>> PROVE \A g \in Host : SameWrites(g)
  BY <1>0, <1>1, LeftWrites DEF SamePages, SameNotices
<1>2. ASSUME NEW h \in Host, Begin(h) \/ EnterBarrier(h) PROVE memory' = memory /\ \A g \in Host : SameWrites(g)
  BY <1>1, <1>2 DEF Begin, EnterBarrier, mem
<1>3. ASSUME NEW h \in Host, Main(h)
      PROVE Access(h) \/ (memory' = memory /\ \A g \in Host : SameWrites(g))
  <2>1. CASE \/ FaultMiss(h) \/ FaultInvalid(h) \/ ReadNotices(h) \/ FetchDiff(h) \/ FaultWrite(h)
             \/ FaultProtect(h) \/ End(h)
    BY <1>1, <2>1 DEF FaultMiss, FaultInvalid, ReadNotices, FetchDiff, FaultWrite, FaultProtect, End, mem
  <2>2. CASE Resolved(h) \/ FaultTwin(h) \/ FaultWritable(h)
    BY <2>2, ResolvedWrites DEF Resolved, FaultTwin, FaultWritable
  <2>3. CASE FaultNotice(h)
    BY <2>3, FaultNoticeWrites DEF FaultNotice
  <2> QED BY <1>3, <2>1, <2>2, <2>3 DEF Main
<1>4. ASSUME NEW m \in msgs, Dispatch(m) PROVE memory' = memory /\ \A g \in Host : SameWrites(g)
  <2>1. CASE HandleFetchWNI(m)
    BY <1>1, <2>1 DEF HandleFetchWNI, mem
  <2>2. CASE HandleFetchPage(m)
    BY <2>2, HandleFetchPageWrites DEF HandleFetchPage
  <2>3. CASE HandleFetchDiff(m)
    BY <2>3, HandleFetchDiffWrites DEF HandleFetchDiff
  <2>4. CASE HandleGrantPage(m)
    BY <2>4, HandleGrantPageWrites DEF HandleGrantPage
  <2>5. CASE HandleGrantDiff(m)
    BY <2>5, HandleGrantDiffWrites DEF HandleGrantDiff
  <2>6. CASE HandleGrantWNI(m) \/ HandleEnterBarrierInfo(m) \/ HandleExitBarrierInfo(m)
    BY <2>6, InformedWrites DEF HandleGrantWNI, HandleEnterBarrierInfo, HandleExitBarrierInfo
  <2> QED BY <1>4, <2>1, <2>2, <2>3, <2>4, <2>5, <2>6 DEF Dispatch
<1>5. ASSUME CompleteBarrier PROVE memory' = memory /\ \A g \in Host : SameWrites(g)
  BY <1>5, CompleteBarrierWrites DEF CompleteBarrier
<1>6. ASSUME UNCHANGED vars PROVE memory' = memory /\ \A g \in Host : SameWrites(g)
  BY <1>1, <1>6 DEF vars
<1>7. (\E h \in Host : Access(h)) \/ (memory' = memory /\ \A g \in Host : SameWrites(g))
  <2>1. CASE Next
    BY <1>2, <1>3, <1>4, <1>5, <2>1 DEF Next
  <2> QED BY <1>6, <2>1
<1> QED BY <1>0, <1>7, AccessWrites, NothingWritten

(* At the start nothing is written. *)
LEMMA WrittenInit == ASSUME Init PROVE WrittenOnce
<1>1. PICK n \in Nat : n = hostnum
  BY HostNumAssumption
<1>2. PICK list : list = << >>
  OBVIOUS
<1>3. list \in Seq(NoticeRecord) /\ Len(list) = 0
  BY <1>2
<1>4. ASSUME NEW c \in Cell PROVE InDiffs(list, c) = 0
  <2>1. PICK f \in [1 .. 0 -> Int] : InDiffs(list, c) = Sum(f, 0)
    BY <1>3, ShareType
  <2>2. PICK s \in [0 .. 0 -> Int] : s[0] = 0 /\ Sum(f, 0) = s[0]
    <3>1. 0 \in Nat
      OBVIOUS
    <3> QED BY <3>1, SumSteps
  <2> QED BY <2>1, <2>2
<1>5. ASSUME NEW p \in PageIndex, NEW c \in Cell
      PROVE memory[p][c] = Sum([i \in 1 .. hostnum |-> Written(i - 1, p, c)], hostnum) % BYTE
  <2>1. \A h \in Host : Written(h, p, c) = 0
    <3> TAKE h \in Host
    <3>1. notices[h][p][h] = list /\ pages[h][p].twin = None
      BY <1>2 DEF Init
    <3> QED BY <1>4, <3>1 DEF Written, SinceTwin
  <2>2. PICK f : f = [i \in 1 .. n |-> Written(i - 1, p, c)]
    OBVIOUS
  <2>3. f = [i \in 1 .. n |-> 0]
    BY <1>1, <2>1, <2>2 DEF Host
  <2>4. f \in [1 .. n -> Int] /\ \A i \in 1 .. n : f[i] = 0
    BY <2>3
  <2>5. PICK s \in [0 .. n -> Int] : s[0] = 0 /\ (\A k \in 1 .. n : s[k] = s[k - 1] + f[k]) /\ Sum(f, n) = s[n]
    BY <2>4, SumSteps
  <2> DEFINE T == {k \in 0 .. n : s[k] = 0}
  <2>6. 0 \in T /\ \A k \in 1 .. n : k - 1 \in T => k \in T
    BY <2>4, <2>5
  <2>7. \A k \in 0 .. n : k \in T
    <3> HIDE DEF T
    <3> QED BY <2>6, InductiveRange
  <2>8. Sum(f, n) = 0
    BY <2>5, <2>7
  <2>9. memory[p][c] = 0
    BY DEF Init, ZeroPage
  <2>10. 0 % BYTE = 0
    BY ByteAssumption
  <2> QED BY <1>1, <2>2, <2>8, <2>9, <2>10
<1> QED BY <1>5 DEF WrittenOnce

-----------------------------------------------------------------------------
(* The theorems *)

(* The invariant has the types of TypeOK *)
LEMMA TypesThen == ASSUME MemInv PROVE TypeOK
BY DEF MemInv, Types, DataTypes, ThreadTypes, Protected, Rights, Point, TypeOK

(* and the twins of TwinWhileWritable. *)
LEMMA TwinsThen == ASSUME MemInv PROVE TwinWhileWritable
<1>1. ASSUME NEW h \in Host, NEW p \in PageIndex, ~Faulting(h, p)
      PROVE /\ (pages[h][p].state = "WRITE") <=> (pages[h][p].twin # None)
            /\ \A i \in DOMAIN notices[h][p][h] :
                 (notices[h][p][h][i].diff = None) <=> (i = 1 /\ pages[h][p].state = "WRITE")
  <2>1. TwinsAt(h, p)
    BY DEF MemInv, Twins
  <2>2. ~(pc[h] = "noticed" /\ p = op[h].page)
    BY <1>1 DEF Faulting, FaultPoints
  <2> QED BY <1>1, <2>1, <2>2 DEF TwinsAt, Bare
<1> QED BY <1>1 DEF TwinWhileWritable, Faulting

(* The invariants hold throughout. *)
LEMMA MemAlways == Spec /\ [][Undisturbed]_vars /\ TimestampsAdvance => [](MemInv /\ WrittenOnce)
<1> DEFINE Inv == MemInv /\ WrittenOnce
<1>1. Init => Inv
  BY MemInit, WrittenInit
<1>2. Inv /\ [Next]_vars /\ [Undisturbed]_vars /\ [Advance]_vars => Inv'
  <2> SUFFICES ASSUME Inv, [Next]_vars, [Undisturbed]_vars, [Advance]_vars PROVE Inv'
    OBVIOUS
  <2>1. Undisturbed
    <3>1. UNCHANGED vars => Undisturbed
      BY DEF vars, Undisturbed
    <3> QED BY <3>1
  <2>2. Advance
    <3>1. UNCHANGED vars => Advance
      BY DEF vars, Advance
    <3> QED BY <3>1
  <2>3. Types'
    BY <2>1, TypesStep
  <2>4. WrittenOnce'
    BY <2>1, <2>3, WrittenStep
  <2>5. MemInv'
    BY <2>1, <2>2, MemStep
  <2> QED BY <2>4, <2>5
<1>3. TimestampsAdvance <=> [][Advance]_vars
  BY DEF TimestampsAdvance, Advance
<1> HIDE DEF Inv
<1>4. Spec /\ [][Undisturbed]_vars /\ TimestampsAdvance => []Inv
  BY <1>1, <1>2, <1>3, PTL DEF Spec
<1> QED BY <1>4 DEF Inv

(* Every timestamp has a place per host, every notice a diff or none, every   *)
(* page its contents, twin and state, whatever the programs of the hosts do:  *)
(* what incorporateWnPacket, createWriteNotice, grantDiff and fetchDiff put   *)
(* into the lists and what the messages carry is what the code that reads     *)
(* them expects.                                                              *)
THEOREM TypeCorrect == Spec /\ [][Undisturbed]_vars /\ TimestampsAdvance => []TypeOK
<1>1. MemInv /\ WrittenOnce => TypeOK
  BY TypesThen
<1> QED BY <1>1, MemAlways, PTL

(* segv_handler, grantDiff and incorporateWnPacket agree on twins: a page has *)
(* one exactly while it is writable, and exactly then the newest notice of    *)
(* its host has no diff, so that grantDiff never makes a diff without a twin  *)
(* and never leaves a change without a diff to be made.                       *)
THEOREM TwinsCorrect == Spec /\ [][Undisturbed]_vars /\ TimestampsAdvance => []TwinWhileWritable
<1>1. MemInv /\ WrittenOnce => TwinWhileWritable
  BY TwinsThen
<1> QED BY <1>1, MemAlways, PTL

(* No write is lost or counted twice by the twins and diffs of mem.c: what    *)
(* memory should hold is, byte by byte and modulo the width of a byte, the    *)
(* sum of the diffs that the writers made (createLocalDiff, in grantDiff and  *)
(* in incorporateWnPacket) and of what they changed since their twins.        *)
THEOREM WritesCorrect == Spec /\ [][Undisturbed]_vars /\ TimestampsAdvance => []WrittenOnce
<1>1. MemInv /\ WrittenOnce => WrittenOnce
  OBVIOUS
<1> QED BY <1>1, MemAlways, PTL

-----------------------------------------------------------------------------
(* What is known of a host, the host has: notices, intervals, pages *)

(* Host j has a notice of its own for page p with timestamp ts; a page.      *)
Owned(j, p, ts) == Timed(notices[j][p][j], ts)
Mapped(j, p) == pages[j][p].state # "MISS"

News == {"GRANT_WN_I", "GRANT_ENTER_BARRIER_INFO", "GRANT_EXIT_BARRIER_INFO"}

(* A message on its way to g tells of an interval ts of j that names p. *)
ToldOf(g, j, ts, p) ==
  \E m \in msgs : /\ m.command \in News /\ m.to = g
                  /\ Told(PacketsGiven(m.body.packets), j, ts, p)

(* How a step changes what hosts have and know: they keep their notices and   *)
(* their pages, and what they learn comes from a message.                     *)
HavesKept ==
  \A j \in Host, p \in PageIndex :
    /\ \A ts : Owned(j, p, ts) => Owned(j, p, ts)'
    /\ Mapped(j, p) => Mapped(j, p)'
    /\ notices'[j][p][j] # << >> => notices[j][p][j] # << >> \/ Mapped(j, p)'

NoticesFrom ==
  \A g, j \in Host, p \in PageIndex : g # j =>
    \A i \in DOMAIN notices'[g][p][j] :
      \/ Timed(notices[g][p][j], notices'[g][p][j][i].timestamp)
      \/ ToldOf(g, j, notices'[g][p][j][i].timestamp, p)

IntervalsFrom ==
  \A g, j \in Host : \A i \in DOMAIN intervals'[g][j] : \A p \in intervals'[g][j][i].noticed :
    \/ Noted(intervals[g][j], intervals'[g][j][i].timestamp, p)
    \/ ToldOf(g, j, intervals'[g][j][i].timestamp, p)
    \/ Timed(notices'[j][p][j], intervals'[g][j][i].timestamp)

Retained == HavesKept /\ NoticesFrom /\ IntervalsFrom

(* Steps that leave the notices alone and take no page away. *)
LEMMA HavesSame ==
  ASSUME UNCHANGED notices, \A g \in Host, p \in PageIndex : Mapped(g, p) => Mapped(g, p)'
  PROVE HavesKept /\ NoticesFrom
<1>1. HavesKept
  BY DEF HavesKept, Owned
<1>2. NoticesFrom
  BY DEF NoticesFrom, Timed
<1> QED BY <1>1, <1>2

(* Steps that leave the intervals alone. *)
LEMMA IntervalsSame == ASSUME UNCHANGED intervals PROVE IntervalsFrom
BY DEF IntervalsFrom, Noted

(* addNewInterval: the new interval names no page. *)
LEMMA AddedKept ==
  ASSUME DataTypes, OwnNewest, NEW h \in Host, addNewInterval(h), UNCHANGED <<notices, pages>>
  PROVE Retained
<1>1. HavesKept /\ NoticesFrom
  BY HavesSame DEF Mapped
<1>2. PICK v \in IntervalRecord :
          /\ v.noticed = {}
          /\ \A g, j \in Host : g # h \/ j # h => intervals'[g][j] = intervals[g][j]
          /\ \A i \in DOMAIN intervals'[h][h] :
               intervals'[h][h][i] = v \/ \E k \in DOMAIN intervals[h][h] : intervals'[h][h][i] = intervals[h][h][k]
  BY AddedLists
<1>3. ASSUME NEW g \in Host, NEW j \in Host, NEW i \in DOMAIN intervals'[g][j],
             NEW p \in intervals'[g][j][i].noticed
      PROVE Noted(intervals[g][j], intervals'[g][j][i].timestamp, p)
  <2>1. CASE g # h \/ j # h
    BY <1>2, <2>1 DEF Noted
  <2>2. CASE g = h /\ j = h
    BY <1>2, <2>2 DEF Noted
  <2> QED BY <2>1, <2>2
<1>4. IntervalsFrom
  BY <1>3 DEF IntervalsFrom
<1> QED BY <1>1, <1>4 DEF Retained

(* createWriteNotice: the page that the interval names gets its notice. *)
LEMMA NoticedKept ==
  ASSUME MemInv, NEW h \in Host, FaultNotice(h), createWriteNotice(h, op[h].page),
         Cur(h).state = "RDONLY"
  PROVE Retained
<1>0. Types /\ DataTypes /\ OwnNewest
  BY DEF MemInv, Types
<1>1. PICK p \in PageIndex : p = op[h].page
  BY <1>0, NamedOp
<1>2. /\ \A g, j \in Host : g # h \/ j # h => intervals'[g][j] = intervals[g][j]
      /\ DOMAIN intervals'[h][h] = DOMAIN intervals[h][h]
      /\ \A i \in DOMAIN intervals[h][h] :
           /\ intervals'[h][h][i].timestamp = intervals[h][h][i].timestamp
           /\ \/ intervals'[h][h][i].noticed = intervals[h][h][i].noticed
              \/ /\ intervals'[h][h][i].timestamp = now[h]
                 /\ intervals'[h][h][i].noticed = intervals[h][h][i].noticed \cup {p}
  BY <1>0, <1>1, NoticedLists
<1>3. PICK x \in NoticeRecord, more \in Seq(NoticeRecord) :
        /\ x.timestamp = now[h] /\ x.diff = None /\ more = <<x>> \o notices[h][p][h]
        /\ \A g \in Host, q \in PageIndex, j \in Host :
             notices'[g][q][j] = IF g = h /\ q = p /\ j = h THEN more ELSE notices[g][q][j]
  BY <1>0, <1>1, NoticedLists, Zenon
<1>4. PICK list \in Seq(NoticeRecord) : list = notices[h][p][h]
  BY <1>0 DEF DataTypes
<1>5. more = <<x>> \o list
  BY <1>3, <1>4
<1>6. /\ more # << >> /\ more[1] = x /\ 1 \in DOMAIN more
      /\ \A k \in DOMAIN list : k + 1 \in DOMAIN more /\ more[k + 1] = list[k]
  BY <1>5, SeqPrepend
<1>7. pages' = pages /\ pages[h][p].state # "MISS"
  BY <1>1 DEF FaultNotice, Cur
<1>8. \A ts : Timed(list, ts) => Timed(more, ts)
  BY <1>6 DEF Timed
<1>9. Timed(more, now[h])
  BY <1>3, <1>6 DEF Timed
<1>10. \A j \in Host, q \in PageIndex : notices'[j][q][j] = IF j = h /\ q = p THEN more ELSE notices[j][q][j]
  BY <1>3
<1>11. HavesKept
  <2> SUFFICES ASSUME NEW j \in Host, NEW q \in PageIndex
               PROVE /\ \A ts : Owned(j, q, ts) => Owned(j, q, ts)'
                     /\ Mapped(j, q) => Mapped(j, q)'
                     /\ notices'[j][q][j] # << >> => notices[j][q][j] # << >> \/ Mapped(j, q)'
    BY DEF HavesKept
  <2>1. CASE j = h /\ q = p
    BY <1>4, <1>7, <1>8, <1>10, <2>1 DEF Owned, Mapped
  <2>2. CASE ~(j = h /\ q = p)
    BY <1>7, <1>10, <2>2 DEF Owned, Mapped
  <2> QED BY <2>1, <2>2
<1>12. NoticesFrom
  <2>1. \A g, j \in Host, q \in PageIndex : g # j => notices'[g][q][j] = notices[g][q][j]
    BY <1>3
  <2> QED BY <2>1 DEF NoticesFrom, Timed
<1>13. IntervalsFrom
  <2> SUFFICES ASSUME NEW g \in Host, NEW j \in Host, NEW i \in DOMAIN intervals'[g][j],
                      NEW q \in intervals'[g][j][i].noticed
               PROVE \/ Noted(intervals[g][j], intervals'[g][j][i].timestamp, q)
                     \/ Timed(notices'[j][q][j], intervals'[g][j][i].timestamp)
    BY DEF IntervalsFrom
  <2>1. CASE g # h \/ j # h
    BY <1>2, <2>1 DEF Noted
  <2>2. CASE g = h /\ j = h
    <3>1. i \in DOMAIN intervals[h][h] /\ intervals'[h][h][i].timestamp = intervals[h][h][i].timestamp
      BY <1>2, <2>2
    <3>2. CASE q \in intervals[h][h][i].noticed
      BY <2>2, <3>1, <3>2 DEF Noted
    <3>3. CASE q \notin intervals[h][h][i].noticed
      <4>1. intervals'[h][h][i].timestamp = now[h] /\ q = p
        BY <1>2, <2>2, <3>1, <3>3
      <4>2. notices'[h][p][h] = more
        BY <1>3
      <4> QED BY <1>9, <2>2, <4>1, <4>2
    <3> QED BY <3>2, <3>3
  <2> QED BY <2>1, <2>2
<1> QED BY <1>11, <1>12, <1>13 DEF Retained

(* A step at one page that neither takes it away nor touches the notices. *)
LEMMA PageKept ==
  ASSUME DataTypes, NEW h \in Host, NEW p \in PageIndex, NEW v \in PageRecord,
         pages' = [pages EXCEPT ![h][p] = v], Mapped(h, p) => v.state # "MISS",
         UNCHANGED <<intervals, notices>>
  PROVE Retained
<1>1. \A g \in Host, q \in PageIndex : pages'[g][q] = IF g = h /\ q = p THEN v ELSE pages[g][q]
  BY DataPage
<1>2. \A g \in Host, q \in PageIndex : Mapped(g, q) => Mapped(g, q)'
  BY <1>1 DEF Mapped
<1>3. HavesKept /\ NoticesFrom
  BY <1>2, HavesSame
<1> QED BY <1>3, IntervalsSame DEF Retained

(* A step that changes neither. *)
LEMMA SameKept == ASSUME UNCHANGED <<intervals, notices, pages>> PROVE Retained
<1>1. UNCHANGED <<intervals, notices, pages>>
  BY DEF mem
<1>2. HavesKept /\ NoticesFrom
  BY <1>1, HavesSame DEF Mapped
<1> QED BY <1>1, <1>2, IntervalsSame DEF Retained

(* A diff put into a notice of host j at h, and its page. *)
LEMMA FilledKept ==
  ASSUME DataTypes, NEW h \in Host, NEW p \in PageIndex, NEW j \in Host,
         NEW next \in Seq(NoticeRecord), NEW at, NEW d, Filled(notices[h][p][j], next, at, d),
         notices' = [notices EXCEPT ![h][p][j] = next],
         NEW v \in PageRecord, pages' = [pages EXCEPT ![h][p] = v],
         Mapped(h, p) => v.state # "MISS", UNCHANGED intervals
  PROVE Retained
<1>1. \A g \in Host, q \in PageIndex : pages'[g][q] = IF g = h /\ q = p THEN v ELSE pages[g][q]
  BY DataPage
<1>2. \A g \in Host, q \in PageIndex, i \in Host :
        notices'[g][q][i] = IF g = h /\ q = p /\ i = j THEN next ELSE notices[g][q][i]
  <2>1. Put3(notices', notices, h, p, j, next, Host, PageIndex, Host, Seq(NoticeRecord))
    BY NoticesPut, Zenon
  <2> QED BY <2>1 DEF Put3
<1>3. PICK list \in Seq(NoticeRecord) : list = notices[h][p][j]
  BY DEF DataTypes
<1>4. DOMAIN next = DOMAIN list /\ \A i \in DOMAIN list : next[i].timestamp = list[i].timestamp
  BY <1>3 DEF Filled
<1>5. next # << >> => list # << >>
  BY <1>4
<1>6. \A ts : Timed(next, ts) <=> Timed(list, ts)
  BY <1>4 DEF Timed
<1>7. \A g \in Host, q \in PageIndex, i \in Host : \A ts :
        Timed(notices'[g][q][i], ts) <=> Timed(notices[g][q][i], ts)
  BY <1>2, <1>3, <1>6
<1>8. \A g \in Host, q \in PageIndex, i \in Host : notices'[g][q][i] # << >> => notices[g][q][i] # << >>
  BY <1>2, <1>3, <1>5
<1>9. \A g \in Host, q \in PageIndex : Mapped(g, q) => Mapped(g, q)'
  BY <1>1 DEF Mapped
<1>10. HavesKept
  BY <1>7, <1>8, <1>9 DEF HavesKept, Owned
<1>11. NoticesFrom
  <2>1. \A g, i \in Host, q \in PageIndex : \A k \in DOMAIN notices'[g][q][i] :
          Timed(notices'[g][q][i], notices'[g][q][i][k].timestamp)
    BY DEF Timed
  <2>2. \A g, i \in Host, q \in PageIndex : \A k \in DOMAIN notices'[g][q][i] :
          Timed(notices[g][q][i], notices'[g][q][i][k].timestamp)
    BY <1>7, <2>1, Zenon
  <2> QED BY <2>2, Zenon DEF NoticesFrom
<1> QED BY <1>10, <1>11, IntervalsSame DEF Retained

(* incorporateWnPacket: what is new comes from the packets, none of which is  *)
(* about the host itself.                                                     *)
LEMMA GainsKept ==
  ASSUME MemInv, NEW h \in Host, NEW own, own = None \/ (own \in IntervalRecord /\ own.noticed = {}),
         NEW packets \in Seq(PacketRecord), \A i \in DOMAIN packets : packets[i].hostid # h,
         NEW base, NEW t, Gains(h, own, packets, base, t), memory' = memory,
         packets = << >> \/ \E m \in msgs :
           /\ m.command \in News /\ m.to = h /\ packets = m.body.packets
  PROVE Retained
<1>0. DataTypes
  BY DEF MemInv, Types
<1>1. /\ notices'[h] = t.notices /\ pages'[h] = t.pages
      /\ \A g \in Host : g # h => /\ intervals'[g] = intervals[g] /\ notices'[g] = notices[g]
                                  /\ pages'[g] = pages[g]
  BY <1>0, DataGains
<1>2. PICK news : news = PacketsGiven(packets)
  OBVIOUS
<1>3. /\ NewNotices(h, base, t, news) /\ NewPages(base, t)
      /\ base.notices = notices[h] /\ base.pages = pages[h] /\ t \in LocalRecord
  BY <1>2 DEF Gains, Learned, Based
<1>4. \A j \in Host : \A ts, p : Told(news, j, ts, p) => j # h /\ ToldOf(h, j, ts, p)
  <2> SUFFICES ASSUME NEW j \in Host, NEW ts, NEW p, Told(news, j, ts, p)
               PROVE j # h /\ ToldOf(h, j, ts, p)
    OBVIOUS
  <2>1. PICK k \in news : k.hostid = j /\ k.timestamp = ts /\ p \in k.noticed
    BY DEF Told
  <2>2. PICK i \in DOMAIN packets : k = packets[i]
    BY <1>2, <2>1 DEF PacketsGiven
  <2>3. packets # << >>
    BY <2>2
  <2>4. PICK m \in msgs : m.command \in News /\ m.to = h /\ packets = m.body.packets
    BY <2>3
  <2>5. Told(PacketsGiven(m.body.packets), j, ts, p)
    BY <1>2, <2>4
  <2> QED BY <2>1, <2>2, <2>4, <2>5 DEF ToldOf
<1>5. ASSUME NEW j \in Host, NEW p \in PageIndex, NEW i \in DOMAIN notices'[h][p][j]
      PROVE \/ Timed(notices[h][p][j], notices'[h][p][j][i].timestamp)
            \/ Told(news, j, notices'[h][p][j][i].timestamp, p)
  BY <1>1, <1>3, <1>5 DEF NewNotices
<1>6. NoticesFrom
  <2> SUFFICES ASSUME NEW g \in Host, NEW j \in Host, NEW p \in PageIndex, g # j,
                      NEW i \in DOMAIN notices'[g][p][j]
               PROVE \/ Timed(notices[g][p][j], notices'[g][p][j][i].timestamp)
                     \/ ToldOf(g, j, notices'[g][p][j][i].timestamp, p)
    BY DEF NoticesFrom
  <2>1. CASE g = h
    BY <1>4, <1>5, <2>1
  <2>2. CASE g # h
    BY <1>1, <2>2 DEF Timed
  <2> QED BY <2>1, <2>2
<1>7. HavesKept
  <2> SUFFICES ASSUME NEW j \in Host, NEW p \in PageIndex
               PROVE /\ \A ts : Owned(j, p, ts) => Owned(j, p, ts)'
                     /\ Mapped(j, p) => Mapped(j, p)'
                     /\ notices'[j][p][j] # << >> => notices[j][p][j] # << >>
    BY DEF HavesKept
  <2>1. CASE j # h
    BY <1>1, <2>1 DEF Owned, Mapped
  <2>2. CASE j = h
    <3>1. ASSUME NEW ts, Timed(notices[h][p][h], ts) PROVE Timed(notices'[h][p][h], ts)
      <4>1. PICK i \in DOMAIN notices[h][p][h] : notices[h][p][h][i].timestamp = ts
        BY <3>1 DEF Timed
      <4>2. Timed(t.notices[p][h], base.notices[p][h][i].timestamp)
        BY <1>3, <4>1 DEF NewNotices
      <4> QED BY <1>1, <1>3, <4>1, <4>2
    <3>2. Mapped(h, p) => Mapped(h, p)'
      BY <1>1, <1>3 DEF NewPages, Mapped
    <3>3. ASSUME notices'[h][p][h] # << >> PROVE notices[h][p][h] # << >>
      <4>1. notices'[h][p][h] \in Seq(NoticeRecord)
        BY <1>1, <1>3 DEF LocalRecord
      <4>2. 1 \in DOMAIN notices'[h][p][h]
        BY <3>3, <4>1
      <4>3. Timed(notices[h][p][h], notices'[h][p][h][1].timestamp)
        BY <1>4, <1>5, <4>2
      <4> QED BY <4>3 DEF Timed
    <3> QED BY <2>2, <3>1, <3>2, <3>3 DEF Owned
  <2> QED BY <2>1, <2>2
<1>8. ASSUME NEW j \in Host, NEW i \in DOMAIN intervals'[h][j], NEW p \in intervals'[h][j][i].noticed
      PROVE \/ Noted(intervals[h][j], intervals'[h][j][i].timestamp, p)
            \/ Told(news, j, intervals'[h][j][i].timestamp, p)
  <2>1. own # None => own.noticed = {}
    BY <1>8, StampIsSome DEF IntervalRecord
  <2>2. \/ Noted(intervals[h][j], intervals'[h][j][i].timestamp, p)
        \/ own # None /\ j = h /\ intervals'[h][j][i].timestamp = own.timestamp /\ p \in own.noticed
        \/ Told(PacketsGiven(packets), j, intervals'[h][j][i].timestamp, p)
    <3>1. own = None \/ own \in IntervalRecord
      OBVIOUS
    <3> QED BY <1>0, <3>1, GainedLists
  <2> QED BY <1>2, <2>1, <2>2
<1>9. IntervalsFrom
  <2> SUFFICES ASSUME NEW g \in Host, NEW j \in Host, NEW i \in DOMAIN intervals'[g][j],
                      NEW p \in intervals'[g][j][i].noticed
               PROVE \/ Noted(intervals[g][j], intervals'[g][j][i].timestamp, p)
                     \/ ToldOf(g, j, intervals'[g][j][i].timestamp, p)
    BY DEF IntervalsFrom
  <2>1. CASE g = h
    BY <1>4, <1>8, <2>1
  <2>2. CASE g # h
    BY <1>1, <2>2 DEF Noted
  <2> QED BY <2>1, <2>2
<1> QED BY <1>6, <1>7, <1>9 DEF Retained

(* No step takes a notice or a page from a host, and every step that brings   *)
(* knowledge of a host takes it from a message.                               *)
LEMMA KeptStep ==
  ASSUME Undisturbed, MemInv, [Next]_vars
  PROVE Retained
<1>0. Types /\ DataTypes /\ OwnNewest /\ 0 \in Host
  BY ZeroHost DEF MemInv, Types
<1>1. ASSUME NEW h \in Host, Begin(h) PROVE Retained
  <2>1. UNCHANGED <<intervals, notices, pages>> \/ (addNewInterval(h) /\ UNCHANGED <<notices, pages>>)
    BY <1>1 DEF Begin, mem
  <2> QED BY <1>0, <2>1, SameKept, AddedKept
<1>2. ASSUME NEW h \in Host, Main(h) PROVE Retained
  <2>0. pc[h] \notin {"app", "barrier"}
    BY <1>2 DEF Main, FaultMiss, FaultInvalid, ReadNotices, FetchDiff, Resolved, FaultWrite,
                FaultTwin, FaultNotice, FaultWritable, FaultProtect, Access, End, Running
  <2>1. PICK p \in PageIndex : p = op[h].page
    BY <1>0, <2>0, OpPage
  <2>2. PICK pg \in PageRecord : pg = pages[h][p]
    BY <1>0 DEF DataTypes
  <2>3. CASE \/ FaultMiss(h) \/ FaultInvalid(h) \/ ReadNotices(h) \/ FetchDiff(h) \/ FaultWrite(h)
             \/ FaultProtect(h)
    BY <2>3, SameKept DEF FaultMiss, FaultInvalid, ReadNotices, FetchDiff, FaultWrite, FaultProtect, mem
  <2>4. CASE Resolved(h) \/ FaultWritable(h)
    <3>1. PICK w \in {"RDONLY", "WRITE"} : pages' = [pages EXCEPT ![h][p].state = w]
      BY <2>1, <2>4 DEF Resolved, FaultWritable
    <3>2. PICK v : v = [pg EXCEPT !.state = w]
      OBVIOUS
    <3>3. v \in PageRecord /\ v.state = w /\ w # "MISS"
      BY <3>2 DEF PageRecord
    <3>4. pages' = [pages EXCEPT ![h][p] = v]
      BY <2>2, <3>1, <3>2
    <3>5. UNCHANGED <<intervals, notices>>
      BY <2>4 DEF Resolved, FaultWritable
    <3> QED BY <1>0, <3>3, <3>4, <3>5, PageKept
  <2>5. CASE FaultTwin(h)
    <3>1. PICK v : v = createTwinPage(pg)
      OBVIOUS
    <3>2. v \in PageRecord /\ v.state = pg.state
      BY <3>1 DEF createTwinPage, PageRecord
    <3>3. pages' = [pages EXCEPT ![h][p] = v]
      BY <2>1, <2>2, <2>5, <3>1 DEF FaultTwin
    <3>4. UNCHANGED <<intervals, notices>> /\ (Mapped(h, p) => v.state # "MISS")
      BY <2>2, <2>5, <3>2 DEF FaultTwin, Mapped
    <3> QED BY <1>0, <3>2, <3>3, <3>4, PageKept
  <2>6. CASE FaultNotice(h)
    <3>1. CASE Cur(h).state = "RDONLY"
      <4>1. createWriteNotice(h, op[h].page)
        BY <2>6, <3>1 DEF FaultNotice
      <4> QED BY <2>6, <3>1, <4>1, NoticedKept
    <3>2. CASE Cur(h).state # "RDONLY"
      BY <2>6, <3>2, SameKept DEF FaultNotice, mem
    <3> QED BY <3>1, <3>2
  <2>7. CASE Access(h)
    <3>1. CASE op[h].inc
      <4>1. pages' = [pages EXCEPT ![h][p].data[op[h].cell] = (@ + 1) % BYTE]
            /\ UNCHANGED <<intervals, notices>>
        BY <2>1, <2>7, <3>1 DEF Access
      <4>2. PICK v : v = [pg EXCEPT !.data[op[h].cell] = (@ + 1) % BYTE]
        OBVIOUS
      <4>3. v.state = pg.state
        BY <4>2 DEF PageRecord
      <4>4. pages' = [pages EXCEPT ![h][p] = v]
        BY <2>2, <4>1, <4>2
      <4>5. pages'[h][p] = v
        BY <1>0, <4>4 DEF DataTypes
      <4>6. v \in PageRecord
        <5>1. Types'
          BY <1>2, TypesStep DEF Next
        <5>2. pages'[h][p] \in PageRecord
          BY <5>1 DEF Types, DataTypes
        <5> QED BY <4>5, <5>2
      <4>7. Mapped(h, p) => v.state # "MISS"
        BY <2>2, <4>3 DEF Mapped
      <4> QED BY <1>0, <4>1, <4>4, <4>6, <4>7, PageKept
    <3>2. CASE ~op[h].inc
      BY <2>7, <3>2, SameKept DEF Access, mem
    <3> QED BY <3>1, <3>2
  <2>8. CASE End(h)
    <3>1. UNCHANGED <<intervals, notices, pages>> \/ (addNewInterval(h) /\ UNCHANGED <<notices, pages>>)
      BY <2>8 DEF End, mem
    <3> QED BY <1>0, <3>1, SameKept, AddedKept
  <2> QED BY <1>2, <2>3, <2>4, <2>5, <2>6, <2>7, <2>8 DEF Main
<1>3. ASSUME NEW h \in Host, EnterBarrier(h) PROVE Retained
  BY <1>3, SameKept DEF EnterBarrier, mem
<1>4. ASSUME NEW m \in msgs, Dispatch(m) PROVE Retained
  <2>1. CASE HandleFetchWNI(m)
    BY <2>1, SameKept DEF HandleFetchWNI, mem
  <2>2. CASE HandleFetchPage(m)
    <3>1. m.to \in Host /\ m.body \in PageIndex
      BY <2>2, HandleFetchPageDoes
    <3>2. PICK v \in PageRecord :
             /\ v.state = pages[m.to][m.body].state \/ v.state = "RDONLY"
             /\ pages' = [pages EXCEPT ![m.to][m.body] = v]
      BY <2>2, HandleFetchPageDoes
    <3>3. Mapped(m.to, m.body) => v.state # "MISS"
      BY <3>2 DEF Mapped
    <3>4. UNCHANGED <<intervals, notices>>
      BY <2>2 DEF HandleFetchPage
    <3> QED BY <1>0, <3>1, <3>2, <3>3, <3>4, PageKept
  <2>3. CASE HandleFetchDiff(m)
    <3>1. m.to \in Host /\ m.body.page \in PageIndex
      BY <2>3, FetchDiffCases
    <3>2. CASE NoDiff(m)
      BY <2>3, <3>2, SameKept DEF NoDiff, HandleFetchDiff, mem
    <3>3. CASE \E at, d, next, v : GivesDiff(m, at, d, next, v)
      <4>1. PICK at, d, next, v : GivesDiff(m, at, d, next, v)
        BY <3>3
      <4>2. /\ next \in Seq(NoticeRecord) /\ v \in PageRecord
            /\ Filled(notices[m.to][m.body.page][m.to], next, at, d)
            /\ notices' = [notices EXCEPT ![m.to][m.body.page][m.to] = next]
            /\ pages' = [pages EXCEPT ![m.to][m.body.page] = v]
        BY <4>1 DEF GivesDiff
      <4>3. PICK pg \in PageRecord : pg = pages[m.to][m.body.page]
        BY <1>0, <3>1 DEF DataTypes
      <4>4. v = pg \/ v = [pg EXCEPT !.twin = None, !.state = "RDONLY"]
        BY <4>1, <4>3 DEF GivesDiff
      <4>5. Mapped(m.to, m.body.page) => v.state # "MISS"
        BY <4>3, <4>4 DEF Mapped, PageRecord
      <4>6. UNCHANGED intervals
        BY <2>3 DEF HandleFetchDiff
      <4> QED BY <1>0, <3>1, <4>2, <4>5, <4>6, FilledKept
    <3> QED BY <2>3, <3>2, <3>3, FetchDiffCases
  <2>4. CASE HandleGrantPage(m)
    <3>1. m \in Message /\ m.command = "GRANT_PAGE" /\ m.to \in Host
      BY <1>0, <2>4, Handles DEF MemInv, HandleGrantPage
    <3>2. PICK h \in Host, p \in PageIndex, x \in Page : h = m.to /\ p = m.body.page /\ x = m.body.data
      BY <3>1, Letters
    <3>3. PICK pg \in PageRecord : pg = pages[h][p]
      BY <1>0 DEF DataTypes
    <3>4. PICK ts \in Stamp : ts = now[h]
      BY <1>0 DEF DataTypes
    <3>5. PICK v : v = [pg EXCEPT !.data = x, !.start = ts]
      OBVIOUS
    <3>6. v \in PageRecord /\ v.state = pg.state
      BY <3>5 DEF PageRecord
    <3>7. pages' = [pages EXCEPT ![h][p] = v]
      <4>1. pages' = [pages EXCEPT ![h][p].data = x, ![h][p].start = ts]
        BY <2>4, <3>2, <3>4 DEF HandleGrantPage
      <4> QED BY <1>0, <3>3, <3>5, <4>1 DEF DataTypes
    <3>8. UNCHANGED <<intervals, notices>> /\ (Mapped(h, p) => v.state # "MISS")
      BY <2>4, <3>3, <3>6 DEF HandleGrantPage, Mapped
    <3> QED BY <1>0, <3>6, <3>7, <3>8, PageKept
  <2>5. CASE HandleGrantDiff(m)
    <3>1. m.to \in Host /\ m.from \in Host /\ m.body.page \in PageIndex
      BY <2>5, GrantDiffCases
    <3>2. CASE NoPlace(m)
      BY <2>5, <3>2, SameKept DEF NoPlace, HandleGrantDiff, mem
    <3>3. CASE \E at, d, next, v : TakesDiff(m, at, d, next, v)
      <4>1. PICK at, d, next, v : TakesDiff(m, at, d, next, v)
        BY <3>3
      <4>2. /\ next \in Seq(NoticeRecord) /\ v \in PageRecord
            /\ Filled(notices[m.to][m.body.page][m.from], next, at, d)
            /\ notices' = [notices EXCEPT ![m.to][m.body.page][m.from] = next]
            /\ pages' = [pages EXCEPT ![m.to][m.body.page] = v]
            /\ v.state = pages[m.to][m.body.page].state
        BY <4>1 DEF TakesDiff
      <4>3. Mapped(m.to, m.body.page) => v.state # "MISS"
        BY <4>2 DEF Mapped
      <4>4. UNCHANGED intervals
        BY <2>5 DEF HandleGrantDiff
      <4> QED BY <1>0, <3>1, <4>2, <4>3, <4>4, FilledKept
    <3> QED BY <2>5, <3>2, <3>3, GrantDiffCases
  <2>6. CASE HandleGrantWNI(m)
    <3>1. PICK own, base, t : own \in IntervalRecord /\ own.noticed = {} /\ Gains(m.to, own, m.body.packets, base, t)
      BY <2>6, GrantWNIGains
    <3>2. /\ m.to \in Host /\ m.body.packets \in Seq(PacketRecord) /\ m.command \in News
          /\ \A i \in DOMAIN m.body.packets : m.body.packets[i].hostid # m.to
      BY <2>6, InformedOf DEF HandleGrantWNI, News
    <3>3. memory' = memory
      BY <2>6 DEF HandleGrantWNI
    <3> QED BY <3>1, <3>2, <3>3, GainsKept
  <2>7. CASE HandleExitBarrierInfo(m)
    <3>1. PICK own, base, t : own \in IntervalRecord /\ own.noticed = {} /\ Gains(m.to, own, m.body.packets, base, t)
      BY <2>7, ExitGains
    <3>2. /\ m.to \in Host /\ m.body.packets \in Seq(PacketRecord) /\ m.command \in News
          /\ \A i \in DOMAIN m.body.packets : m.body.packets[i].hostid # m.to
      BY <2>7, InformedOf DEF HandleExitBarrierInfo, News
    <3>3. memory' = memory
      BY <2>7 DEF HandleExitBarrierInfo
    <3> QED BY <3>1, <3>2, <3>3, GainsKept
  <2>8. CASE HandleEnterBarrierInfo(m)
    <3>1. PICK own, base, t : own = None /\ Gains(0, own, m.body.packets, base, t)
      BY <2>8, EnterGains
    <3>2. /\ m.to = 0 /\ m.body.packets \in Seq(PacketRecord) /\ m.command \in News
          /\ \A i \in DOMAIN m.body.packets : m.body.packets[i].hostid # 0
      <4>1. m.to = 0
        BY <2>8, EnterGains
      <4> QED BY <2>8, <4>1, InformedOf DEF HandleEnterBarrierInfo, News
    <3>3. memory' = memory
      BY <2>8 DEF HandleEnterBarrierInfo
    <3> QED BY <1>0, <3>1, <3>2, <3>3, GainsKept
  <2> QED BY <1>4, <2>1, <2>2, <2>3, <2>4, <2>5, <2>6, <2>7, <2>8 DEF Dispatch
<1>5. CASE CompleteBarrier
  <2>1. PICK own, base, t, packets : /\ own \in IntervalRecord /\ own.noticed = {}
          /\ packets = << >> /\ Gains(0, own, packets, base, t)
    BY <1>5, CompleteGains
  <2>2. /\ packets \in Seq(PacketRecord) /\ \A i \in DOMAIN packets : packets[i].hostid # 0
    BY <2>1
  <2>3. memory' = memory
    BY <1>5 DEF CompleteBarrier
  <2> QED BY <1>0, <2>1, <2>2, <2>3, GainsKept
<1>6. CASE UNCHANGED vars
  BY <1>6, SameKept DEF vars, mem
<1> QED BY <1>1, <1>2, <1>3, <1>4, <1>5, <1>6 DEF Next

(* Every notice, every page that an interval or a packet names and every diff *)
(* that is asked for, or to be asked for, is of a notice that its host has.   *)
NoticesOwned ==
  \A g, j \in Host, p \in PageIndex : \A i \in DOMAIN notices[g][p][j] :
    Owned(j, p, notices[g][p][j][i].timestamp)

IntervalsOwned ==
  \A g, j \in Host : \A i \in DOMAIN intervals[g][j] : \A p \in intervals[g][j][i].noticed :
    Owned(j, p, intervals[g][j][i].timestamp)

PacketsOwned ==
  \A m \in msgs : m.command \in News =>
    \A i \in DOMAIN m.body.packets : \A p \in m.body.packets[i].noticed :
      Owned(m.body.packets[i].hostid, p, m.body.packets[i].timestamp)

TodoOwned ==
  \A h \in Host : pc[h] \in {"diff", "diffWait"} =>
    \A i \in DOMAIN todo[h] : Owned(todo[h][i].hostid, op[h].page, todo[h][i].timestamp)

TodoIdle == \A h \in Host : pc[h] \notin {"diff", "diffWait"} => todo[h] = << >>

RequestsOwned ==
  \A m \in msgs :
    /\ m.command = "FETCH_DIFF" => Owned(m.to, m.body.page, m.body.timestamp)
    /\ m.command = "FETCH_PAGE" => Mapped(m.to, m.body)

(* A host has the pages that it wrote, and those it is the home of. *)
HomesMapped ==
  \A j \in Host, p \in PageIndex : notices[j][p][j] # << >> \/ p % hostnum = j => Mapped(j, p)

Backed == /\ NoticesOwned /\ IntervalsOwned /\ PacketsOwned
          /\ TodoOwned /\ TodoIdle /\ RequestsOwned /\ HomesMapped

(* What a message tells of is owned. *)
LEMMA ToldOwned ==
  ASSUME PacketsOwned, NEW g, NEW j, NEW ts, NEW p, ToldOf(g, j, ts, p)
  PROVE Owned(j, p, ts)
<1>1. PICK m \in msgs : m.command \in News /\ Told(PacketsGiven(m.body.packets), j, ts, p)
  BY DEF ToldOf
<1>2. PICK i \in DOMAIN m.body.packets :
        /\ m.body.packets[i].hostid = j /\ m.body.packets[i].timestamp = ts
        /\ p \in m.body.packets[i].noticed
  BY <1>1 DEF Told, PacketsGiven
<1> QED BY <1>1, <1>2 DEF PacketsOwned

(* Lists of notices and of intervals. *)
LEMMA ListsOwned ==
  ASSUME Retained, Backed, DataTypes'
  PROVE NoticesOwned' /\ IntervalsOwned' /\ HomesMapped'
<1>0. PacketsOwned /\ HavesKept
  BY DEF Backed, Retained
<1>1. ASSUME NEW g \in Host, NEW j \in Host, NEW p \in PageIndex, NEW i \in DOMAIN notices'[g][p][j]
      PROVE Timed(notices'[j][p][j], notices'[g][p][j][i].timestamp)
  <2>1. CASE g = j
    BY <2>1 DEF Timed
  <2>2. CASE g # j
    <3>1. PICK ts : ts = notices'[g][p][j][i].timestamp
      OBVIOUS
    <3>2. Timed(notices[g][p][j], ts) \/ ToldOf(g, j, ts, p)
      BY <2>2, <3>1 DEF Retained, NoticesFrom
    <3>3. Timed(notices[g][p][j], ts) => Owned(j, p, ts)
      BY DEF Timed, Backed, NoticesOwned
    <3>4. Owned(j, p, ts)
      BY <1>0, <3>2, <3>3, ToldOwned
    <3>5. Owned(j, p, ts)'
      BY <1>0, <3>4 DEF HavesKept
    <3> QED BY <3>1, <3>5 DEF Owned
  <2> QED BY <2>1, <2>2
<1>2. NoticesOwned'
  BY <1>1 DEF NoticesOwned, Owned
<1>3. ASSUME NEW g \in Host, NEW j \in Host, NEW i \in DOMAIN intervals'[g][j],
             NEW p \in intervals'[g][j][i].noticed
      PROVE Timed(notices'[j][p][j], intervals'[g][j][i].timestamp)
  <2>1. PICK ts : ts = intervals'[g][j][i].timestamp
    OBVIOUS
  <2>2. Noted(intervals[g][j], ts, p) \/ ToldOf(g, j, ts, p) \/ Timed(notices'[j][p][j], ts)
    BY <2>1 DEF Retained, IntervalsFrom
  <2>3. Noted(intervals[g][j], ts, p) => Owned(j, p, ts)
    BY DEF Noted, Backed, IntervalsOwned
  <2>4. p \in PageIndex
    <3>1. intervals'[g][j] \in Seq(IntervalRecord)
      BY DEF DataTypes
    <3>2. intervals'[g][j][i] \in IntervalRecord
      BY <3>1
    <3> QED BY <3>2 DEF IntervalRecord
  <2>5. Owned(j, p, ts) => Timed(notices'[j][p][j], ts)
    BY <1>0, <2>4 DEF HavesKept, Owned
  <2>6. ToldOf(g, j, ts, p) => Owned(j, p, ts)
    BY <1>0, ToldOwned
  <2> QED BY <2>1, <2>2, <2>3, <2>5, <2>6
<1>4. IntervalsOwned'
  BY <1>3 DEF IntervalsOwned, Owned
<1>5. HomesMapped'
  BY DEF HomesMapped, Backed, Retained, HavesKept
<1> QED BY <1>2, <1>4, <1>5

(* What is told is of an interval that some host knows. *)
LEMMA PacketsOwnedStep ==
  ASSUME Undisturbed, MemInv, [Next]_vars, Types', Retained, Backed
  PROVE PacketsOwned'
<1>0. HavesKept /\ msgs' \subseteq Message /\ PacketsOwned /\ IntervalsOwned
  BY DEF Retained, Types, Backed
<1> SUFFICES ASSUME NEW m \in msgs', m.command \in News, NEW i \in DOMAIN m.body.packets,
                    NEW p \in m.body.packets[i].noticed
             PROVE Owned(m.body.packets[i].hostid, p, m.body.packets[i].timestamp)'
  BY DEF PacketsOwned
<1>1. PICK k \in PacketRecord : k = m.body.packets[i]
  <2>1. m.body.packets \in Seq(PacketRecord)
    BY <1>0, Letters DEF News
  <2> QED BY <2>1
<1>2. k.hostid \in Host /\ p \in PageIndex /\ p \in k.noticed
  BY <1>1 DEF PacketRecord
<1>3. Owned(k.hostid, p, k.timestamp)
  <2>1. CASE m \in msgs
    BY <1>0, <1>1, <2>1 DEF PacketsOwned
  <2>2. CASE m \notin msgs
    <3>1. ToldWell(m)
      BY <2>2, NewsTold DEF News
    <3>2. KnownPacket(k.hostid, k)
      BY <1>1, <3>1 DEF ToldWell
    <3>3. PICK g \in Host : \E n \in DOMAIN intervals[g][k.hostid] : k = Packet(k.hostid, intervals[g][k.hostid][n])
      BY <3>2 DEF KnownPacket
    <3>4. PICK n \in DOMAIN intervals[g][k.hostid] : k = Packet(k.hostid, intervals[g][k.hostid][n])
      BY <3>3
    <3>5. /\ k.timestamp = intervals[g][k.hostid][n].timestamp
          /\ k.noticed = intervals[g][k.hostid][n].noticed
      BY <3>4 DEF Packet
    <3> QED BY <1>0, <1>2, <3>5 DEF IntervalsOwned
  <2> QED BY <2>1, <2>2
<1>4. Owned(k.hostid, p, k.timestamp)'
  BY <1>0, <1>2, <1>3 DEF HavesKept
<1> QED BY <1>1, <1>4

(* Where the requests that a host still has to make come from. *)
LEMMA TodoFrom ==
  ASSUME MemInv, [Next]_vars, NEW h \in Host, pc'[h] \in {"diff", "diffWait"}, TodoIdle
  PROVE /\ op'[h] = op[h] /\ op[h].page \in PageIndex
        /\ \/ /\ pc[h] \in {"diff", "diffWait"}
              /\ todo'[h] = todo[h] \/ (todo[h] # << >> /\ todo'[h] = Tail(todo[h]))
           \/ todo'[h] = << >>
           \/ \E j \in Host : todo'[h] = MissingFrom(h, op[h].page, j)
<1>0. Types /\ ThreadTypes
  BY DEF MemInv, Types
<1> DEFINE Goal == /\ op'[h] = op[h] /\ pc[h] \notin {"app", "barrier"}
                   /\ \/ /\ pc[h] \in {"diff", "diffWait"}
                         /\ todo'[h] = todo[h] \/ (todo[h] # << >> /\ todo'[h] = Tail(todo[h]))
                      \/ todo'[h] = << >>
                      \/ \E j \in Host : todo'[h] = MissingFrom(h, op[h].page, j)
<1>1. ASSUME pc'[h] = pc[h], op'[h] = op[h], todo'[h] = todo[h] PROVE Goal
  BY <1>1
<1>2. ASSUME NEW g \in Host, Begin(g) \/ EnterBarrier(g) PROVE Goal
  <2>1. g # h => pc'[h] = pc[h] /\ op'[h] = op[h] /\ todo'[h] = todo[h]
    BY <1>0, <1>2 DEF Begin, EnterBarrier, ThreadTypes
  <2>2. g = h => FALSE
    BY <1>0, <1>2 DEF Begin, EnterBarrier, ThreadTypes
  <2> QED BY <1>1, <2>1, <2>2
<1>3. ASSUME NEW g \in Host, Main(g) PROVE Goal
  <2>1. CASE g # h
    <3>1. pc'[h] = pc[h] /\ op'[h] = op[h] /\ todo'[h] = todo[h]
      BY <1>0, <1>3, <2>1 DEF Main, FaultMiss, FaultInvalid, ReadNotices, FetchDiff, Resolved,
              FaultWrite, FaultTwin, FaultNotice, FaultWritable, FaultProtect, Access, End, ThreadTypes
    <3> QED BY <1>1, <3>1
  <2>2. CASE g = h
    <3>1. FaultInvalid(h) \/ ReadNotices(h) \/ FetchDiff(h)
      BY <1>0, <1>3, <2>2 DEF Main, FaultMiss, Resolved, FaultWrite, FaultTwin, FaultNotice,
                              FaultWritable, FaultProtect, Access, End, ThreadTypes
    <3>2. CASE FaultInvalid(h)
      BY <1>0, <3>2 DEF FaultInvalid, Running, TodoIdle
    <3>3. CASE ReadNotices(h)
      BY <1>0, <3>3, ReadNoticesTypes DEF ReadNotices, Running, ThreadTypes
    <3>4. CASE FetchDiff(h)
      BY <1>0, <3>4 DEF FetchDiff, Running, ThreadTypes
    <3> QED BY <3>1, <3>2, <3>3, <3>4
  <2> QED BY <2>1, <2>2
<1>4. ASSUME NEW m \in msgs, Dispatch(m) PROVE Goal
  <2>1. CASE HandleGrantDiff(m)
    <3>1. m.to \in Host /\ pc[m.to] = "diffWait"
      BY <2>1, GrantDiffCases
    <3>2. op'[h] = op[h] /\ todo'[h] = todo[h] /\ (h = m.to \/ pc'[h] = pc[h])
      BY <1>0, <2>1, <3>1 DEF HandleGrantDiff, ThreadTypes
    <3> QED BY <3>1, <3>2
  <2>2. CASE ~HandleGrantDiff(m)
    <3>1. m.to \in Host
      BY <1>0, Letters DEF MemInv, Types
    <3>2. pc'[h] = pc[h] /\ op'[h] = op[h] /\ todo'[h] = todo[h]
      BY <1>0, <1>4, <2>2, <3>1
         DEF Dispatch, HandleFetchWNI, HandleFetchPage, HandleFetchDiff, HandleGrantWNI,
             HandleGrantPage, HandleEnterBarrierInfo, HandleExitBarrierInfo, ThreadTypes
    <3> QED BY <1>1, <3>2
  <2> QED BY <2>1, <2>2
<1>5. ASSUME CompleteBarrier PROVE Goal
  <2>1. 0 \in Host /\ pc'[h] = IF h = 0 THEN "app" ELSE pc[h]
    BY <1>0, <1>5, ZeroHost DEF CompleteBarrier, ThreadTypes
  <2>2. op'[h] = op[h] /\ todo'[h] = todo[h]
    BY <1>5 DEF CompleteBarrier
  <2> QED BY <1>1, <2>1, <2>2
<1>6. ASSUME UNCHANGED vars PROVE Goal
  BY <1>1, <1>6 DEF vars
<1>7. Goal
  <2> HIDE DEF Goal
  <2> QED BY <1>2, <1>3, <1>4, <1>5, <1>6 DEF Next
<1> QED BY <1>0, <1>7, OpPage

(* Requests for pages and diffs come from FaultMiss and FetchDiff. *)
AsksPage(h, m) ==
  pc[h] = "access" /\ m = Msg("FETCH_PAGE", h, PageSource(h, op[h].page), op[h].page)
AsksDiff(h, m) ==
  /\ pc[h] = "diff" /\ todo[h] # << >>
  /\ m = Msg("FETCH_DIFF", h, Head(todo[h]).hostid,
             [page |-> op[h].page, timestamp |-> Head(todo[h]).timestamp])

(* No other step asks for a page or a diff. *)
LEMMA RequestsFrom ==
  ASSUME MemInv, [Next]_vars, NEW m \in msgs', m \notin msgs,
         m.command \in {"FETCH_PAGE", "FETCH_DIFF"}
  PROVE \E h \in Host : AsksPage(h, m) \/ AsksDiff(h, m)
<1> DEFINE Goal == \E h \in Host : AsksPage(h, m) \/ AsksDiff(h, m)
<1>1. ASSUME NEW h \in Host, Begin(h) \/ EnterBarrier(h) PROVE Goal
  <2>1. PICK n : /\ n.command \in {"FETCH_WN_I", "GRANT_ENTER_BARRIER_INFO"}
                 /\ msgs' \subseteq msgs \cup {n}
    <3>1. PICK n1 : n1 = Msg("FETCH_WN_I", h, last[op'[h].lock], now[h])
      OBVIOUS
    <3>2. PICK n2 : n2 = Msg("GRANT_ENTER_BARRIER_INFO", h, 0,
                             [timestamp |-> now[h], packets |-> BarrierPackets(h)])
      OBVIOUS
    <3>3. op \in [Host -> Operation \cup {None}]
      BY DEF MemInv, Types, ThreadTypes
    <3>4. CASE Begin(h)
      <4>1. PICK o \in Program[h][phase[h]] :
               /\ op' = [op EXCEPT ![h] = o]
               /\ \/ msgs' = msgs
                  \/ msgs' = msgs \cup {Msg("FETCH_WN_I", h, last[o.lock], now[h])}
        BY <3>4 DEF Begin
      <4>2. op'[h] = o
        BY <3>3, <4>1
      <4>3. n1.command = "FETCH_WN_I"
        BY <3>1, MsgFields
      <4> QED BY <3>1, <4>1, <4>2, <4>3
    <3>5. CASE EnterBarrier(h)
      <4>1. msgs' = msgs \/ msgs' = msgs \cup {n2}
        BY <3>2, <3>5 DEF EnterBarrier
      <4>2. n2.command = "GRANT_ENTER_BARRIER_INFO"
        BY <3>2, MsgFields
      <4> QED BY <4>1, <4>2
    <3> QED BY <1>1, <3>4, <3>5
  <2> QED BY <2>1
<1>2. ASSUME NEW h \in Host, Main(h) PROVE Goal
  <2>1. CASE FaultMiss(h)
    BY <2>1 DEF FaultMiss, Running, AsksPage
  <2>2. CASE FetchDiff(h)
    BY <2>2 DEF FetchDiff, Running, AsksDiff
  <2>3. CASE ~FaultMiss(h) /\ ~FetchDiff(h)
    <3>1. msgs' = msgs
      BY <1>2, <2>3 DEF Main, FaultInvalid, ReadNotices, Resolved, FaultWrite, FaultTwin, FaultNotice,
                        FaultWritable, FaultProtect, Access, End
    <3> QED BY <3>1
  <2> QED BY <2>1, <2>2, <2>3
<1>3. ASSUME NEW q \in msgs, Dispatch(q) PROVE Goal
  <2>1. \/ msgs' \subseteq msgs
        \/ \E command \in {"GRANT_WN_I", "GRANT_PAGE", "GRANT_DIFF"} : \E body :
             msgs' = (msgs \ {q}) \cup {Msg(command, q.to, q.from, body)}
    <3>1. CASE HandleFetchWNI(q)
      BY <3>1 DEF HandleFetchWNI
    <3>2. CASE HandleFetchPage(q)
      BY <3>2, HandleFetchPageDoes
    <3>3. CASE HandleFetchDiff(q)
      BY <3>3 DEF HandleFetchDiff
    <3>4. CASE ~HandleFetchWNI(q) /\ ~HandleFetchPage(q) /\ ~HandleFetchDiff(q)
      BY <1>3, <3>4 DEF Dispatch, HandleGrantWNI, HandleGrantPage, HandleGrantDiff,
                        HandleEnterBarrierInfo, HandleExitBarrierInfo
    <3> QED BY <3>1, <3>2, <3>3, <3>4
  <2>2. CASE msgs' \subseteq msgs
    BY <2>2
  <2>3. CASE ~(msgs' \subseteq msgs)
    <3>1. PICK command, body :
             /\ command \in {"GRANT_WN_I", "GRANT_PAGE", "GRANT_DIFF"}
             /\ msgs' = (msgs \ {q}) \cup {Msg(command, q.to, q.from, body)}
      BY <2>1, <2>3
    <3>2. PICK n : n = Msg(command, q.to, q.from, body)
      OBVIOUS
    <3>3. m = n
      BY <3>1, <3>2
    <3>4. n.command = command
      BY <3>2 DEF Msg
    <3> QED BY <3>1, <3>3, <3>4
  <2> QED BY <2>2, <2>3
<1>4. ASSUME CompleteBarrier PROVE Goal
  <2>1. PICK h, body : m = Msg("GRANT_EXIT_BARRIER_INFO", 0, h, body)
    BY <1>4 DEF CompleteBarrier
  <2>2. m.command = "GRANT_EXIT_BARRIER_INFO"
    BY <2>1, MsgFields
  <2> QED BY <2>2
<1>5. ASSUME UNCHANGED vars PROVE Goal
  BY <1>5 DEF vars
<1>6. Goal
  <2> HIDE DEF Goal
  <2> QED BY <1>1, <1>2, <1>3, <1>4, <1>5 DEF Next
<1> QED BY <1>6

(* The page that is asked for is mapped where it is asked for, and the diff   *)
(* that is asked for is of a notice that is there.                            *)
LEMMA RequestsOwnedStep ==
  ASSUME MemInv, [Next]_vars, Retained, Backed, Types'
  PROVE RequestsOwned'
<1>0. HavesKept /\ Types /\ ThreadTypes /\ DataTypes /\ msgs' \subseteq Message
  BY DEF Retained, MemInv, Types
<1> SUFFICES ASSUME NEW m \in msgs'
             PROVE /\ m.command = "FETCH_DIFF" => Owned(m.to, m.body.page, m.body.timestamp)'
                   /\ m.command = "FETCH_PAGE" => Mapped(m.to, m.body)'
  BY DEF RequestsOwned
<1>1. /\ m.to \in Host
      /\ m.command = "FETCH_PAGE" => m.body \in PageIndex
      /\ m.command = "FETCH_DIFF" => m.body.page \in PageIndex
  BY <1>0, Letters
<1>2. /\ m.command = "FETCH_DIFF" => Owned(m.to, m.body.page, m.body.timestamp)
      /\ m.command = "FETCH_PAGE" => Mapped(m.to, m.body)
  <2>1. CASE m \in msgs
    BY <2>1 DEF Backed, RequestsOwned
  <2>2. CASE m \notin msgs /\ m.command \in {"FETCH_PAGE", "FETCH_DIFF"}
    <3>1. PICK h \in Host : AsksPage(h, m) \/ AsksDiff(h, m)
      BY <2>2, RequestsFrom
    <3>2. pc[h] \notin {"app", "barrier"}
      BY <3>1 DEF AsksPage, AsksDiff
    <3>3. PICK p \in PageIndex : p = op[h].page
      BY <1>0, <3>2, OpPage
    <3>4. CASE AsksPage(h, m)
      <4>1. PICK j : j = PageSource(h, p)
        OBVIOUS
      <4>2. /\ j \in Host
            /\ j = p % hostnum \/ notices[h][p][j] # << >>
        BY <4>1, PageSourceIs
      <4>3. m = Msg("FETCH_PAGE", h, j, p)
        BY <3>3, <3>4, <4>1 DEF AsksPage
      <4>4. m.command = "FETCH_PAGE" /\ m.to = j /\ m.body = p
        BY <4>3, MsgFields
      <4>5. notices[h][p][j] # << >> => notices[j][p][j] # << >>
        <5> SUFFICES ASSUME notices[h][p][j] # << >> PROVE notices[j][p][j] # << >>
          OBVIOUS
        <5>1. notices[h][p][j] \in Seq(NoticeRecord)
          BY <1>0, <4>2 DEF DataTypes
        <5>2. 1 \in DOMAIN notices[h][p][j]
          BY <5>1
        <5>3. Owned(j, p, notices[h][p][j][1].timestamp)
          BY <4>2, <5>2 DEF Backed, NoticesOwned
        <5> QED BY <5>3 DEF Owned, Timed
      <4>6. Mapped(j, p)
        BY <4>2, <4>5 DEF Backed, HomesMapped
      <4> QED BY <4>4, <4>6
    <3>5. CASE AsksDiff(h, m)
      <4>1. PICK list \in Seq(Missing) : list = todo[h]
        BY <1>0 DEF ThreadTypes
      <4>2. list # << >> /\ Head(list) = list[1] /\ 1 \in DOMAIN list
        BY <3>5, <4>1 DEF AsksDiff
      <4>3. m = Msg("FETCH_DIFF", h, list[1].hostid, [page |-> p, timestamp |-> list[1].timestamp])
        BY <3>3, <3>5, <4>1, <4>2 DEF AsksDiff
      <4>4. /\ m.command = "FETCH_DIFF" /\ m.to = list[1].hostid
            /\ m.body = [page |-> p, timestamp |-> list[1].timestamp]
        BY <4>3, MsgFields
      <4>5. m.body.page = p /\ m.body.timestamp = list[1].timestamp
        BY <4>4
      <4>6. Owned(list[1].hostid, p, list[1].timestamp)
        BY <3>3, <3>5, <4>1, <4>2 DEF AsksDiff, Backed, TodoOwned
      <4> QED BY <4>4, <4>5, <4>6
    <3> QED BY <3>1, <3>4, <3>5
  <2> QED BY <2>1, <2>2
<1>3. \A j \in Host, p \in PageIndex :
        /\ \A ts : Owned(j, p, ts) => Owned(j, p, ts)'
        /\ Mapped(j, p) => Mapped(j, p)'
  BY <1>0 DEF HavesKept
<1> QED BY <1>1, <1>2, <1>3

(* So do the requests that are still to be made. *)
LEMMA TodoOwnedStep ==
  ASSUME MemInv, [Next]_vars, Retained, Backed
  PROVE TodoOwned'
<1>0. HavesKept /\ Types /\ ThreadTypes /\ DataTypes /\ NoticesOwned /\ TodoOwned /\ TodoIdle
  BY DEF Retained, MemInv, Types, Backed
<1> SUFFICES ASSUME NEW h \in Host, pc'[h] \in {"diff", "diffWait"}, NEW i \in DOMAIN todo'[h]
             PROVE Owned(todo[h][i].hostid, op[h].page, todo[h][i].timestamp)'
  BY DEF TodoOwned
<1>1. /\ op'[h] = op[h] /\ op[h].page \in PageIndex
      /\ \/ /\ pc[h] \in {"diff", "diffWait"}
            /\ todo'[h] = todo[h] \/ (todo[h] # << >> /\ todo'[h] = Tail(todo[h]))
         \/ todo'[h] = << >>
         \/ \E j \in Host : todo'[h] = MissingFrom(h, op[h].page, j)
  BY <1>0, TodoFrom
<1>2. PICK p \in PageIndex : p = op[h].page
  BY <1>1
<1>3. PICK list \in Seq(Missing) : list = todo[h]
  BY <1>0 DEF ThreadTypes
<1>4. PICK k : k = todo'[h][i]
  OBVIOUS
<1>5. k.hostid \in Host /\ Owned(k.hostid, p, k.timestamp)
  <2>1. CASE pc[h] \in {"diff", "diffWait"} /\ \E n \in DOMAIN list : k = list[n]
    <3>1. PICK n \in DOMAIN list : k = list[n]
      BY <2>1
    <3>2. k \in Missing
      BY <3>1
    <3>3. Owned(list[n].hostid, p, list[n].timestamp)
      BY <1>0, <1>2, <1>3, <2>1, <3>1 DEF TodoOwned
    <3> QED BY <3>1, <3>2, <3>3 DEF Missing
  <2>2. CASE \E g \in Host : todo'[h] = MissingFrom(h, p, g)
    <3>0. PICK g \in Host : todo'[h] = MissingFrom(h, p, g)
      BY <2>2
    <3>1. PICK j \in Host : \E n \in DOMAIN notices[h][p][j] :
             k = [hostid |-> j, timestamp |-> notices[h][p][j][n].timestamp]
      <4>1. PICK s : s = MissingFrom(h, p, g)
        OBVIOUS
      <4>2. DataTypes
        BY <1>0
      <4>3. \A n \in DOMAIN s : \E j \in Host : \E l \in DOMAIN notices[h][p][j] :
              s[n] = [hostid |-> j, timestamp |-> notices[h][p][j][l].timestamp]
        BY <4>1, <4>2, MissingAsked
      <4>4. i \in DOMAIN s /\ k = s[i]
        BY <1>4, <3>0, <4>1
      <4> QED BY <4>3, <4>4
    <3>2. PICK n \in DOMAIN notices[h][p][j] :
             k = [hostid |-> j, timestamp |-> notices[h][p][j][n].timestamp]
      BY <3>1
    <3>3. k.hostid = j /\ k.timestamp = notices[h][p][j][n].timestamp
      BY <3>2
    <3>4. Owned(j, p, notices[h][p][j][n].timestamp)
      BY <1>0, <3>2 DEF NoticesOwned
    <3> QED BY <3>3, <3>4
  <2>3. CASE todo'[h] = list
    BY <1>1, <1>2, <1>3, <1>4, <2>1, <2>2, <2>3
  <2>4. CASE list # << >> /\ todo'[h] = Tail(list)
    <3>1. k = list[i + 1] /\ i + 1 \in DOMAIN list
      BY <1>3, <1>4, <2>4
    <3> QED BY <1>1, <1>2, <1>3, <2>1, <2>2, <3>1
  <2> QED BY <1>1, <1>2, <1>3, <2>2, <2>3, <2>4
<1>6. Owned(k.hostid, p, k.timestamp)'
  BY <1>0, <1>5 DEF HavesKept
<1> QED BY <1>1, <1>2, <1>4, <1>6

(* Requests are left only while fetchDiff runs. *)
LEMMA TodoIdleStep ==
  ASSUME MemInv, [Next]_vars, TodoIdle
  PROVE TodoIdle'
<1>0. Types /\ ThreadTypes
  BY DEF MemInv, Types
<1> SUFFICES ASSUME NEW h \in Host, pc'[h] \notin {"diff", "diffWait"} PROVE todo'[h] = << >>
  BY DEF TodoIdle
<1> DEFINE Goal == todo'[h] = todo[h] /\ (pc[h] \notin {"diff", "diffWait"} \/ todo[h] = << >>)
<1>1. ASSUME NEW g \in Host, Begin(g) \/ EnterBarrier(g) PROVE Goal
  BY <1>0, <1>1 DEF Begin, EnterBarrier, Running, ThreadTypes
<1>2. ASSUME NEW g \in Host, Main(g) PROVE Goal
  <2>1. CASE g # h
    BY <1>0, <1>2, <2>1 DEF Main, FaultMiss, FaultInvalid, ReadNotices, FetchDiff, Resolved,
              FaultWrite, FaultTwin, FaultNotice, FaultWritable, FaultProtect, Access, End, ThreadTypes
  <2>2. CASE g = h
    <3>1. ~ReadNotices(h) /\ ~FetchDiff(h)
      BY <1>0 DEF ReadNotices, FetchDiff, Running, ThreadTypes
    <3> QED BY <1>0, <1>2, <2>2, <3>1 DEF Main, FaultMiss, FaultInvalid, Resolved, FaultWrite, FaultTwin,
              FaultNotice, FaultWritable, FaultProtect, Access, End, Running, ThreadTypes
  <2> QED BY <2>1, <2>2
<1>3. ASSUME NEW m \in msgs, Dispatch(m) PROVE Goal
  <2>0. m.to \in Host /\ todo' = todo
    BY <1>0, <1>3, Letters DEF MemInv, Types, Dispatch, HandleFetchWNI, HandleFetchPage, HandleFetchDiff,
         HandleGrantWNI, HandleGrantPage, HandleGrantDiff, HandleEnterBarrierInfo, HandleExitBarrierInfo
  <2>1. CASE HandleGrantWNI(m) \/ HandleGrantPage(m) \/ HandleExitBarrierInfo(m)
    <3>1. Expected(m) /\ m.command \in {"GRANT_WN_I", "GRANT_PAGE", "GRANT_EXIT_BARRIER_INFO"}
      BY <2>1 DEF MemInv, OneAtATime, HandleGrantWNI, HandleGrantPage, HandleExitBarrierInfo, Received
    <3>2. pc[m.to] \notin {"diff", "diffWait"}
      BY <3>1 DEF Expected, Client, Request
    <3>3. h # m.to => pc'[h] = pc[h]
      BY <1>0, <2>0, <2>1 DEF HandleGrantWNI, HandleGrantPage, HandleExitBarrierInfo, ThreadTypes
    <3> QED BY <2>0, <3>2, <3>3
  <2>2. CASE HandleGrantDiff(m)
    BY <1>0, <2>0, <2>2 DEF HandleGrantDiff, ThreadTypes
  <2>3. CASE \/ HandleFetchWNI(m) \/ HandleFetchPage(m) \/ HandleFetchDiff(m)
             \/ HandleEnterBarrierInfo(m)
    BY <2>0, <2>3 DEF HandleFetchWNI, HandleFetchPage, HandleFetchDiff, HandleEnterBarrierInfo
  <2> QED BY <1>3, <2>1, <2>2, <2>3 DEF Dispatch
<1>4. ASSUME CompleteBarrier PROVE Goal
  <2>1. 0 \in Host /\ pc[0] = "barrier" /\ pc'[h] = IF h = 0 THEN "app" ELSE pc[h]
    BY <1>0, <1>4, ZeroHost, AllEntered DEF CompleteBarrier, ThreadTypes
  <2> QED BY <1>4, <2>1 DEF CompleteBarrier
<1>5. ASSUME UNCHANGED vars PROVE Goal
  BY <1>5 DEF vars
<1>6. Goal
  <2> HIDE DEF Goal
  <2> QED BY <1>1, <1>2, <1>3, <1>4, <1>5 DEF Next
<1> QED BY <1>6 DEF TodoIdle

(* Every step keeps what is known backed by what its host has. *)
LEMMA BackedStep ==
  ASSUME Undisturbed, MemInv, [Next]_vars, Types', Backed
  PROVE Backed'
<1>1. Retained
  BY KeptStep
<1>2. NoticesOwned' /\ IntervalsOwned' /\ HomesMapped'
  BY <1>1, ListsOwned DEF Types
<1>3. PacketsOwned'
  BY <1>1, PacketsOwnedStep
<1>4. TodoOwned' /\ RequestsOwned' /\ TodoIdle'
  BY <1>1, TodoOwnedStep, RequestsOwnedStep, TodoIdleStep DEF Backed
<1> QED BY <1>2, <1>3, <1>4 DEF Backed

(* At first nobody knows of any notice, and the homes map their pages. *)
LEMMA BackedInit == ASSUME Init PROVE Backed
<1>1. NoticesOwned /\ PacketsOwned /\ TodoOwned /\ TodoIdle /\ RequestsOwned
  BY DEF Init, NoticesOwned, PacketsOwned, TodoOwned, TodoIdle, RequestsOwned
<1>2. IntervalsOwned
  <2> SUFFICES ASSUME NEW g \in Host, NEW j \in Host, NEW i \in DOMAIN intervals[g][j]
               PROVE intervals[g][j][i].noticed = {}
    BY DEF IntervalsOwned
  <2>1. CASE g = j
    <3>1. intervals[g][j] = <<Interval(ZeroStamp, TRUE)>>
      BY <2>1 DEF Init
    <3> QED BY <3>1 DEF Interval
  <2>2. CASE g # j
    <3>1. intervals[g][j] = << >>
      BY <2>2 DEF Init
    <3> QED BY <3>1
  <2> QED BY <2>1, <2>2
<1>3. HomesMapped
  BY DEF Init, HomesMapped, Mapped
<1> QED BY <1>1, <1>2, <1>3 DEF Backed

-----------------------------------------------------------------------------
(* A host that waits has its request or the answer under way *)

Waiting == {"wni", "page", "diffWait"}

Attended(h) == pc[h] \in Waiting => \E m \in msgs : Client(m) = h

(* While no handler waits for a diff, no host waits for nothing. *)
AllAttended == (\A h \in Host : ~stuck[h]) => \A h \in Host : Attended(h)

(* A handler that waits for a diff waits for ever. *)
LEMMA StuckStays ==
  ASSUME MemInv, [Next]_vars, NEW h \in Host, stuck[h]
  PROVE stuck'[h]
<1>0. Types /\ ThreadTypes
  BY DEF MemInv, Types
<1>1. ASSUME NEW g \in Host, Begin(g) \/ Main(g) \/ EnterBarrier(g) PROVE stuck' = stuck
  BY <1>1 DEF Begin, EnterBarrier, Main, FaultMiss, FaultInvalid, ReadNotices, FetchDiff, Resolved,
              FaultWrite, FaultTwin, FaultNotice, FaultWritable, FaultProtect, Access, End
<1>2. ASSUME NEW m \in msgs, Dispatch(m) PROVE stuck'[h]
  <2>1. CASE HandleFetchPage(m)
    <3>1. PICK b \in BOOLEAN : stuck' = [stuck EXCEPT ![m.to] = b]
      BY <2>1, HandleFetchPageDoes
    <3>2. m.to # h
      BY <2>1 DEF HandleFetchPage, Received
    <3> QED BY <1>0, <3>1, <3>2 DEF ThreadTypes
  <2>2. CASE ~HandleFetchPage(m)
    BY <1>2, <2>2 DEF Dispatch, HandleFetchWNI, HandleFetchDiff, HandleGrantWNI, HandleGrantPage,
                      HandleGrantDiff, HandleEnterBarrierInfo, HandleExitBarrierInfo
  <2> QED BY <2>1, <2>2
<1>3. ASSUME CompleteBarrier PROVE stuck' = stuck
  BY <1>3 DEF CompleteBarrier
<1>4. ASSUME UNCHANGED vars PROVE stuck' = stuck
  BY <1>4 DEF vars
<1> QED BY <1>1, <1>2, <1>3, <1>4 DEF Next

(* The thread of a host sends its request as it starts to wait. *)
LEMMA ThreadAttended ==
  ASSUME MemInv, NEW g \in Host, Begin(g) \/ Main(g) \/ EnterBarrier(g),
         NEW h \in Host, Attended(h)
  PROVE Attended(h)'
<1>0. Types /\ ThreadTypes
  BY DEF MemInv, Types
<1>1. msgs \subseteq msgs'
  BY DEF Begin, EnterBarrier, Main, FaultMiss, FaultInvalid, ReadNotices, FetchDiff, Resolved,
         FaultWrite, FaultTwin, FaultNotice, FaultWritable, FaultProtect, Access, End
<1>2. CASE g # h
  <2>1. pc'[h] = pc[h]
    BY <1>0, <1>2 DEF Begin, EnterBarrier, Main, FaultMiss, FaultInvalid, ReadNotices, FetchDiff,
           Resolved, FaultWrite, FaultTwin, FaultNotice, FaultWritable, FaultProtect, Access, End, ThreadTypes
  <2> QED BY <1>1, <2>1 DEF Attended, Client
<1>3. CASE g = h
  <2>1. \/ pc'[h] \notin Waiting
        \/ \E command \in Request : \E to, body : Msg(command, h, to, body) \in msgs'
    <3>1. CASE Begin(h)
      <4>1. \/ pc'[h] = "access"
            \/ \E to, body : Msg("FETCH_WN_I", h, to, body) \in msgs'
        BY <1>0, <3>1 DEF Begin, ThreadTypes
      <4> QED BY <4>1 DEF Waiting, Request
    <3>2. CASE FaultMiss(h)
      <4>1. \E to, body : Msg("FETCH_PAGE", h, to, body) \in msgs'
        BY <3>2 DEF FaultMiss
      <4> QED BY <4>1 DEF Request
    <3>3. CASE FetchDiff(h)
      <4>1. \E to, body : Msg("FETCH_DIFF", h, to, body) \in msgs'
        BY <3>3 DEF FetchDiff
      <4> QED BY <4>1 DEF Request
    <3>4. CASE ~Begin(h) /\ ~FaultMiss(h) /\ ~FetchDiff(h)
      <4>1. pc'[h] \in {"diff", "access", "done", "app", "barrier"} \cup FaultPoints
        BY <1>0, <1>3, <3>4 DEF EnterBarrier, Main, FaultInvalid, ReadNotices, Resolved, FaultWrite,
             FaultTwin, FaultNotice, FaultWritable, FaultProtect, Access, End, Running, ThreadTypes,
             FaultPoints
      <4> QED BY <4>1 DEF Waiting, FaultPoints
    <3> QED BY <3>1, <3>2, <3>3, <3>4
  <2>2. ASSUME NEW command \in Request, NEW to, NEW body, Msg(command, h, to, body) \in msgs'
        PROVE \E m \in msgs' : Client(m) = h
    <3>1. PICK m : m = Msg(command, h, to, body)
      OBVIOUS
    <3> QED BY <2>2, <3>1, ClientOfRequest
  <2> QED BY <2>1, <2>2 DEF Attended, Client
<1> QED BY <1>2, <1>3

(* Every request is answered, unless the handler itself has to wait: the page *)
(* is mapped and the notice is there. An answer ends the wait.                *)
LEMMA HandlerAttended ==
  ASSUME Undisturbed, MemInv, Backed, NEW m \in msgs, Dispatch(m), ~stuck'[m.to],
         NEW h \in Host, Attended(h)
  PROVE Attended(h)'
<1>0. Types /\ ThreadTypes /\ OneAtATime /\ m \in Message /\ RequestsOwned /\ HomesMapped
  BY DEF MemInv, Types, Backed
<1>1. m.to \in Host /\ m.from \in Host /\ Expected(m) /\ m.command \in Command
  BY <1>0, Letters DEF OneAtATime
<1>2. msgs \ {m} \subseteq msgs'
  <2>1. CASE HandleFetchPage(m)
    BY <2>1, HandleFetchPageDoes
  <2>2. CASE ~HandleFetchPage(m)
    BY <2>2 DEF Dispatch, HandleFetchWNI, HandleFetchDiff, HandleGrantWNI, HandleGrantPage,
                HandleGrantDiff, HandleEnterBarrierInfo, HandleExitBarrierInfo
  <2> QED BY <2>1, <2>2
<1>3. pc'[h] = pc[h] \/ (h = m.to /\ pc'[h] \notin Waiting)
  BY <1>0, <1>1 DEF Dispatch, HandleFetchWNI, HandleFetchPage, HandleFetchDiff, HandleGrantWNI,
       HandleGrantPage, HandleGrantDiff, HandleEnterBarrierInfo, HandleExitBarrierInfo, ThreadTypes,
       Waiting
<1>4. CASE Client(m) # h
  BY <1>2, <1>3, <1>4 DEF Attended, Client
<1>5. CASE Client(m) = h
  <2>0. ASSUME NEW command, command \notin Request, NEW body, Msg(command, m.to, m.from, body) \in msgs',
               m.command \in Request
        PROVE \E n \in msgs' : Client(n) = h
    <3>1. PICK n : n = Msg(command, m.to, m.from, body)
      OBVIOUS
    <3>2. Client(n) = m.from
      BY <2>0, <3>1, ClientOfAnswer
    <3> QED BY <1>5, <2>0, <3>1, <3>2 DEF Client
  <2>1. CASE HandleFetchWNI(m)
    <3>1. m.command \in Request
      BY <2>1 DEF HandleFetchWNI, Received, Request
    <3>2. \E body : Msg("GRANT_WN_I", m.to, m.from, body) \in msgs'
      BY <2>1 DEF HandleFetchWNI
    <3>3. "GRANT_WN_I" \notin Request
      BY DEF Request
    <3> QED BY <2>0, <3>1, <3>2, <3>3 DEF Attended, Client
  <2>2. CASE HandleFetchPage(m)
    <3>1. m.command = "FETCH_PAGE" /\ m.command \in Request
      BY <2>2 DEF HandleFetchPage, Received, Request
    <3>2. pages[m.to][m.body].state # "MISS"
      BY <1>0, <3>1 DEF RequestsOwned, Mapped
    <3>3. msgs' = (msgs \ {m}) \cup {Msg("GRANT_PAGE", m.to, m.from,
                              [page |-> m.body, data |-> pages[m.to][m.body].data])}
      BY <2>2, <3>2, HandleFetchPageDoes
    <3>5. Msg("GRANT_PAGE", m.to, m.from, [page |-> m.body, data |-> pages[m.to][m.body].data]) \in msgs'
      BY <3>3
    <3>4. "GRANT_PAGE" \notin Request
      BY DEF Request
    <3> QED BY <2>0, <3>1, <3>4, <3>5 DEF Attended, Client
  <2>3. CASE HandleFetchDiff(m)
    <3>1. m.command = "FETCH_DIFF" /\ m.command \in Request
      BY <2>3 DEF HandleFetchDiff, Received, Request
    <3>2. Owned(m.to, m.body.page, m.body.timestamp)
      BY <1>0, <3>1 DEF RequestsOwned
    <3>3. m.body.page \in PageIndex
      BY <2>3, FetchDiffCases
    <3>4. Mapped(m.to, m.body.page)
      <4>1. notices[m.to][m.body.page][m.to] # << >>
        BY <3>2 DEF Owned, Timed
      <4> QED BY <1>0, <1>1, <3>3, <4>1 DEF HomesMapped
    <3>5. ~NoDiff(m)
      BY <3>2, <3>4 DEF NoDiff, Owned, Mapped
    <3>6. PICK at, d, next, v : GivesDiff(m, at, d, next, v)
      BY <2>3, <3>5, FetchDiffCases
    <3>8. msgs' = (msgs \ {m}) \cup
            {Msg("GRANT_DIFF", m.to, m.from, [page |-> m.body.page, timestamp |-> m.body.timestamp, diff |-> d])}
      BY <3>6 DEF GivesDiff
    <3>9. Msg("GRANT_DIFF", m.to, m.from, [page |-> m.body.page, timestamp |-> m.body.timestamp, diff |-> d]) \in msgs'
      BY <3>8
    <3>7. "GRANT_DIFF" \notin Request
      BY DEF Request
    <3> QED BY <2>0, <3>1, <3>7, <3>9 DEF Attended, Client
  <2>4. CASE HandleEnterBarrierInfo(m)
    <3>1. m.command = "GRANT_ENTER_BARRIER_INFO" /\ pc' = pc
      BY <2>4 DEF HandleEnterBarrierInfo, Received
    <3>2. pc[h] = "barrier"
      BY <1>1, <1>5, <3>1 DEF Expected
    <3> QED BY <3>1, <3>2 DEF Attended, Waiting
  <2>5. CASE HandleGrantWNI(m) \/ HandleGrantPage(m) \/ HandleGrantDiff(m) \/ HandleExitBarrierInfo(m)
    <3>1. m.command \notin Request
      BY <2>5 DEF HandleGrantWNI, HandleGrantPage, HandleGrantDiff, HandleExitBarrierInfo, Received,
                  Request
    <3>2. m.to = h
      BY <1>5, <3>1 DEF Client
    <3>3. pc'[h] \in {"access", "pageGot", "diff", "app"}
      BY <1>0, <2>5, <3>2 DEF HandleGrantWNI, HandleGrantPage, HandleGrantDiff,
                              HandleExitBarrierInfo, ThreadTypes
    <3> QED BY <3>3 DEF Attended, Waiting
  <2> QED BY <2>1, <2>2, <2>3, <2>4, <2>5 DEF Dispatch
<1> QED BY <1>4, <1>5

(* No step leaves a waiting host without a message. *)
LEMMA AttendedStep ==
  ASSUME Undisturbed, MemInv, Backed, AllAttended, [Next]_vars
  PROVE AllAttended'
<1> SUFFICES ASSUME \A g \in Host : ~stuck'[g], NEW h \in Host PROVE Attended(h)'
  BY DEF AllAttended
<1>0. Attended(h) /\ Types /\ ThreadTypes
  BY StuckStays DEF AllAttended, MemInv, Types
<1>1. ASSUME NEW g \in Host, Begin(g) \/ Main(g) \/ EnterBarrier(g) PROVE Attended(h)'
  BY <1>0, <1>1, ThreadAttended
<1>2. ASSUME NEW m \in msgs, Dispatch(m) PROVE Attended(h)'
  <2>1. m.to \in Host
    BY <1>0, Letters DEF Types
  <2> QED BY <1>0, <1>2, <2>1, HandlerAttended
<1>3. ASSUME CompleteBarrier PROVE Attended(h)'
  <2>1. msgs \subseteq msgs' /\ pc' = [pc EXCEPT ![0] = "app"]
    BY <1>3 DEF CompleteBarrier
  <2>2. pc'[h] = pc[h] \/ pc'[h] = "app"
    BY <1>0, <2>1 DEF ThreadTypes
  <2> QED BY <1>0, <2>1, <2>2 DEF Attended, Client, Waiting
<1>4. ASSUME UNCHANGED vars PROVE Attended(h)'
  BY <1>0, <1>4 DEF vars, Attended, Client
<1> QED BY <1>1, <1>2, <1>3, <1>4 DEF Next

(* The message of a waiting host is its request or the answer to it. *)
LEMMA AttendedThen ==
  ASSUME MemInv, AllAttended
  PROVE (\A h \in Host : ~stuck[h]) => WaitersAnswered
<1> SUFFICES ASSUME \A g \in Host : ~stuck[g], NEW h \in Host, pc[h] \in {"wni", "page", "diffWait"}
             PROVE \E m \in msgs : m.from = h \/ (m.to = h /\ m.command \in {"GRANT_WN_I", "GRANT_PAGE", "GRANT_DIFF"})
  BY DEF WaitersAnswered
<1>1. PICK m \in msgs : Client(m) = h
  BY DEF AllAttended, Attended, Waiting
<1>2. Expected(m) /\ m.command \in Command
  BY Letters DEF MemInv, Types, OneAtATime
<1>3. CASE m.command \in Request
  BY <1>1, <1>3 DEF Client
<1>4. CASE m.command \notin Request
  <2>1. m.to = h
    BY <1>1, <1>4 DEF Client
  <2>2. m.command \notin {"GRANT_ENTER_BARRIER_INFO", "GRANT_EXIT_BARRIER_INFO"}
    BY <1>1, <1>2 DEF Expected
  <2> QED BY <1>2, <1>4, <2>1, <2>2 DEF Command, Request
<1> QED BY <1>3, <1>4

(* The program of no host waits for nothing: as long as the SIGIO handler of   *)
(* no host waits for a diff itself (grantPage's read of an INVALID page), each *)
(* host that mi_lock or segv_handler keeps waiting has its request or the      *)
(* answer under way. grantPage is only asked for pages that its host maps, and *)
(* grantDiff only for diffs of notices that its host has: a notice, an         *)
(* interval or a packet that any host or message holds names a notice that its *)
(* writer has, and no host loses a notice or a page.                           *)
THEOREM AnswersCorrect ==
  Spec /\ [][Undisturbed]_vars /\ TimestampsAdvance =>
    []((\A h \in Host : ~stuck[h]) => WaitersAnswered)
<1> DEFINE Inv == Backed /\ AllAttended
<1>1. Init => Inv
  <2> SUFFICES ASSUME Init PROVE Inv
    OBVIOUS
  <2>1. AllAttended
    BY DEF Init, AllAttended, Attended, Waiting
  <2> QED BY <2>1, BackedInit
<1>2. MemInv /\ MemInv' /\ Inv /\ [Next]_vars /\ [Undisturbed]_vars => Inv'
  <2> SUFFICES ASSUME MemInv, MemInv', Inv, [Next]_vars, [Undisturbed]_vars PROVE Inv'
    OBVIOUS
  <2>1. Undisturbed
    <3>1. UNCHANGED vars => Undisturbed
      BY DEF vars, Undisturbed
    <3> QED BY <3>1
  <2>2. Types'
    BY DEF MemInv
  <2> QED BY <2>1, <2>2, BackedStep, AttendedStep
<1>3. MemInv /\ Inv => ((\A h \in Host : ~stuck[h]) => WaitersAnswered)
  BY AttendedThen
<1>4. MemInv /\ WrittenOnce => MemInv
  OBVIOUS
<1> HIDE DEF Inv
<1> QED BY <1>1, <1>2, <1>3, <1>4, MemAlways, PTL DEF Spec
=============================================================================
