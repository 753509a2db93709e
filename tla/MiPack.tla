-------------------------------- MODULE MiPack --------------------------------
(***************************************************************************)
(* How write notices are packed into messages: sendEnterBarrierInfo,       *)
(* returnAllBarrierInfo and grantWNI of mem.c, and the handlers that take  *)
(* the notices in, at the nodes that MiStart has brought up.               *)
(*                                                                         *)
(* MiMem and MiBarrier pass all notices of a transfer in one go.  The code *)
(* cuts them up: a packet takes MAX_WN_NUM notices of one interval, and a  *)
(* message as many packets as fit; a transfer at a barrier continues in    *)
(* further messages, of which only the first carries a timestamp, since    *)
(* the receiver opens an interval for each timestamp it sees.              *)
(*                                                                         *)
(* Which intervals a receiver lacks is decided in MiMem (isAfterInterval); *)
(* here a transfer is given by the number of notices of each of them.  The *)
(* messages arrive once and in order (Channel).                            *)
(***************************************************************************)
EXTENDS MiStart

CONSTANTS
  Transfers,    \* what may be transferred: records [kind, counts]; counts are the
                \* numbers of notices of the intervals, in the order they are sent
  MAX_WN_NUM,
  MAX_MSG_SIZE

IntSize == 4
MSG_HEAD_SIZE == (MAX_HOST_NUM + 5) * IntSize
PacketSize == (2 + MAX_HOST_NUM + MAX_WN_NUM) * IntSize \* sizeof(wnPacket_t)

ASSUME SizesAssumption ==
  /\ MAX_WN_NUM \in Nat \ {0} /\ MAX_MSG_SIZE \in Nat
  /\ IntSize + PacketSize <= MAX_MSG_SIZE - MSG_HEAD_SIZE
ASSUME TransfersAssumption ==
  \A t \in Transfers : /\ t.kind \in {"enter", "exit", "wni"}
                       /\ t.counts \in Seq(Nat)

VARIABLES
  transfer, \* the transfer under way: its kind, counts and receivers, or Nothing
  todo,     \* the hosts that it still has to go to, in the order of the loop
  at,       \* the interval that is packed next
  left,     \* how many of that interval's notices have been packed
  msg,      \* the message that is being filled
  firstMsgSent,
  wire,     \* the messages on their way
  stamped,  \* history: stamped[h]: how many timestamps host h has taken over
  got       \* history: got[h]: the packets that host h has incorporated

packVars == <<transfer, todo, at, left, msg, firstMsgSent, wire, stamped, got>>

Nothing == [kind |-> "none", counts |-> << >>, to |-> << >>]

-----------------------------------------------------------------------------
(* Messages: apendMsgData and the test for room after it. *)

DataSize(packets) == IntSize + Len(packets) * PacketSize

(* Mutant: the message has room until its last byte is used. *)
FullWhenOver(packets) == DataSize(packets) >= MAX_MSG_SIZE - MSG_HEAD_SIZE

(* There is not enough room for one more packet. *)
Full(packets) == PacketSize > MAX_MSG_SIZE - MSG_HEAD_SIZE - DataSize(packets)

FirstMsg(to) == [to |-> to, stamp |-> TRUE, packets |-> << >>]

(* Mutant: the timestamp is written into every message. *)
StampedNextMsg(to, more) == [to |-> to, stamp |-> TRUE, packets |-> << >>]

(* The message that continues a transfer to host to: its timestamp stays    *)
(* -1. When it is opened after a packet with the rest of an interval (more) *)
(* it goes to host 0, which at a barrier's exit is the sender itself.       *)
NextMsg(to, more) == [to |-> IF more THEN 0 ELSE to, stamp |-> FALSE, packets |-> << >>]

-----------------------------------------------------------------------------
PackInit == /\ transfer = Nothing /\ todo = << >>
            /\ at = 1 /\ left = 0
            /\ msg = FirstMsg(0) /\ firstMsgSent = FALSE
            /\ wire = << >>
            /\ stamped = [h \in Node |-> 0]
            /\ got = [h \in Node |-> << >>]

hostnum(n) == Len(hosts[n])

(* The hosts that a transfer of this kind goes to. *)
Receivers(n, kind) ==
  CASE kind = "enter" -> IF myhostid[n] = 0 THEN {} ELSE {<<0>>}
    [] kind = "exit" -> IF myhostid[n] = 0 /\ hostnum(n) > 1
                        THEN {[i \in 1 .. hostnum(n) - 1 |-> i]} ELSE {}
    [] kind = "wni" -> {<<h>> : h \in (0 .. hostnum(n) - 1) \ {myhostid[n]}}

(* A node begins a transfer: an entry to the barrier, an exit from it by    *)
(* host 0, or the grant of notices to a host that asked for them.           *)
Begin(n) ==
  /\ transfer = Nothing
  /\ \E t \in Transfers : \E to \in Receivers(n, t.kind) :
       /\ transfer' = [kind |-> t.kind, counts |-> t.counts, to |-> to]
       /\ todo' = to
       /\ msg' = FirstMsg(Head(to))
  /\ at' = 1 /\ left' = 0 /\ firstMsgSent' = FALSE
  /\ UNCHANGED <<wire, stamped, got>>

Packing == transfer # Nothing /\ todo # << >>
Count == transfer.counts[at]

(* An interval without notices is passed over. *)
SkipInterval ==
  /\ Packing /\ at <= Len(transfer.counts) /\ Count = 0
  /\ at' = at + 1
  /\ UNCHANGED <<transfer, todo, left, msg, firstMsgSent, wire, stamped, got>>

(* Mutant: the rest of a long interval is forgotten. *)
AdvanceDropRest(n) == at' = at + 1 /\ left' = 0

(* The next notice to pack, after the first n notices of the interval. *)
Advance(n) == IF n < Count THEN at' = at /\ left' = n
              ELSE at' = at + 1 /\ left' = 0

(* addWNIIntoPacketForHost and apendMsgData; at a barrier a message that    *)
(* has no room for one more packet is sent and the next one opened. What a  *)
(* grant appends past the array of its message is undefined in the code;    *)
(* here it is kept, and TypeOK tells. Only grants that fit mean anything.   *)
AddPacket ==
  /\ Packing /\ at <= Len(transfer.counts) /\ Count > 0
  /\ LET n == IF Count - left < MAX_WN_NUM THEN Count - left ELSE MAX_WN_NUM
         filled == [msg EXCEPT !.packets = Append(@, [interval |-> at, first |-> left, count |-> n])]
     IN /\ IF transfer.kind # "wni" /\ Full(filled.packets)
           THEN /\ wire' = Append(wire, filled)
                /\ firstMsgSent' = TRUE
                /\ msg' = NextMsg(Head(todo), left > 0)
           ELSE msg' = filled /\ UNCHANGED <<wire, firstMsgSent>>
        /\ Advance(left + n)
  /\ UNCHANGED <<transfer, todo, stamped, got>>

(* One message has not been sent out. *)
Unsent == msg.packets # << >> \/ ~firstMsgSent

(* All intervals are packed: the last message is sent, if it has anything   *)
(* to say, and the next host's turn comes.                                  *)
SendLast ==
  /\ Packing /\ at > Len(transfer.counts)
  /\ wire' = IF Unsent THEN Append(wire, msg) ELSE wire
  /\ todo' = Tail(todo)
  /\ msg' = IF Tail(todo) = << >> THEN msg ELSE FirstMsg(todo[2])
  /\ at' = 1 /\ left' = 0 /\ firstMsgSent' = FALSE
  /\ UNCHANGED <<transfer, stamped, got>>

(* handleGrantEnterBarrierMsg, handleGrantExitBarrierMsg and                *)
(* handleGrantWNIMsg: a timestamp is taken over, by host 0 only if it has   *)
(* none of the sender yet, and every packet incorporated.                   *)
Take ==
  /\ wire # << >>
  /\ LET m == Head(wire)
     IN /\ stamped' = [stamped EXCEPT ![m.to] = IF m.stamp /\ (transfer.kind = "enter" => @ = 0) THEN @ + 1 ELSE @]
        /\ got' = [got EXCEPT ![m.to] = @ \o m.packets]
  /\ wire' = Tail(wire)
  /\ UNCHANGED <<transfer, todo, at, left, msg, firstMsgSent>>

PackNext == (\E n \in Node : stage[n] = "up" /\ Begin(n)) \/ SkipInterval \/ AddPacket \/ SendLast \/ Take

(* Start-up, allocation and a transfer. *)
SystemInit == Init /\ PackInit
SystemNext == \/ Next /\ UNCHANGED packVars
              \/ PackNext /\ UNCHANGED vars

SystemSpec == SystemInit /\ [][SystemNext]_<<vars, packVars>>

-----------------------------------------------------------------------------
(* Properties *)

Destinations == {transfer.to[i] : i \in DOMAIN transfer.to}

(* Type invariant: what is appended to a message stays within its array. *)
TypeOK ==
  /\ StartTypeOK
  /\ at \in 1 .. Len(transfer.counts) + 1
  /\ left \in Nat
  /\ \A m \in {msg} \cup {wire[i] : i \in DOMAIN wire} :
       m.to \in Node /\ DataSize(m.packets) <= MAX_MSG_SIZE - MSG_HEAD_SIZE

(* The transfer has been made. *)
Over == transfer # Nothing /\ todo = << >> /\ wire = << >>

(* Packet q continues where packet p ends. *)
Follows(counts, p, q) ==
  \/ q.interval = p.interval /\ q.first = p.first + p.count
  \/ /\ q.interval > p.interval /\ q.first = 0
     /\ p.first + p.count = counts[p.interval]
     /\ \A i \in p.interval + 1 .. q.interval - 1 : counts[i] = 0

(* However many messages they take, the notices of a transfer arrive in the *)
(* order they were packed in, interval after interval, each once and none   *)
(* left out; when the transfer is over every receiver has all of them.      *)
NoticesArrive ==
  \A h \in Node :
    /\ \A k \in 2 .. Len(got[h]) : Follows(transfer.counts, got[h][k - 1], got[h][k])
    /\ got[h] # << >> => /\ h \in Destinations /\ got[h][1].first = 0
                         /\ \A i \in 1 .. got[h][1].interval - 1 : transfer.counts[i] = 0
    /\ (Over /\ h \in Destinations) =>
         LET all == {i \in DOMAIN transfer.counts : transfer.counts[i] > 0}
         IN /\ \A i \in all : \E k \in DOMAIN got[h] : got[h][k].interval = i
            /\ all # {} => LET q == got[h][Len(got[h])]
                           IN q.first + q.count = transfer.counts[q.interval]

(* A host takes over the timestamp of a transfer exactly once, before any   *)
(* of its notices: with a second one it would open a second interval at the *)
(* barrier, and with none it would never enter or leave it.                 *)
StampedOnce ==
  \A h \in Node :
    /\ stamped[h] <= 1
    /\ got[h] # << >> => stamped[h] = 1
    /\ (Over /\ h \in Destinations) => stamped[h] = 1
=============================================================================
